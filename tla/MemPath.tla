-------------------------------- MODULE MemPath --------------------------------
(***************************************************************************)
(* A timing path of the memory system: requestors with packet queues, a    *)
(* non-coherent crossbar, a bridge with bounded queues and a SimpleMemory. *)
(* A receiver that cannot take a packet refuses it and owes the sender a   *)
(* retry; a lost retry stops the path for good.                            *)
(*                                                                         *)
(* The ports call each other synchronously: an event sends a packet, the   *)
(* receiver takes it and calls retry functions, which send packets.  Each  *)
(* function of the code is an operator from a state of all the components  *)
(* to the next, with the value it returns in the field ret, and each event *)
(* is one action.  Times are abstracted: a scheduled event happens, after  *)
(* any delay, and where the place of a packet in a queue depends on ticks  *)
(* it may be any place the code's search can stop at.  The system is not   *)
(* draining.                                                               *)
(***************************************************************************)
EXTENDS Integers, Sequences, SequencesExt, FiniteSets

CONSTANTS
  Requestor,        \* the cpu-side ports of the crossbar
  Packet,           \* the requests
  owner(_),         \* the requestor that sends a request
  needsResponse(_), \* a writeback does not need one
  reqQueueLimit,    \* req_size of the bridge
  respQueueLimit,   \* resp_size of the bridge
  NoPort,           \* not a requestor
  MaxRefusals       \* bound: how often requestors refuse a response

ASSUME LimitsAssumption == reqQueueLimit \in Nat \ {0} /\ respQueueLimit \in Nat \ {0}
ASSUME PortsAssumption == NoPort \notin Requestor /\ MaxRefusals \in Nat

VARIABLES
  reqQueue,    \* the ReqPacketQueue of each requestor
  reqLayer,    \* the crossbar layer towards the bridge
  respLayer,   \* the layers towards the requestors
  respQueue,   \* the RespPacketQueue of each cpu-side port
  routeTo,     \* the port each outstanding request came from
  bridge,      \* both ports of the bridge
  mem,         \* the SimpleMemory
  served,      \* how often the memory performed each request
  answered,    \* how often its requestor received a response to it
  refusals,    \* how many responses have been refused
  failed       \* some assert of the code has failed

vars == <<reqQueue, reqLayer, respLayer, respQueue, routeTo, bridge, mem, served, answered,
          refusals, failed>>

EmptyQueue == [transmitList |-> <<>>, sendEvent |-> FALSE, waitingOnRetry |-> FALSE]

Init ==
  /\ reqQueue = [r \in Requestor |-> EmptyQueue]
  /\ reqLayer = [state |-> "IDLE", waitingForLayer |-> <<>>, waitingForPeer |-> NoPort]
  /\ respLayer = [r \in Requestor |-> [state |-> "IDLE", waiting |-> FALSE]]
  /\ respQueue = [r \in Requestor |-> EmptyQueue]
  /\ routeTo = [p \in Packet |-> NoPort]
  /\ bridge = [reqs |-> <<>>, reqEvent |-> FALSE, resps |-> <<>>, respEvent |-> FALSE,
               outstandingResponses |-> 0, retryReq |-> FALSE]
  /\ mem = [isBusy |-> FALSE, retryReq |-> FALSE, packetQueue |-> <<>>, dequeueEvent |-> FALSE]
  /\ served = [p \in Packet |-> 0] /\ answered = [p \in Packet |-> 0]
  /\ refusals = 0 /\ failed = FALSE

(* The state of all components, as the synchronous calls hand it on. *)
State == [reqQueue |-> reqQueue, reqLayer |-> reqLayer, respLayer |-> respLayer,
          respQueue |-> respQueue, routeTo |-> routeTo, bridge |-> bridge, mem |-> mem,
          served |-> served, failed |-> failed, ret |-> FALSE]

Become(s) == \E t \in {s} :
  /\ reqQueue' = t.reqQueue /\ reqLayer' = t.reqLayer /\ respLayer' = t.respLayer
  /\ respQueue' = t.respQueue /\ routeTo' = t.routeTo /\ bridge' = t.bridge /\ mem' = t.mem
  /\ served' = t.served /\ failed' = t.failed

Require(s, holds) == [s EXCEPT !.failed = @ \/ ~holds]
-----------------------------------------------------------------------------
(* SimpleMemory. *)

(***************************************************************************)
(* Where the insertion sort can put a response: behind the head of a queue *)
(* that is not empty, and else anywhere, as the latency of the memory may  *)
(* vary.  (It also keeps responses for one address in order.)              *)
(***************************************************************************)
Places(q) == (IF q = <<>> THEN 1 ELSE 2) .. Len(q) + 1

(* Slip: the access is performed before the memory looks whether it is busy. *)
accessFirst(s, p, i) ==
  IF s.mem.retryReq \/ s.mem.isBusy
    THEN [s EXCEPT !.mem.retryReq = TRUE, !.served[p] = @ + 1, !.ret = FALSE]
    ELSE [s EXCEPT !.mem.isBusy = TRUE, !.served[p] = @ + 1, !.ret = TRUE,
                   !.mem.packetQueue = IF needsResponse(p) THEN InsertAt(@, i, p) ELSE @,
                   !.mem.dequeueEvent = @ \/ needsResponse(p)]

(* A memory of finite bandwidth: busy until releaseEvent.  i is the place of the response. *)
memRecvTimingReq(s, p, i) ==
  IF s.mem.retryReq \/ s.mem.isBusy
    THEN [s EXCEPT !.mem.retryReq = TRUE, !.ret = FALSE]
    ELSE [s EXCEPT !.mem.isBusy = TRUE, !.served[p] = @ + 1, !.ret = TRUE,
                   !.mem.packetQueue = IF needsResponse(p) THEN InsertAt(@, i, p) ELSE @,
                   !.mem.dequeueEvent = @ \/ needsResponse(p)]
-----------------------------------------------------------------------------
(* The packet queues.  sendTiming(s) is the state after the head has been offered to the peer. *)

(* After sendTiming of the head p of queue q: the next packet is scheduled, or p put back. *)
afterSend(q, p, sent) ==
  IF sent THEN [q EXCEPT !.waitingOnRetry = FALSE, !.sendEvent = @ \/ q.transmitList # <<>>]
          ELSE [q EXCEPT !.waitingOnRetry = TRUE, !.transmitList = <<p>> \o @]

(* schedSendTiming at place i; only a new head needs an event, and a queue that waits for a retry none. *)
schedSendTiming(q, p, i) ==
  [q EXCEPT !.transmitList = InsertAt(@, i, p),
            !.sendEvent = @ \/ (i = 1 /\ ~q.waitingOnRetry)]
-----------------------------------------------------------------------------
(* The bridge and the request layer of the crossbar. *)

reqQueueFull(s) == Len(s.bridge.reqs) = reqQueueLimit
(* Slip: only the responses that are already queued count. *)
respQueueLong(s) == Len(s.bridge.resps) = respQueueLimit

respQueueFull(s) == s.bridge.outstandingResponses = respQueueLimit

schedTimingReq(s, p) ==
  [Require(s, ~reqQueueFull(s) /\ (s.bridge.reqs = <<>> => ~s.bridge.reqEvent))
     EXCEPT !.bridge.reqs = Append(@, p), !.bridge.reqEvent = @ \/ s.bridge.reqs = <<>>]

bridgeRecvTimingReq(s, p) ==
  IF s.bridge.retryReq \/ reqQueueFull(s) \/ (needsResponse(p) /\ respQueueFull(s))
    THEN [s EXCEPT !.bridge.retryReq = TRUE, !.ret = FALSE]
    ELSE [schedTimingReq(s, p) EXCEPT
            !.bridge.outstandingResponses = IF needsResponse(p) THEN @ + 1 ELSE @,
            !.ret = TRUE]

(* NoncoherentXBar::recvTimingReq with Layer::tryTiming, succeededTiming and failedTiming. *)
xbarRecvTimingReq(s, p, r) ==
  IF s.reqLayer.state = "BUSY" \/ s.reqLayer.waitingForPeer # NoPort
    THEN [Require(s, ~Contains(s.reqLayer.waitingForLayer, r))
            EXCEPT !.reqLayer.waitingForLayer = Append(@, r), !.ret = FALSE]
    ELSE LET t == bridgeRecvTimingReq([s EXCEPT !.reqLayer.state = "BUSY"], p) IN
         IF t.ret
           THEN [Require(t, needsResponse(p) => t.routeTo[p] = NoPort)
                   EXCEPT !.routeTo[p] = IF needsResponse(p) THEN r ELSE @]
           ELSE [Require(t, t.reqLayer.waitingForPeer = NoPort)
                   EXCEPT !.reqLayer.waitingForPeer = r]

(* PacketQueue::sendDeferredPacket of a requestor. *)
sendRequest(s, r) ==
  LET p == Head(s.reqQueue[r].transmitList)
      t == xbarRecvTimingReq([Require(s, ~s.reqQueue[r].waitingOnRetry)
                                EXCEPT !.reqQueue[r].transmitList = Tail(@)], p, r)
  IN  [t EXCEPT !.reqQueue[r] = afterSend(@, p, t.ret)]

(* Layer::retryWaiting: the port at the front is told to retry, which its PacketQueue does at once. *)
retryWaiting(s) ==
  LET r == Head(s.reqLayer.waitingForLayer)
      t == [Require(s, s.reqLayer.state = "IDLE" /\ s.reqQueue[r].waitingOnRetry)
              EXCEPT !.reqLayer.state = "RETRY", !.reqLayer.waitingForLayer = Tail(@),
                     !.reqQueue[r].waitingOnRetry = FALSE]
      u == sendRequest(t, r)
  IN  [u EXCEPT !.reqLayer.state = IF @ = "RETRY" THEN "BUSY" ELSE @]

(* Slip: the retry is passed on although the layer is still occupied. *)
recvRetryBusy(s) ==
  retryWaiting([s EXCEPT !.reqLayer.waitingForLayer = <<s.reqLayer.waitingForPeer>> \o @,
                         !.reqLayer.waitingForPeer = NoPort])

(* Layer::recvRetry, which NoncoherentXBar::recvReqRetry calls. *)
recvRetry(s) ==
  LET t == [Require(s, s.reqLayer.waitingForPeer # NoPort)
              EXCEPT !.reqLayer.waitingForLayer = <<s.reqLayer.waitingForPeer>> \o @,
                     !.reqLayer.waitingForPeer = NoPort]
  IN  IF t.reqLayer.state = "IDLE" THEN retryWaiting(t) ELSE Require(t, t.reqLayer.state = "BUSY")

(* Layer::releaseLayer. *)
releaseLayer(s) ==
  LET t == [s EXCEPT !.reqLayer.state = "IDLE"]
  IN  IF t.reqLayer.waitingForLayer # <<>> /\ t.reqLayer.waitingForPeer = NoPort
        THEN retryWaiting(t) ELSE t

retryStalledReq(s) ==
  IF s.bridge.retryReq THEN recvRetry([s EXCEPT !.bridge.retryReq = FALSE]) ELSE s

(* Slip: a request that leaves makes nobody retry. *)
trySendOnly(s, i) ==
  LET t == memRecvTimingReq(Require(s, s.bridge.reqs # <<>>), Head(s.bridge.reqs), i)
  IN  IF t.ret THEN [t EXCEPT !.bridge.reqs = Tail(@),
                              !.bridge.reqEvent = @ \/ Len(t.bridge.reqs) > 1] ELSE t

(* BridgeRequestPort::trySendTiming, from sendEvent or from a retry of the memory. *)
trySendReq(s, i) ==
  LET p == Head(s.bridge.reqs)
      t == memRecvTimingReq(Require(s, s.bridge.reqs # <<>>), p, i)
  IN  IF t.ret
        THEN retryStalledReq([t EXCEPT !.bridge.reqs = Tail(@),
                                       !.bridge.reqEvent = @ \/ Len(t.bridge.reqs) > 1])
        ELSE t

(* BridgeRequestPort::recvTimingResp and schedTimingResp: the space was reserved, nothing is refused. *)
bridgeRecvTimingResp(s, p) ==
  [Require(s, s.bridge.resps = <<>> => ~s.bridge.respEvent)
     EXCEPT !.bridge.resps = Append(@, p), !.bridge.respEvent = @ \/ s.bridge.resps = <<>>]

(* NoncoherentXBar::recvTimingResp: a fixed latency, so the response queue is in order of arrival. *)
xbarRecvTimingResp(s, p) ==
  LET r == s.routeTo[p] IN
  IF s.respLayer[r].state = "BUSY"
    THEN [Require(s, ~s.respLayer[r].waiting) EXCEPT !.respLayer[r].waiting = TRUE, !.ret = FALSE]
    ELSE [s EXCEPT !.respLayer[r].state = "BUSY", !.routeTo[p] = NoPort, !.ret = TRUE,
                   !.respQueue[r] = schedSendTiming(@, p, Len(@.transmitList) + 1)]

(* BridgeResponsePort::trySendTiming, from sendEvent or from a retry of the crossbar. *)
trySendResp(s) ==
  LET p == Head(s.bridge.resps)
      t == xbarRecvTimingResp(Require(s, s.bridge.resps # <<>> /\ s.routeTo[p] # NoPort), p)
      u == [Require(t, t.bridge.outstandingResponses # 0)
              EXCEPT !.bridge.resps = Tail(@), !.bridge.respEvent = @ \/ Len(t.bridge.resps) > 1,
                     !.bridge.outstandingResponses = @ - 1]
  IN  IF ~t.ret THEN t ELSE IF reqQueueFull(u) THEN u ELSE retryStalledReq(u)
-----------------------------------------------------------------------------
(* The events. *)

Occurrences(p, q) == Cardinality({i \in DOMAIN q : q[i] = p})

(***************************************************************************)
(* How far a request has come, as MemoryAccess counts it: it is once on    *)
(* its way to the memory, or was served once and then its response is once *)
(* on its way back to its requestor or has arrived once.                   *)
(***************************************************************************)
Phase(p) ==
  LET there == reqQueue[owner(p)].transmitList \o bridge.reqs
      back  == mem.packetQueue \o bridge.resps \o respQueue[owner(p)].transmitList
      count == <<Occurrences(p, there), served[p], Occurrences(p, back), answered[p]>>
  IN  CASE count = <<0, 0, 0, 0>> -> "new"
        [] count = <<1, 0, 0, 0>> -> "sent"
        [] count = <<0, 1, IF needsResponse(p) THEN 1 ELSE 0, 0>> -> "served"
        [] count = <<0, 1, 0, 1>> -> "answered"
        [] OTHER -> "lost or duplicated"

Promise == INSTANCE MemoryAccess WITH phase <- [p \in Packet |-> Phase(p)]

(***************************************************************************)
(* A requestor queues a request, for any time.  The head of a queue that   *)
(* waits for a retry was due already, so nothing is put before it.         *)
(***************************************************************************)
Issue(p) ==
  LET rq == reqQueue[owner(p)] IN
  /\ Phase(p) = "new"
  /\ \E i \in (IF rq.waitingOnRetry THEN 2 ELSE 1) .. Len(rq.transmitList) + 1 :
       Become([State EXCEPT !.reqQueue[owner(p)] = schedSendTiming(@, p, i)])
  /\ UNCHANGED <<answered, refusals>>

(* processSendEvent of a requestor's queue. *)
SendRequest(r) ==
  /\ reqQueue[r].sendEvent
  /\ Become(sendRequest([State EXCEPT !.reqQueue[r].sendEvent = FALSE], r))
  /\ UNCHANGED <<answered, refusals>>

ReleaseReqLayer ==
  /\ reqLayer.state = "BUSY"
  /\ Become(releaseLayer(State))
  /\ UNCHANGED <<answered, refusals>>

(* The layer to r is free again; the bridge, if it waits, sends its response. *)
ReleaseRespLayer(r) ==
  /\ respLayer[r].state = "BUSY"
  /\ LET s == [State EXCEPT !.respLayer[r] = [state |-> "IDLE", waiting |-> FALSE]]
     IN  Become(IF respLayer[r].waiting THEN trySendResp(s) ELSE s)
  /\ UNCHANGED <<answered, refusals>>

BridgeSendReq ==
  /\ bridge.reqEvent
  /\ \E i \in Places(mem.packetQueue) : Become(trySendReq([State EXCEPT !.bridge.reqEvent = FALSE], i))
  /\ UNCHANGED <<answered, refusals>>

BridgeSendResp ==
  /\ bridge.respEvent
  /\ Become(trySendResp([State EXCEPT !.bridge.respEvent = FALSE]))
  /\ UNCHANGED <<answered, refusals>>

(* SimpleMemory::release: a sender that was refused while the memory was busy retries now. *)
Release ==
  /\ mem.isBusy
  /\ LET s == [State EXCEPT !.mem.isBusy = FALSE, !.mem.retryReq = FALSE]
     IN  IF mem.retryReq THEN \E i \in Places(mem.packetQueue) : Become(trySendReq(s, i)) ELSE Become(s)
  /\ UNCHANGED <<answered, refusals>>

(* SimpleMemory::dequeue; the bridge takes every response. *)
Dequeue ==
  /\ mem.dequeueEvent
  /\ LET s == bridgeRecvTimingResp(Require(State, mem.packetQueue # <<>>), Head(mem.packetQueue))
     IN  Become([s EXCEPT !.mem.packetQueue = Tail(@),
                          !.mem.dequeueEvent = Len(mem.packetQueue) > 1])
  /\ UNCHANGED <<answered, refusals>>

(***************************************************************************)
(* The crossbar's queue for r offers its head to the requestor, from its   *)
(* sendEvent or when a requestor that had refused a response asks for it.  *)
(***************************************************************************)
SendResponse(r) ==
  LET p == Head(respQueue[r].transmitList)
      q == [transmitList |-> Tail(respQueue[r].transmitList), sendEvent |-> FALSE,
            waitingOnRetry |-> FALSE]
  IN
  /\ respQueue[r].sendEvent \/ respQueue[r].waitingOnRetry
  /\ \E accepted \in BOOLEAN :
       /\ accepted \/ refusals < MaxRefusals
       /\ answered' = IF accepted THEN [answered EXCEPT ![p] = @ + 1] ELSE answered
       /\ refusals' = IF accepted THEN refusals ELSE refusals + 1
       /\ Become([Require(State, respQueue[r].sendEvent => ~respQueue[r].waitingOnRetry)
                    EXCEPT !.respQueue[r] = afterSend(q, p, accepted)])

Events == \/ ReleaseReqLayer \/ BridgeSendReq \/ BridgeSendResp \/ Release \/ Dequeue
          \/ \E r \in Requestor : SendRequest(r) \/ ReleaseRespLayer(r) \/ SendResponse(r)

(* There is no more work: every request has come to its end. *)
Finished == (\A p \in Packet : Phase(p) = Promise!Final(p)) /\ UNCHANGED vars

Next == Events \/ (\E p \in Packet : Issue(p)) \/ Finished

(* Some event of the path is in the event queue, or a requestor owes the crossbar a retry. *)
Scheduled ==
  \/ reqLayer.state = "BUSY" \/ bridge.reqEvent \/ bridge.respEvent \/ mem.isBusy \/ mem.dequeueEvent
  \/ \E r \in Requestor : \/ reqQueue[r].sendEvent \/ respLayer[r].state = "BUSY"
                         \/ respQueue[r].sendEvent \/ respQueue[r].waitingOnRetry

Fresh == {p \in Packet : Phase(p) = "new"}

(***************************************************************************)
(* The main loop services events as long as there are any, whatever the    *)
(* requestors do: weak fairness of Events, with its two parts written out. *)
(* Events is enabled when something is Scheduled, and its steps are those  *)
(* that queue no fresh request.                                            *)
(***************************************************************************)
Fairness == []<>~Scheduled \/ []<><<Fresh' = Fresh>>_vars

Spec == Init /\ [][Next]_vars /\ Fairness
-----------------------------------------------------------------------------
(***************************************************************************)
(* No assert of the packet queues, the crossbar, the bridge or the memory  *)
(* fails, whatever the order of their events: no port is told to retry     *)
(* that does not wait, none waits for a layer twice, no event is scheduled *)
(* twice and no response arrives without a route.                          *)
(***************************************************************************)
AssertsHold == ~failed

(***************************************************************************)
(* The bridge has room for every response it will receive, as              *)
(* BridgeRequestPort::recvTimingResp relies on: outstandingResponses       *)
(* counts the requests and responses between acceptance and departure that *)
(* need a response, and the two queues respect their limits.               *)
(***************************************************************************)
SpaceReserved ==
  LET held == bridge.reqs \o mem.packetQueue \o bridge.resps
  IN  /\ bridge.outstandingResponses = Len(SelectSeq(held, needsResponse))
      /\ Len(bridge.resps) <= respQueueLimit /\ Len(bridge.reqs) <= reqQueueLimit

(***************************************************************************)
(* No retry is lost.  Between events every packet at the head of a queue   *)
(* has an event scheduled that sends it, or its sender was refused and the *)
(* one that refused it remembers that, and has itself a reason to act:     *)
(* a layer that is occupied, a bridge with a full queue, a busy memory.    *)
(***************************************************************************)
Woken ==
  /\ \A r \in Requestor :
       LET q == reqQueue[r] IN
       /\ q.transmitList # <<>> <=> q.sendEvent \/ q.waitingOnRetry
       /\ q.waitingOnRetry <=> Contains(reqLayer.waitingForLayer, r) \/ reqLayer.waitingForPeer = r
  /\ reqLayer.waitingForLayer # <<>> => reqLayer.state = "BUSY" \/ reqLayer.waitingForPeer # NoPort
  /\ reqLayer.waitingForPeer # NoPort <=> bridge.retryReq
  /\ bridge.retryReq => reqQueueFull(State) \/ respQueueFull(State)
  /\ bridge.reqs # <<>> <=> bridge.reqEvent \/ mem.retryReq
  /\ mem.retryReq => mem.isBusy
  /\ mem.packetQueue # <<>> <=> mem.dequeueEvent
  /\ bridge.resps # <<>> <=> bridge.respEvent \/ \E r \in Requestor : respLayer[r].waiting
  /\ \A r \in Requestor : respLayer[r].waiting =>
       respLayer[r].state = "BUSY" /\ routeTo[Head(bridge.resps)] = r

(***************************************************************************)
(* The path implements MemoryAccess: requests are served once, responses   *)
(* follow, and every request that is sent comes to its end, although each  *)
(* component refuses packets when it is occupied.                          *)
(***************************************************************************)
KeepsPromise == Promise!Spec
=============================================================================
