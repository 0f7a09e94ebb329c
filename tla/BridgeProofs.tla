----------------------------- MODULE BridgeProofs -----------------------------
(***************************************************************************)
(* Safety of the parts between MAX's page and the Mini App, each by itself *)
(* and for every value of its constants: the link from the API to the      *)
(* worker, the send controller, the Mini App's live connection and the     *)
(* live events.  Last, all of them together with the page.                 *)
(***************************************************************************)
EXTENDS MCBridge, PageSessionProofs, SequenceTheorems, FiniteSetTheorems, WellFoundedInduction,
        TLAPS

-----------------------------------------------------------------------------
(* WorkerLink.  OneConnection is not inductive: a close event sets the     *)
(* client's socket aside whichever socket it is of, so no other socket may *)
(* be open then; LinkInv says what the destroyed sockets, the attempt and  *)
(* the decoder have to do with the socket in use.                          *)

\* The socket in use has been connected, and a socket that was destroyed is the one in use
\* as long as there is one.
InUse ==
  current # NoLink => /\ client[current] \in {"open", "destroyed"}
                      /\ \A s \in Links : client[s] = "destroyed" => s = current

\* openSocket has reset the decoder, and nothing is read before the attempt succeeds.
DecoderReset == attempt # NoLink => partial = NoLink

LinkInv == LinkTypeOK /\ OneConnection /\ InUse /\ DecoderReset

LEMMA LinksFact == LinkCount \in Nat \ {0} /\ MaxFaults \in Nat /\ 1 \in Links /\ NoLink \notin Links
BY LinkBounds DEF Links, NoLink

LEMMA LinkInitially == LinkInit => LinkInv
<1> SUFFICES ASSUME LinkInit PROVE LinkInv
  OBVIOUS
<1> USE LinksFact DEF LinkInit
<1>1. LinkTypeOK
  <2>1. served \in [Links -> BOOLEAN] /\ up \in BOOLEAN
    OBVIOUS
  <2>2. /\ waiting \in Seq(Requests) /\ uplink \in [Links -> Seq(Requests)]
        /\ downlink \in [Links -> Seq(Requests)]
    BY EmptySeq
  <2>3. /\ request \in [Requests -> {"idle", "waiting", "pending"} \union Settled]
        /\ writtenTo \in [Requests -> Links \union {NoLink}]
        /\ client \in [Links -> {"unused", "connecting", "open", "destroyed"}]
    OBVIOUS
  <2>4. faults \in 0 .. MaxFaults /\ current \in Links
    OBVIOUS
  <2>5. retrying \in BOOLEAN /\ reconnectTimer \in BOOLEAN /\ clientStopped \in BOOLEAN
    OBVIOUS
  <2>6. QED
    BY <2>1, <2>2, <2>3, <2>4, <2>5, Zenon DEF LinkTypeOK
<1>2. OneConnection /\ InUse /\ DecoderReset
  BY DEF OneConnection, InUse, DecoderReset
<1>3. QED
  BY <1>1, <1>2 DEF LinkInv

\* connect(), in the terms of LinkInv.
LEMMA ConnectLinkType ==
  ASSUME LinkTypeOK, ConnectLink
  PROVE  /\ attempt' \in Links \union {NoLink}
         /\ partial' \in Links \union {NoLink}
         /\ client' \in [Links -> {"unused", "connecting", "open", "destroyed"}]
BY DEF LinkTypeOK, ConnectLink, StartAttempt

LEMMA LinkTypeStep == LinkTypeOK /\ [LinkNext]_linkVars => LinkTypeOK'
<1> SUFFICES ASSUME LinkTypeOK, [LinkNext]_linkVars PROVE LinkTypeOK'
  OBVIOUS
<1> USE LinksFact
<1>0. waiting \in Seq(Requests)
  BY DEF LinkTypeOK
<1>1. CASE Connected
  BY <1>0, <1>1, EmptySeq DEF Connected, LinkTypeOK
<1>2. CASE ConnectFailed
  BY <1>2, EmptySeq DEF ConnectFailed, LinkTypeOK, Settled, server
<1>3. CASE LinkTimerFires
  BY <1>3, ConnectLinkType DEF LinkTimerFires, LinkTypeOK, server
<1>4. ASSUME NEW r \in Requests, Send(r) PROVE LinkTypeOK'
  <2>1. current \in Links /\ uplink[current] \in Seq(Requests)
    BY <1>4 DEF Send, Alive, LinkTypeOK
  <2>2. Append(uplink[current], r) \in Seq(Requests)
    BY <2>1, AppendProperties
  <2>3. QED
    BY <1>4, <2>1, <2>2 DEF Send, LinkTypeOK
<1>5. ASSUME NEW r \in Requests, SendRefused(r) PROVE LinkTypeOK'
  BY <1>5 DEF SendRefused, LinkTypeOK, Settled, server
<1>6. ASSUME NEW r \in Requests, SendWaits(r) PROVE LinkTypeOK'
  <2>1. Append(waiting, r) \in Seq(Requests)
    BY <1>0, AppendProperties
  <2>2. QED
    BY <1>6, <2>1, ConnectLinkType DEF SendWaits, LinkTypeOK, server
<1>7. ASSUME NEW r \in Requests, RequestTimeout(r) PROVE LinkTypeOK'
  BY <1>7 DEF RequestTimeout, Fault, LinkTypeOK, Settled, server
<1>8. ASSUME NEW s \in Links, ReadPart(s) PROVE LinkTypeOK'
  BY <1>8 DEF ReadPart, LinkTypeOK, server
<1>9. ASSUME NEW s \in Links, ReadResponse(s) PROVE LinkTypeOK'
  <2>1. downlink[s] \in Seq(Requests) /\ downlink[s] # <<>>
    BY <1>9 DEF ReadResponse, LinkTypeOK
  <2>2. Tail(downlink[s]) \in Seq(Requests) /\ Head(downlink[s]) \in Requests
    BY <2>1, HeadTailProperties
  <2>3. QED
    BY <1>9, <2>2 DEF ReadResponse, LinkTypeOK, Settled
<1>10. ASSUME NEW s \in Links, ReadFailed(s) PROVE LinkTypeOK'
  BY <1>10 DEF ReadFailed, Fault, Disconnected, LinkTypeOK, Settled, server
<1>11. ASSUME NEW s \in Links, PeerGone(s) \/ CloseEvent(s) PROVE LinkTypeOK'
  BY <1>11 DEF PeerGone, CloseEvent, Disconnected, LinkTypeOK, Settled, server
<1>12. CASE Close
  BY <1>12 DEF Close, LinkTypeOK, Settled, server
<1>13. ASSUME NEW s \in Links, TakeChunk(s) PROVE LinkTypeOK'
  <2>1. PICK n \in 1 .. Len(uplink[s]) :
           /\ chunks' = chunks \union {[socket |-> s, requests |-> SubSeq(uplink[s], 1, n)]}
           /\ uplink' = [uplink EXCEPT ![s] = SubSeq(@, n + 1, Len(@))]
    BY <1>13 DEF TakeChunk
  <2>2. uplink[s] \in Seq(Requests) /\ Len(uplink[s]) \in Nat
    BY LenProperties DEF LinkTypeOK
  <2>3. /\ SubSeq(uplink[s], 1, n) \in Seq(Requests)
        /\ SubSeq(uplink[s], n + 1, Len(uplink[s])) \in Seq(Requests)
        /\ Len(SubSeq(uplink[s], 1, n)) = n
    BY <2>2, SubSeqProperties
  <2>4. SubSeq(uplink[s], 1, n) # <<>>
    BY <2>3, EmptySeq
  <2>5. [socket |-> s, requests |-> SubSeq(uplink[s], 1, n)] \in ChunkType
    BY <2>3, <2>4 DEF ChunkType
  <2>6. QED
    BY <1>13, <2>1, <2>3, <2>5 DEF TakeChunk, LinkTypeOK, clientVars
<1>14. ASSUME NEW s \in Links, ServerSeesClose(s) PROVE LinkTypeOK'
  BY <1>14, EmptySeq DEF ServerSeesClose, LinkTypeOK, clientVars
<1>15. ASSUME NEW c \in chunks, Execute(c) PROVE LinkTypeOK'
  <2>1. c.socket \in Links /\ c.requests \in Seq(Requests) /\ c.requests # <<>>
    BY DEF LinkTypeOK, ChunkType
  <2>2. Head(c.requests) \in Requests /\ Tail(c.requests) \in Seq(Requests)
    BY <2>1, HeadTailProperties
  <2>3. Append(downlink[c.socket], Head(c.requests)) \in Seq(Requests)
    BY <2>1, <2>2, AppendProperties DEF LinkTypeOK
  <2>4. \A d \in chunks' : d \in ChunkType
    <3>1. Tail(c.requests) # <<>>
            => [socket |-> c.socket, requests |-> Tail(c.requests)] \in ChunkType
      BY <2>1, <2>2 DEF ChunkType
    <3>2. QED
      BY <1>15, <3>1 DEF Execute, LinkTypeOK
  <2>5. QED
    BY <1>15, <2>1, <2>3, <2>4 DEF Execute, LinkTypeOK, clientVars
<1>16. CASE WorkerStops
  <2>1. uplink' \in [Links -> Seq(Requests)]
    BY <1>16, EmptySeq DEF WorkerStops
  <2>2. served' \in [Links -> BOOLEAN] /\ up' \in BOOLEAN
    BY <1>16 DEF WorkerStops
  <2>3. faults' \in 0 .. MaxFaults
    BY <1>16 DEF WorkerStops, Fault, LinkTypeOK
  <2>4. QED
    BY <1>16, <2>1, <2>2, <2>3, Zenon DEF WorkerStops, LinkTypeOK, clientVars
<1>17. CASE WorkerStarts
  BY <1>17 DEF WorkerStarts, LinkTypeOK, clientVars
<1>20. ASSUME NEW c \in chunks, ResponseFails(c) PROVE LinkTypeOK'
  <2>1. uplink' \in [Links -> Seq(Requests)] /\ served' \in [Links -> BOOLEAN]
    BY <1>20, EmptySeq DEF ResponseFails, LinkTypeOK
  <2>2. faults' \in 0 .. MaxFaults /\ \A d \in chunks' : d \in ChunkType
    BY <1>20 DEF ResponseFails, Fault, LinkTypeOK
  <2>3. QED
    BY <1>20, <2>1, <2>2, Zenon DEF ResponseFails, LinkTypeOK, clientVars
<1>18. CASE UNCHANGED linkVars
  BY <1>18 DEF linkVars, LinkTypeOK
<1>19. QED
  BY <1>1, <1>2, <1>3, <1>4, <1>5, <1>6, <1>7, <1>8, <1>9, <1>10, <1>11, <1>12, <1>13, <1>14,
     <1>15, <1>16, <1>17, <1>18, <1>20 DEF LinkNext

\* What of the client a step of the worker leaves alone is all that OneConnection is about.
LEMMA ConnectionStep == LinkInv /\ [LinkNext]_linkVars => (OneConnection /\ InUse /\ DecoderReset)'
<1> DEFINE Goal == OneConnection /\ InUse /\ DecoderReset
<1> SUFFICES ASSUME LinkInv, [LinkNext]_linkVars PROVE Goal'
  OBVIOUS
<1> USE LinksFact DEF LinkInv, OneConnection, InUse, DecoderReset
<1>0. /\ client \in [Links -> {"unused", "connecting", "open", "destroyed"}]
      /\ request \in [Requests -> {"idle", "waiting", "pending"} \union Settled]
      /\ writtenTo \in [Requests -> Links \union {NoLink}]
      /\ current \in Links \union {NoLink} /\ attempt \in Links \union {NoLink}
  BY DEF LinkTypeOK
<1>1. CASE Connected
  BY <1>0, <1>1 DEF Connected, ClosesDelivered
<1>2. CASE ConnectFailed
  BY <1>0, <1>2 DEF ConnectFailed, server
<1>3. CASE LinkTimerFires
  BY <1>0, <1>3 DEF LinkTimerFires, ConnectLink, StartAttempt, Unused, server
<1>4. ASSUME NEW r \in Requests, Send(r) \/ SendRefused(r) \/ SendWaits(r) \/ RequestTimeout(r)
      PROVE  Goal'
  <2>1. CASE Send(r)
    BY <1>0, <2>1 DEF Send, Alive
  <2>2. CASE SendRefused(r)
    BY <1>0, <2>2 DEF SendRefused, server
  <2>3. CASE SendWaits(r)
    BY <1>0, <2>3 DEF SendWaits, ConnectLink, StartAttempt, Unused, server
  <2>4. CASE RequestTimeout(r)
    BY <1>0, <2>4 DEF RequestTimeout, server
  <2>5. QED
    BY <1>4, <2>1, <2>2, <2>3, <2>4
<1>5. ASSUME NEW s \in Links, ReadPart(s) \/ ReadResponse(s) \/ ReadFailed(s) PROVE Goal'
  <2>1. CASE ReadPart(s)
    BY <1>0, <2>1 DEF ReadPart, server
  <2>2. CASE ReadResponse(s)
    BY <1>0, <2>2 DEF ReadResponse
  <2>3. CASE ReadFailed(s)
    BY <1>0, <2>3 DEF ReadFailed, Disconnected, server, Settled
  <2>4. QED
    BY <1>5, <2>1, <2>2, <2>3
<1>6. ASSUME NEW s \in Links, PeerGone(s) PROVE Goal'
  BY <1>0, <1>6 DEF PeerGone, server
<1>7. ASSUME NEW s \in Links, CloseEvent(s) PROVE Goal'
  BY <1>0, <1>7 DEF CloseEvent, Disconnected, server, Settled
<1>8. CASE Close
  BY <1>0, <1>8 DEF Close, server, Settled
<1>9. CASE UNCHANGED clientVars
  BY <1>9 DEF clientVars
<1>10. QED
  BY <1>1, <1>2, <1>3, <1>4, <1>5, <1>6, <1>7, <1>8, <1>9
     DEF LinkNext, linkVars, clientVars, TakeChunk, ServerSeesClose, Execute, ResponseFails,
         WorkerStops, WorkerStarts

LEMMA LinkInvStep == LinkInv /\ [LinkNext]_linkVars => LinkInv'
BY LinkTypeStep, ConnectionStep DEF LinkInv

\* LinkInv holds in every state of WorkerLink.
THEOREM LinkInvariant == LinkSpec => []LinkInv
BY LinkInvStep, LinkInitially, PTL DEF LinkSpec

\* Every request, frame and chunk of the link is what WorkerClient and WorkerProtocolServer
\* take it for.
THEOREM AlwaysLinkTypeOK == LinkSpec => []LinkTypeOK
<1>1. LinkInv => LinkTypeOK
  BY DEF LinkInv
<1>2. QED
  BY <1>1, LinkInvariant, PTL

\* WorkerClient never has two connections, does not share its decoder between two, and what
\* it waits for was written to the one in use (openSocket, handleDisconnect, close).
THEOREM AlwaysOneConnection == LinkSpec => []OneConnection
<1>1. LinkInv => OneConnection
  BY DEF LinkInv
<1>2. QED
  BY <1>1, LinkInvariant, PTL

-----------------------------------------------------------------------------
(* SendController.  WrittenOnce is not inductive: of an id that is not     *)
(* excused, one call at most is under way, and none that has written.      *)
(* That rests on the memory: a result is in it until MaxOperations newer   *)
(* ones have come (Remembered), because `since` counts at least what       *)
(* stands behind it in the map (Queued).                                   *)

OperationType == [id : RequestId, state : {"confirmed", "ambiguous"}]
CallType      == [n : Nat, id : RequestId, again : BOOLEAN]

OneCall ==
  \A id \in RequestId \ excused :
    /\ \A c, d \in underWay : c.id = id /\ d.id = id => c = d
    /\ \A c \in underWay : c.id = id => written[id] = 0

\* What was written under an id that is not excused has a result.
Resulted == \A id \in RequestId \ excused : written[id] > 0 => since[id] > 0

\* Behind a result in the map there are only results that came after it.
Queued == \A i \in DOMAIN operations : Len(operations) - i < since[operations[i].id]

\* The controller keeps the result of an id until MaxOperations newer ones have come.
Remembered == \A id \in RequestId : since[id] \in 1 .. MaxOperations => Known(id)

SendInv ==
  /\ SendTypeOK
  /\ operations \in Seq(OperationType) /\ underWay \subseteq CallType
  /\ written \in [RequestId -> Nat] /\ since \in [RequestId -> Nat] /\ excused \subseteq RequestId
  /\ OneCall /\ WrittenOnce /\ Resulted /\ Queued /\ Remembered

\* What remember leaves: the result under its id, and, unless the map is full, every other.
LEMMA RememberLeaves ==
  ASSUME operations \in Seq(OperationType), Len(operations) <= MaxOperations,
         \A i, j \in DOMAIN operations : operations[i].id = operations[j].id => i = j,
         since \in [RequestId -> Nat], Queued,
         NEW id \in RequestId, NEW state \in {"confirmed", "ambiguous"}, Remember(id, state),
         since' = [other \in RequestId |->
                     IF other = id \/ since[other] > 0 THEN since[other] + 1 ELSE 0]
  PROVE  /\ operations' \in Seq(OperationType)
         /\ Len(operations') \in Len(operations) .. MaxOperations
         /\ \A i, j \in DOMAIN operations' : operations'[i].id = operations'[j].id => i = j
         /\ Known(id)'
         /\ \A other \in RequestId :
              Known(other) => Known(other)' \/ since'[other] > MaxOperations
         /\ Queued'
<1> DEFINE op == [id |-> id, state |-> state]
           Put == [i \in DOMAIN operations |-> IF operations[i].id = id THEN op ELSE operations[i]]
           new == IF Known(id) THEN Put ELSE Append(operations, op)
<1>a. op \in OperationType /\ op.id = id /\ MaxOperations \in Nat \ {0}
  BY SendAssumption DEF OperationType
<1>b. Len(operations) \in Nat /\ DOMAIN operations = 1 .. Len(operations)
  BY LenProperties
<1>0. /\ op \in OperationType /\ op.id = id /\ MaxOperations \in Nat \ {0}
      /\ Len(operations) \in Nat /\ DOMAIN operations = 1 .. Len(operations)
      /\ \A i \in 1 .. Len(operations) : operations[i] \in OperationType
      /\ \A i, j \in 1 .. Len(operations) : operations[i].id = operations[j].id => i = j
  BY <1>a, <1>b, ElementOfSeq
<1>1. operations' = IF Len(new) > MaxOperations THEN Tail(new) ELSE new
  BY DEF Remember
<1> HIDE DEF op
<1>2. /\ new \in Seq(OperationType)
      /\ Len(new) \in Len(operations) .. Len(operations) + 1
      /\ \A i, j \in 1 .. Len(new) : new[i].id = new[j].id => i = j
      /\ \E i \in 1 .. Len(new) : new[i].id = id
      /\ \A i \in 1 .. Len(operations) : i <= Len(new) /\ new[i].id = operations[i].id
      /\ Len(new) > Len(operations) => new[Len(new)].id = id
  <2>1. CASE Known(id)
    <3>1. new = Put
      BY <2>1
    <3>2. Put \in Seq(OperationType) /\ Len(Put) = Len(operations)
      BY <1>0, SMT
    <3>3. \A i \in 1 .. Len(operations) : Put[i].id = operations[i].id
      BY <1>0
    <3>4. \E i \in 1 .. Len(operations) : operations[i].id = id
      BY <1>0, <2>1 DEF Known
    <3> HIDE DEF Put, new
    <3>5. \A i, j \in 1 .. Len(new) : new[i].id = new[j].id => i = j
      BY <1>0, <3>1, <3>2, <3>3
    <3>6. QED
      BY <1>0, <3>1, <3>2, <3>3, <3>4, <3>5
  <2>2. CASE ~Known(id)
    <3>1. new = Append(operations, op)
      BY <2>2
    <3>a. /\ Append(operations, op) \in Seq(OperationType)
          /\ Len(Append(operations, op)) = Len(operations) + 1
          /\ \A i \in 1 .. Len(operations) : Append(operations, op)[i] = operations[i]
          /\ Append(operations, op)[Len(operations) + 1] = op
      <4>1. ASSUME NEW seq \in Seq(OperationType), NEW elt \in OperationType
            PROVE  /\ Append(seq, elt) \in Seq(OperationType)
                   /\ Len(Append(seq, elt)) = Len(seq) + 1
                   /\ \A i \in 1 .. Len(seq) : Append(seq, elt)[i] = seq[i]
                   /\ Append(seq, elt)[Len(seq) + 1] = elt
        BY AppendProperties
      <4>2. QED
        BY <1>a, <4>1, Zenon
    <3>2. /\ new \in Seq(OperationType) /\ Len(new) = Len(operations) + 1
          /\ \A i \in 1 .. Len(operations) : new[i] = operations[i]
          /\ new[Len(operations) + 1] = op
      BY <3>a, <3>1, Zenon
    <3>3. \A i \in 1 .. Len(operations) : operations[i].id # id
      BY <1>0, <2>2 DEF Known
    <3> HIDE DEF new
    <3>4. new[Len(operations) + 1].id = id /\ Len(new) \in Nat
      BY <1>0, <3>2
    <3>5. \A i \in 1 .. Len(operations) : new[i].id = operations[i].id /\ new[i].id # id
      BY <3>2, <3>3
    <3>6. ASSUME NEW i \in 1 .. Len(new), NEW j \in 1 .. Len(new), new[i].id = new[j].id
          PROVE  i = j
      <4>1. CASE i \in 1 .. Len(operations) /\ j \in 1 .. Len(operations)
        BY <1>0, <3>5, <3>6, <4>1
      <4>2. CASE i = Len(operations) + 1 \/ j = Len(operations) + 1
        <5>1. \A k \in 1 .. Len(new) : new[k].id = id => k = Len(operations) + 1
          BY <1>0, <3>2, <3>5
        <5> QED  BY <3>4, <3>6, <4>2, <5>1
      <4> QED  BY <1>0, <3>2, <4>1, <4>2
    <3>7. Len(new) \in Len(operations) .. Len(operations) + 1 /\ Len(operations) + 1 \in 1 .. Len(new)
      BY <1>0, <3>2
    <3>8. QED
      BY <1>0, <3>2, <3>4, <3>5, <3>6, <3>7
  <2>3. QED
    BY <2>1, <2>2
<1> HIDE DEF new
<1>q. \A i \in 1 .. Len(new) : Len(new) - i < since'[new[i].id]
  <2> SUFFICES ASSUME NEW i \in 1 .. Len(new) PROVE Len(new) - i < since'[new[i].id]
    OBVIOUS
  <2>1. CASE i <= Len(operations)
    <3> DEFINE o == operations[i].id
    <3>1. i \in 1 .. Len(operations) /\ new[i].id = o /\ o \in RequestId
      BY <1>0, <1>2, <2>1 DEF OperationType
    <3>2. Len(operations) - i < since[o] /\ since[o] \in Nat
      BY <1>0, <3>1 DEF Queued
    <3> HIDE DEF o
    <3>3. since[o] > 0
      BY <1>0, <3>1, <3>2
    <3>4. since'[o] = since[o] + 1
      BY <3>1, <3>3
    <3>5. QED
      BY <1>0, <1>2, <3>1, <3>2, <3>4
  <2>2. CASE i > Len(operations)
    <3>1. i = Len(new) /\ new[i].id = id
      BY <1>0, <1>2, <2>2
    <3>2. since'[id] > 0
      OBVIOUS
    <3>3. QED
      BY <1>0, <1>2, <3>1, <3>2
  <2>3. QED
    BY <1>0, <1>2, <2>1, <2>2
<1>3. CASE Len(new) <= MaxOperations
  <2>1. operations' = new /\ DOMAIN new = 1 .. Len(new)
    BY <1>0, <1>1, <1>2, <1>3, LenProperties
  <2>2. Len(operations') \in Len(operations) .. MaxOperations /\ operations' \in Seq(OperationType)
    BY <1>0, <1>2, <1>3, <2>1
  <2>3. \A other \in RequestId : Known(other) => Known(other)'
    <3> SUFFICES ASSUME NEW other \in RequestId, Known(other) PROVE Known(other)'
      OBVIOUS
    <3>1. PICK i \in 1 .. Len(operations) : operations[i].id = other
      BY <1>0 DEF Known
    <3>2. i \in DOMAIN operations' /\ operations'[i].id = other
      BY <1>0, <1>2, <2>1, <3>1
    <3>3. QED
      BY <3>2 DEF Known
  <2>4. Queued'
    BY <1>q, <2>1 DEF Queued
  <2>5. QED
    BY <1>2, <2>1, <2>2, <2>3, <2>4 DEF Known
<1>4. CASE Len(new) > MaxOperations
  <2>1. operations' = Tail(new) /\ new # <<>>
    BY <1>0, <1>1, <1>2, <1>4, EmptySeq
  <2>2. /\ operations' \in Seq(OperationType) /\ Len(operations') = Len(new) - 1
        /\ \A i \in 1 .. Len(operations') : operations'[i] = new[i + 1]
    BY <1>2, <2>1, HeadTailProperties
  <2>3. DOMAIN operations' = 1 .. Len(operations') /\ Len(operations') = MaxOperations
    BY <1>0, <1>2, <1>4, <2>2, LenProperties
  <2>4. operations'[Len(new) - 1].id = id /\ Len(new) - 1 \in DOMAIN operations'
    BY <1>0, <1>2, <1>4, <2>2, <2>3
  <2>5. ASSUME NEW i \in DOMAIN operations', NEW j \in DOMAIN operations',
               operations'[i].id = operations'[j].id
        PROVE  i = j
    <3>1. i + 1 \in 1 .. Len(new) /\ j + 1 \in 1 .. Len(new) /\ i \in Nat /\ j \in Nat
      BY <1>0, <1>2, <2>2, <2>3
    <3>2. new[i + 1].id = new[j + 1].id
      BY <2>2, <2>3, <2>5
    <3>3. i + 1 = j + 1
      BY <1>2, <3>1, <3>2
    <3> QED  BY <3>1, <3>3
  <2>6. Queued'
    <3> SUFFICES ASSUME NEW i \in 1 .. Len(operations')
                 PROVE  Len(operations') - i < since'[operations'[i].id]
      BY <2>3 DEF Queued
    <3>1. i + 1 \in 1 .. Len(new) /\ operations'[i] = new[i + 1]
      BY <1>0, <1>2, <2>2
    <3>2. Len(new) - (i + 1) < since'[new[i + 1].id]
      BY <1>q, <3>1
    <3>3. QED
      BY <1>0, <1>2, <2>2, <3>1, <3>2
  <2>7. ASSUME NEW other \in RequestId, Known(other)
        PROVE  Known(other)' \/ since'[other] > MaxOperations
    <3>1. PICK i \in 1 .. Len(operations) : operations[i].id = other
      BY <1>0, <2>7 DEF Known
    <3>2. i \in 1 .. Len(new) /\ new[i].id = other
      BY <1>0, <1>2, <3>1
    <3>3. CASE i = 1
      <4>1. Len(new) - 1 < since'[other] /\ Len(new) - 1 = MaxOperations
        BY <1>q, <2>2, <2>3, <3>2, <3>3
      <4>2. QED
        BY <4>1
    <3>4. CASE i > 1
      <4>1. i - 1 \in DOMAIN operations' /\ operations'[i - 1] = new[i]
        BY <1>0, <1>2, <2>2, <2>3, <3>2, <3>4
      <4>2. QED
        BY <3>2, <4>1 DEF Known
    <3>5. QED
      BY <1>0, <3>3, <3>4
  <2>8. QED
    BY <1>0, <1>2, <1>4, <2>2, <2>3, <2>4, <2>5, <2>6, <2>7 DEF Known
<1>5. QED
  BY <1>0, <1>2, <1>3, <1>4

LEMMA SendInitially == SendInit => SendInv
BY SendAssumption, EmptySeq
   DEF SendInit, SendInv, SendTypeOK, OneCall, WrittenOnce, Resulted, Queued, Remembered

\* sendText, sendMedia and retryText up to the transport.
LEMMA SendMessageStep ==
  ASSUME SendInv, NEW id \in RequestId, SendMessage(id)
  PROVE  SendInv'
<1>0. /\ called_' \in 0 .. MaxSends /\ called_' > called_
      /\ UNCHANGED <<operations, written, since>> /\ excused \subseteq excused'
  BY SendAssumption DEF SendMessage, SendInv, SendTypeOK
<1>1. (Resulted /\ Queued /\ Remembered)'
  BY <1>0 DEF SendInv, Resulted, Queued, Remembered, Known
<1>2. CASE Known(id)
  <2>1. UNCHANGED <<underWay, excused>>
    BY <1>2 DEF SendMessage
  <2>2. SendTypeOK'
    BY <1>0, <2>1 DEF SendInv, SendTypeOK, CallType
  <2>3. QED
    BY <1>0, <1>1, <2>1, <2>2 DEF SendInv, OneCall, WrittenOnce
<1>3. CASE ~Known(id)
  <2> DEFINE call == [n |-> called_, id |-> id, again |-> FALSE]
  <2>1. call \in CallType /\ call.id = id /\ call.n = called_ /\ called_ \in 0 .. MaxSends
    BY DEF CallType, SendInv, SendTypeOK
  <2>2. underWay' = underWay \cup {call} /\ excused' \subseteq RequestId
    BY <1>3 DEF SendMessage, SendInv
  <2> HIDE DEF call
  <2>3. (SendTypeOK /\ underWay \subseteq CallType)'
    BY <1>0, <2>1, <2>2, SendAssumption DEF SendInv, SendTypeOK, CallType
  <2>4. id \notin excused' => written[id] = 0 /\ ~\E c \in underWay : c.id = id
    <3> SUFFICES ASSUME id \notin excused' 
                 PROVE  written[id] = 0 /\ ~\E c \in underWay : c.id = id
      OBVIOUS
    <3>1. ~(since[id] > MaxOperations) /\ ~\E c \in underWay : c.id = id
      BY <1>3 DEF SendMessage
    <3>2. ~(since[id] \in 1 .. MaxOperations)
      BY <1>3 DEF SendInv, Remembered
    <3>3. since[id] = 0
      BY <3>1, <3>2, SendAssumption DEF SendInv
    <3>4. QED
      BY <1>0, <3>1, <3>3 DEF SendInv, Resulted
  <2>5. (OneCall /\ WrittenOnce)'
    BY <1>0, <2>1, <2>2, <2>4 DEF SendInv, OneCall, WrittenOnce
  <2>6. QED
    BY <1>0, <1>1, <2>2, <2>3, <2>5 DEF SendInv
<1>4. QED
  BY <1>2, <1>3

\* The call has a result, which is remembered.
LEMMA SettleStep ==
  ASSUME SendInv, NEW call \in underWay, NEW n \in 0 .. 1,
         NEW state \in {"confirmed", "ambiguous"}, Settle(call, n, state)
  PROVE  SendInv'
<1>1. call.id \in RequestId /\ call \in CallType
  BY DEF SendInv, CallType
<1>2. /\ underWay' = underWay \ {call} /\ written' = [written EXCEPT ![call.id] = @ + n]
      /\ UNCHANGED <<excused, called_>> /\ Remember(call.id, state)
      /\ since' = [id \in RequestId |-> IF id = call.id \/ since[id] > 0 THEN since[id] + 1 ELSE 0]
  BY DEF Settle, Return
<1>3. /\ operations' \in Seq(OperationType)
      /\ Len(operations') \in Len(operations) .. MaxOperations
      /\ \A i, j \in DOMAIN operations' : operations'[i].id = operations'[j].id => i = j
      /\ Known(call.id)'
      /\ \A other \in RequestId : Known(other) => Known(other)' \/ since'[other] > MaxOperations
      /\ Queued'
  BY <1>1, <1>2, RememberLeaves DEF SendInv, SendTypeOK
<1>4. (SendTypeOK /\ underWay \subseteq CallType)'
  BY <1>2, <1>3 DEF SendInv, SendTypeOK
<1>5. (written \in [RequestId -> Nat] /\ since \in [RequestId -> Nat])'
  BY <1>1, <1>2 DEF SendInv
<1>6. (OneCall /\ WrittenOnce /\ Resulted)'
  BY <1>1, <1>2 DEF SendInv, OneCall, WrittenOnce, Resulted
<1>7. Remembered'
  <2> SUFFICES ASSUME NEW id \in RequestId, since'[id] \in 1 .. MaxOperations, id # call.id
               PROVE  Known(id)'
    BY <1>3 DEF Remembered
  <2>1. since[id] > 0 /\ since'[id] = since[id] + 1 /\ since[id] \in Nat
    BY <1>2 DEF SendInv
  <2>2. since[id] \in 1 .. MaxOperations
    BY <2>1, SendAssumption
  <2>3. Known(id)
    BY <2>2 DEF SendInv, Remembered
  <2>4. QED
    BY <1>3, <2>1, <2>3, SendAssumption
<1>8. QED
  BY <1>2, <1>3, <1>4, <1>5, <1>6, <1>7 DEF SendInv

\* A call that leaves nothing behind, tried again or not.
LEMMA NotWrittenStep ==
  ASSUME SendInv, NEW call \in underWay, NotWritten(call)
  PROVE  SendInv'
<1> DEFINE retry == [call EXCEPT !.again = TRUE]
<1>1. call \in CallType
  BY DEF SendInv
<1>2. retry \in CallType /\ retry.id = call.id /\ retry.n = call.n
  BY <1>1 DEF CallType
<1>3. underWay' \subseteq (underWay \ {call}) \cup {retry}
  BY DEF NotWritten
<1> HIDE DEF retry
<1>4. (SendTypeOK /\ underWay \subseteq CallType)'
  BY <1>2, <1>3 DEF NotWritten, SendInv, SendTypeOK
<1>5. (OneCall /\ WrittenOnce)'
  BY <1>2, <1>3 DEF NotWritten, SendInv, OneCall, WrittenOnce
<1>6. QED
  BY <1>4, <1>5 DEF NotWritten, SendInv, Resulted, Queued, Remembered, Known

\* An error that does not say whether the message was written.
LEMMA UnclassifiedStep ==
  ASSUME SendInv, NEW call \in underWay, Unclassified(call)
  PROVE  SendInv'
<1>1. call.id \in RequestId
  BY DEF SendInv, CallType
<1>2. PICK n \in 0 .. 1 : /\ underWay' = underWay \ {call}
                          /\ written' = [written EXCEPT ![call.id] = @ + n]
                          /\ excused' = excused \cup IF n = 1 THEN {call.id} ELSE {}
  BY DEF Unclassified, Return
<1>3. UNCHANGED <<operations, since, called_>>
  BY DEF Unclassified
<1>4. (SendTypeOK /\ underWay \subseteq CallType)'
  BY <1>2, <1>3 DEF SendInv, SendTypeOK
<1>5. \A id \in RequestId \ excused' : written'[id] = written[id] /\ id \in RequestId \ excused
  BY <1>1, <1>2 DEF SendInv
<1>6. written' \in [RequestId -> Nat] /\ excused' \subseteq RequestId
  BY <1>1, <1>2 DEF SendInv
<1>7. (OneCall /\ WrittenOnce /\ Resulted)'
  BY <1>2, <1>3, <1>5 DEF SendInv, OneCall, WrittenOnce, Resulted
<1>8. QED
  BY <1>3, <1>4, <1>6, <1>7 DEF SendInv, Queued, Remembered, Known

LEMMA SendStep == SendInv /\ [SendNext]_sendVars => SendInv'
<1> SUFFICES ASSUME SendInv, [SendNext]_sendVars PROVE SendInv'
  OBVIOUS
<1>1. ASSUME NEW id \in RequestId, SendMessage(id) PROVE SendInv'
  BY <1>1, SendMessageStep
<1>2. ASSUME NEW id \in RequestId, NEW retryOf \in RequestId, RetryText(id, retryOf)
      PROVE  SendInv'
  BY <1>2, SendMessageStep DEF RetryText
<1>3. ASSUME NEW call \in underWay, Confirmed(call) PROVE SendInv'
  <2>1. 1 \in 0 .. 1 /\ "confirmed" \in {"confirmed", "ambiguous"}
    OBVIOUS
  <2>2. QED
    BY <1>3, <2>1, SettleStep DEF Confirmed
<1>4. ASSUME NEW call \in underWay, Ambiguous(call) PROVE SendInv'
  BY <1>4, SettleStep DEF Ambiguous
<1>5. ASSUME NEW call \in underWay, NotWritten(call) PROVE SendInv'
  BY <1>5, NotWrittenStep
<1>6. ASSUME NEW call \in underWay, Unclassified(call) PROVE SendInv'
  BY <1>6, UnclassifiedStep
<1>7. CASE UNCHANGED sendVars
  BY <1>7 DEF sendVars, SendInv, SendTypeOK, OneCall, WrittenOnce, Resulted, Queued, Remembered, Known
<1>8. QED
  BY <1>1, <1>2, <1>3, <1>4, <1>5, <1>6, <1>7 DEF SendNext

\* SendInv holds in every state of SendController.
THEOREM SendInvariant == SendSpec => []SendInv
BY SendStep, SendInitially, PTL DEF SendSpec

\* Under one clientRequestId one message at most goes to MAX, whatever the transport answers,
\* unless calls of it overlap, its result is older than the newest MaxOperations, or an error
\* of the transport did not say whether it wrote (sendText, sendMedia, retryText).
THEOREM AlwaysWrittenOnce == SendSpec => []WrittenOnce
<1>1. SendInv => WrittenOnce
  BY DEF SendInv
<1>2. QED
  BY <1>1, SendInvariant, PTL

\* The controller keeps a result until as many newer ones have come as it may hold (remember,
\* maxOperations), also when calls of an id overlap and their results come twice.
THEOREM AlwaysRemembered == SendSpec => []Remembered
<1>1. SendInv => Remembered
  BY DEF SendInv
<1>2. QED
  BY <1>1, SendInvariant, PTL

-----------------------------------------------------------------------------
(* AuthenticatedSocket.  OneDriver is not inductive: that a resume         *)
(* reconnects a paused object rests on what the flags say while its        *)
(* authentication is under way.  ConnectionInv adds exactly that.          *)

\* Flags: a paused object is started; a resume that counts, or one that is asked for,
\* belongs to a page that wants the connection.
FlagsInv ==
  /\ paused => started /\ ~stopped
  /\ resuming = "current" => paused /\ wanted
  /\ requested /\ paused => wanted
  /\ Running => wanted

\* Who drives the connection, without the arithmetic of Drivers.
DriverInv ==
  /\ ~Running => socket = NoSocket /\ ~timer /\ reauth = 0
  /\ Running =>
       \/ socket # NoSocket /\ ~timer /\ reauth = 0
       \/ socket = NoSocket /\ timer /\ reauth = 0
       \/ socket = NoSocket /\ ~timer /\ reauth = 1

\* The socket in use is the only one that lives.
SocketInv == \A s \in Sockets : net[s] \in {"connecting", "open"} <=> s = socket

ConnectionInv == TypeOK /\ FlagsInv /\ DriverInv /\ SocketInv

LEMMA BoundsFact == SocketCount \in Nat /\ MaxFailures \in Nat /\ NoSocket \notin Sockets
BY BoundsType DEF NoSocket, Sockets

\* scheduleReconnect counts its attempts only as far as they matter.
LEMMA ScheduledType ==
  ASSUME attempts \in 0 .. QuietAttempts, timer \in BOOLEAN,
         NEW reported, Scheduled(reported)
  PROVE  attempts' \in 0 .. QuietAttempts /\ timer' = TRUE
<1>1. CASE timer
  BY <1>1 DEF Scheduled
<1>2. CASE ~timer
  <2>1. attempts' = IF attempts < QuietAttempts THEN attempts + 1 ELSE attempts
    BY <1>2 DEF Scheduled
  <2>2. QED
    BY <1>2, <2>1 DEF Scheduled, QuietAttempts
<1>3. QED
  BY <1>1, <1>2

-----------------------------------------------------------------------------
(* The invariant                                                           *)

LEMMA ConnectionInit == Init => ConnectionInv
<1> SUFFICES ASSUME Init PROVE ConnectionInv
  OBVIOUS
<1>1. TypeOK
  <2>1. /\ attempts \in 0 .. QuietAttempts
        /\ failures \in 0 .. MaxFailures
    BY BoundsFact DEF Init, QuietAttempts
  <2>2. QED
    BY <2>1 DEF Init, TypeOK
<1>2. FlagsInv /\ DriverInv
  BY DEF Init, FlagsInv, DriverInv, Running
<1>3. SocketInv
  BY BoundsFact DEF Init, SocketInv
<1>4. QED
  BY <1>1, <1>2, <1>3 DEF ConnectionInv

LEMMA PageStep == ConnectionInv /\ Page => ConnectionInv'
<1> SUFFICES ASSUME ConnectionInv, Page PROVE ConnectionInv'
  OBVIOUS
<1> USE BoundsFact DEF ConnectionInv, TypeOK, FlagsInv, DriverInv, SocketInv, Running,
    QuietAttempts, history
<1>1. CASE Start
  BY <1>1 DEF Start, Connect
<1>2. CASE Pause
  BY <1>2 DEF Pause, NewLifecycle, DropSocket
<1>3. CASE PauseAgain
  BY <1>3 DEF PauseAgain, NewLifecycle
<1>4. CASE Resume
  BY <1>4 DEF Resume
<1>5. CASE Stop
  BY <1>5 DEF Stop, NewLifecycle, DropSocket
<1>6. QED
  BY <1>1, <1>2, <1>3, <1>4, <1>5 DEF Page

LEMMA WireStep == ConnectionInv /\ Wire => ConnectionInv'
<1> SUFFICES ASSUME ConnectionInv, NEW s \in Sockets,
                    Opened(s) \/ Lost(s) \/ Unauthenticated(s) \/ LateClose(s)
             PROVE ConnectionInv'
  BY DEF Wire
<1> USE BoundsFact DEF ConnectionInv, TypeOK, FlagsInv, DriverInv, SocketInv, Running,
    QuietAttempts, history
<1>1. CASE Opened(s)
  BY <1>1 DEF Opened
<1>2. CASE Lost(s)
  <2>1. TypeOK'
    <3>1. failures' \in 0 .. MaxFailures
      BY <1>2 DEF Lost, Fail, Scheduled
    <3>2. attempts' \in 0 .. QuietAttempts /\ timer' = TRUE
      BY <1>2, ScheduledType DEF Lost, Fail
    <3>3. net' \in [Sockets -> {"unused", "connecting", "open", "closing"}]
      BY <1>2 DEF Lost, Fail, Scheduled
    <3>4. QED
      BY <1>2, <3>1, <3>2, <3>3 DEF Lost, Fail, Scheduled
  <2>2. FlagsInv'
    BY <1>2 DEF Lost, Fail, Scheduled
  <2>3. DriverInv'
    BY <1>2 DEF Lost, Fail, Scheduled
  <2>4. SocketInv'
    BY <1>2 DEF Lost, Fail, Scheduled
  <2>5. QED
    BY <2>1, <2>2, <2>3, <2>4
<1>3. CASE Unauthenticated(s)
  BY <1>3 DEF Unauthenticated, Fail
<1>4. CASE LateClose(s)
  BY <1>4 DEF LateClose
<1>5. QED
  BY <1>1, <1>2, <1>3, <1>4

LEMMA OwnStep == ConnectionInv /\ (TimerFires \/ ReauthEnds \/ ResumeEnds) => ConnectionInv'
<1> SUFFICES ASSUME ConnectionInv, TimerFires \/ ReauthEnds \/ ResumeEnds
             PROVE ConnectionInv'
  OBVIOUS
<1> USE BoundsFact DEF ConnectionInv, TypeOK, FlagsInv, DriverInv, SocketInv, Running,
    QuietAttempts, history
<1>1. CASE TimerFires
  BY <1>1 DEF TimerFires, Connect
<1>2. CASE Reauthenticated
  <2>1. TypeOK'
    <3>1. reauth' \in Nat
      BY <1>2 DEF Reauthenticated, Scheduled
    <3>2. attempts' \in 0 .. QuietAttempts /\ timer' = TRUE
      BY <1>2, ScheduledType DEF Reauthenticated
    <3>3. QED
      BY <1>2, <3>1, <3>2 DEF Reauthenticated, Scheduled
  <2>2. FlagsInv'
    BY <1>2 DEF Reauthenticated, Scheduled
  <2>3. DriverInv'
    BY <1>2 DEF Reauthenticated, Scheduled
  <2>4. SocketInv'
    BY <1>2 DEF Reauthenticated, Scheduled
  <2>5. QED
    BY <2>1, <2>2, <2>3, <2>4
<1>3. CASE ReauthRejected
  BY <1>3 DEF ReauthRejected, Expired, NewLifecycle, DropSocket
<1>4. CASE Resumed
  <2>1. TypeOK'
    <3>1. resuming' \in {"none", "current", "stale"} /\ requested' \in BOOLEAN
      BY <1>4 DEF Resumed, Connect, Followed
    <3>2. net' \in [Sockets -> {"unused", "connecting", "open", "closing"}]
      BY <1>4 DEF Resumed, Connect, Followed
    <3>3. socket' \in Sockets
      BY <1>4 DEF Resumed, Connect, Followed
    <3>4. attempts' \in 0 .. QuietAttempts
      BY <1>4 DEF Resumed
    <3>5. QED
      BY <1>4, <3>1, <3>2, <3>3, <3>4 DEF Resumed
  <2>2. FlagsInv'
    BY <1>4 DEF Resumed, Connect, Followed
  <2>3. DriverInv'
    BY <1>4 DEF Resumed, Connect, Followed
  <2>4. SocketInv'
    BY <1>4 DEF Resumed, Connect, Followed
  <2>5. QED
    BY <2>1, <2>2, <2>3, <2>4
<1>5. CASE ResumeFailed
  <2>1. TypeOK'
    <3>1. failures' \in 0 .. MaxFailures
      BY <1>5 DEF ResumeFailed, Fail, Followed
    <3>2. resuming' \in {"none", "current", "stale"} /\ requested' \in BOOLEAN
      BY <1>5 DEF ResumeFailed, Fail, Followed
    <3>3. failed' \in BOOLEAN
      BY <1>5 DEF ResumeFailed, Fail, Followed
    <3>4. QED
      BY <1>5, <3>1, <3>2, <3>3 DEF ResumeFailed, Fail, Followed
  <2>2. FlagsInv'
    BY <1>5 DEF ResumeFailed, Fail, Followed
  <2>3. DriverInv'
    BY <1>5 DEF ResumeFailed, Fail, Followed
  <2>4. SocketInv'
    BY <1>5 DEF ResumeFailed, Fail, Followed
  <2>5. QED
    BY <2>1, <2>2, <2>3, <2>4
<1>6. CASE ResumeRejected
  BY <1>6 DEF ResumeRejected, DropSocket
<1>7. CASE StaleResumeEnded
  BY <1>7 DEF StaleResumeEnded, Followed
<1>8. QED
  BY <1>1, <1>2, <1>3, <1>4, <1>5, <1>6, <1>7 DEF ReauthEnds, ResumeEnds

LEMMA ConnectionStutter == ConnectionInv /\ UNCHANGED vars => ConnectionInv'
BY DEF vars, history, ConnectionInv, TypeOK, FlagsInv, DriverInv, SocketInv, Running

LEMMA ConnectionInvStep == ConnectionInv /\ [Next]_vars => ConnectionInv'
BY PageStep, WireStep, OwnStep, ConnectionStutter DEF Next

\* ConnectionInv holds in every state of AuthenticatedSocket.
THEOREM ConnectionInvariant == Spec => []ConnectionInv
BY ConnectionInit, ConnectionInvStep, PTL DEF Spec

-----------------------------------------------------------------------------
(* What follows for the connection                                         *)

LEMMA ConnectionInvDrives == ConnectionInv => Driven /\ OneLiveSocket
BY BoundsFact DEF ConnectionInv, FlagsInv, DriverInv, SocketInv, Driven, OneDriver, Quiet, Drivers,
   OneLiveSocket

\* Every variable keeps its type.
THEOREM ConnectionTypeCorrect == Spec => []TypeOK
<1>1. ConnectionInv => TypeOK
  BY DEF ConnectionInv
<1>2. QED
  BY <1>1, ConnectionInvariant, PTL

\* A running connection is driven by exactly one of its socket, the reconnect timer and
\* an authentication (connect, scheduleReconnect, reauthenticateAndReconnect).
THEOREM AlwaysOneDriver == Spec => []OneDriver
<1>1. ConnectionInv => OneDriver
  BY BoundsFact DEF ConnectionInv, DriverInv, OneDriver, Drivers
<1>2. QED
  BY <1>1, ConnectionInvariant, PTL

\* A connection that is paused, stopped or unwanted is driven by nothing: no resume that
\* a pause has overtaken connects (the check after the await of authenticate).
THEOREM AlwaysQuiet == Spec => []Quiet
<1>1. ConnectionInv => Quiet
  BY DEF ConnectionInv, FlagsInv, DriverInv, Quiet, Drivers
<1>2. QED
  BY <1>1, ConnectionInvariant, PTL

\* In every state: exactly one driver for a running connection, none for any other.
THEOREM AlwaysDriven == Spec => []Driven
BY ConnectionInvDrives, ConnectionInvariant, PTL

\* There is at most one live WebSocket, the one in use.
THEOREM AlwaysOneLiveSocket == Spec => []OneLiveSocket
BY ConnectionInvDrives, ConnectionInvariant, PTL

-----------------------------------------------------------------------------
(* What the page is told, and what it asked for                            *)

LEMMA StatusStep == ConnectionInv /\ StatusTrue /\ [Next]_vars => StatusTrue'
<1> SUFFICES ASSUME ConnectionInv, StatusTrue, [Next]_vars PROVE StatusTrue'
  OBVIOUS
<1> USE BoundsFact DEF ConnectionInv, FlagsInv, DriverInv, SocketInv, StatusTrue, Running,
    history
<1>0. net \in [Sockets -> {"unused", "connecting", "open", "closing"}]
  BY DEF TypeOK
<1>1. CASE Page
  <2>1. CASE Start \/ Resume
    BY <1>0, <2>1 DEF Start, Resume, Connect
  <2>2. CASE Pause \/ PauseAgain \/ Stop
    BY <1>0, <2>2 DEF Pause, PauseAgain, Stop, DropSocket
  <2>3. QED
    BY <1>1, <2>1, <2>2 DEF Page
<1>2. ASSUME NEW s \in Sockets, Opened(s) \/ LateClose(s) PROVE StatusTrue'
  <2>1. CASE Opened(s)
    BY <1>0, <2>1 DEF Opened
  <2>2. CASE LateClose(s)
    <3>1. socket' = socket /\ status' = status /\ s # socket
      BY <2>2 DEF LateClose
    <3>2. socket # NoSocket => net'[socket] = net[socket]
      BY <1>0, <2>2, <3>1 DEF LateClose, TypeOK
    <3>3. QED
      BY <3>1, <3>2
  <2>3. QED
    BY <1>2, <2>1, <2>2
<1>3. ASSUME NEW s \in Sockets, Lost(s) \/ Unauthenticated(s) PROVE StatusTrue'
  BY <1>0, <1>3 DEF Lost, Unauthenticated, Scheduled
<1>4. CASE TimerFires
  BY <1>0, <1>4 DEF TimerFires, Connect
<1>5. CASE ReauthEnds
  BY <1>0, <1>5 DEF ReauthEnds, Reauthenticated, ReauthRejected, Expired, Scheduled, DropSocket,
     TypeOK
<1>6. CASE ResumeEnds
  <2>1. CASE Resumed
    BY <1>0, <2>1 DEF Resumed, Connect
  <2>2. CASE ResumeFailed \/ ResumeRejected \/ StaleResumeEnded
    BY <1>0, <2>2 DEF ResumeFailed, ResumeRejected, StaleResumeEnded, DropSocket
  <2>3. QED
    BY <1>6, <2>1, <2>2 DEF ResumeEnds
<1>7. CASE UNCHANGED vars
  BY <1>7 DEF vars
<1>8. QED
  BY <1>1, <1>2, <1>3, <1>4, <1>5, <1>6, <1>7 DEF Next, Wire

\* The page is told "connected" exactly while the socket in use is open (onStatus).
THEOREM AlwaysStatusTrue == Spec => []StatusTrue
<1>1. Init => StatusTrue
  BY DEF Init, StatusTrue
<1>2. QED
  BY <1>1, StatusStep, ConnectionInvariant, PTL DEF Spec

LEMMA ResumeInitially == Init => ResumeKept
BY DEF Init, ResumeKept

LEMMA ResumeStep == ConnectionInv /\ ResumeKept /\ [Next]_vars => ResumeKept'
<1> SUFFICES ASSUME ConnectionInv, ResumeKept, [Next]_vars PROVE ResumeKept'
  OBVIOUS
<1> USE DEF ConnectionInv, FlagsInv, ResumeKept, Running, history
<1>0. requested \in BOOLEAN /\ resuming \in {"none", "current", "stale"}
  BY DEF TypeOK
<1>1. CASE Page
  BY <1>0, <1>1 DEF Page, Start, Pause, PauseAgain, Resume, Stop
<1>2. CASE Wire \/ TimerFires
  BY <1>2 DEF Wire, Opened, Lost, Unauthenticated, LateClose, TimerFires
<1>3. CASE ReauthEnds
  BY <1>3 DEF ReauthEnds, Reauthenticated, ReauthRejected, Expired
<1>4. CASE ResumeEnds
  BY <1>0, <1>4 DEF ResumeEnds, Resumed, ResumeFailed, ResumeRejected, StaleResumeEnded,
     Followed
<1>5. CASE UNCHANGED vars
  BY <1>5 DEF vars
<1>6. QED
  BY <1>1, <1>2, <1>3, <1>4, <1>5 DEF Next

\* A resume is not lost behind the authentication of an earlier one (resumeRequested and
\* the finally of resume).
THEOREM AlwaysResumeKept == Spec => []ResumeKept
BY ResumeInitially, ResumeStep, ConnectionInvariant, PTL DEF Spec

-----------------------------------------------------------------------------
(* LiveEvents.  NewsComplete speaks of the moment when no frame and no     *)
(* answer is under way.  Until then what MAX has of a message is what the  *)
(* last item on its way tells (StreamInv), an item that has not come       *)
(* before has no identity the adapter has seen (SeenCame, with DeletedOnce *)
(* for the deletions, which all have the same), and the open chat holds    *)
(* what was announced, not what is true (HeldInv).                         *)

States  == [edits : Nat, reacted : BOOLEAN, state : {"unsent", "sent", "deleted"}]
Told    == {now \in States : now.state # "unsent"}
Items   == [m : LiveMessages, now : Told, readable : BOOLEAN]
Entries == [m : LiveMessages, now : {now \in States : now.state = "sent"}]
Of(c)   == {n \in LiveMessages : ChatOf[n] = c}

\* What identifies a message in a state.
IdentityOf(m, now) == Identity([m |-> m, now |-> now, readable |-> TRUE])
Identities == {IdentityOf(m, now) : m \in LiveMessages, now \in Told}

\* Messages of one chat, each once.
Messages(s, c) ==
  /\ s \in Seq(Entries)
  /\ \A i \in DOMAIN s : ChatOf[s[i].m] = c
  /\ \A i, j \in DOMAIN s : i # j => s[i].m # s[j].m

LiveTypes ==
  /\ truth \in [LiveMessages -> States] /\ announced \in [LiveMessages -> States]
  /\ stream \in Seq(Seq(Items)) /\ last \in Seq(Items)
  /\ seen \in Seq(Identities) /\ number \in Nat
  /\ came \subseteq LiveMessages \X Told /\ missed \subseteq LiveMessages
  /\ selected \in Chats \cup {NoChat} /\ Messages(held, selected) /\ Len(held) <= MaxOpen
  /\ answer.chat \in Chats \cup {NoChat} /\ Messages(answer.messages, answer.chat)

\* A message is deleted once.
DeletedOnce ==
  /\ \A f \in DOMAIN stream : \A i \in DOMAIN stream[f] :
       stream[f][i].now.state = "deleted" => stream[f][i].now = truth[stream[f][i].m]
  /\ \A i \in DOMAIN last : last[i].now.state = "deleted" => last[i].now = truth[last[i].m]
  /\ \A c \in came : c[2].state = "deleted" => c[2] = truth[c[1]]

\* The adapter has seen what has come.
SeenCame == \A i \in DOMAIN seen : \E c \in came : seen[i] = IdentityOf(c[1], c[2])

\* The last item about m in a frame.
LastOf(frame, i, m) == frame[i].m = m /\ \A k \in DOMAIN frame : k > i => frame[k].m # m
About(frame, m)     == \E i \in DOMAIN frame : frame[i].m = m
Pending(m)          == \E f \in DOMAIN stream : About(stream[f], m)

\* The last item on its way tells what MAX has now; so does the last frame, when all have come.
StreamInv ==
  /\ \A f \in DOMAIN stream : \A i \in DOMAIN stream[f] :
       LET m == stream[f][i].m
       IN  LastOf(stream[f], i, m) /\ (\A g \in DOMAIN stream : g > f => ~About(stream[g], m)) =>
             stream[f][i].now = truth[m]
  /\ stream = <<>> => \A i \in DOMAIN last :
       LastOf(last, i, last[i].m) => last[i].now = truth[last[i].m]

\* What is not on its way and was not passed over is announced.
Announced == \A m \in LiveMessages \ missed : ~Pending(m) => announced[m] = truth[m]

\* What the chat c with the messages s holds of m is what f says.
Agrees(f, s, c, m) ==
  ChatOf[m] = c /\ Cardinality(Of(c)) <= MaxOpen =>
    (f[m].state = "sent" <=> Contains(s, [m |-> m, now |-> f[m]]))

HeldInv == \A m \in LiveMessages \ missed : Agrees(announced, held, selected, m)

LiveInv ==
  /\ LiveTypes /\ Len(seen) <= MaxSeen /\ IsInjective(seen)
  /\ DeletedOnce /\ SeenCame /\ StreamInv /\ Announced /\ HeldInv

(* Induction and folds.  Adapter and session take the items of a frame one *)
(* by one.  FoldLeft is defined by a function of the sets of positions: it *)
(* exists (SetFold) and takes the positions in order (FoldStages), so that *)
(* what holds from item to item holds in the end.  The induction is over a *)
(* set of numbers, by the least number that would not be in it.            *)

LEMMA LessWellFounded == IsWellFoundedOn({ss \in Nat \X Nat : ss[1] < ss[2]}, Nat)
BY NatLessThanWellFounded DEF OpToRel

LEMMA SetInduction ==
  ASSUME NEW S, 0 \in S, \A n \in Nat : n \in S => n + 1 \in S
  PROVE  Nat \subseteq S
<1> DEFINE R == {ss \in Nat \X Nat : ss[1] < ss[2]}
           T == Nat \ S
<1>1. SUFFICES ASSUME T # {} PROVE FALSE
  OBVIOUS
<1>2. IsWellFoundedOn(R, Nat)
  BY LessWellFounded
<1>3. PICK x \in T : \A y \in T : <<y, x>> \notin R
  <2> HIDE DEF R
  <2>1. QED
    BY <1>1, <1>2, WFMin
<1>4. x # 0 /\ x - 1 \in Nat /\ x - 1 \notin S
  BY <1>3
<1>5. <<x - 1, x>> \in R /\ x - 1 \in T
  BY <1>4
<1>6. QED
  BY <1>3, <1>5

LEMMA MaxFact ==
  ASSUME NEW n \in Nat, NEW s, s \subseteq 1 .. n, s # {}
  PROVE  Max(s) \in s /\ \A y \in s : Max(s) >= y
<1> DEFINE S == {k \in Nat : \A t \in SUBSET (1 .. k) : t # {} => \E x \in t : \A y \in t : x >= y}
<1>1. 0 \in S
  <2>1. 1 .. 0 = {}
    OBVIOUS
  <2>2. QED
    BY <2>1
<1>2. ASSUME NEW k \in Nat, k \in S
      PROVE  k + 1 \in S
  <2>1. SUFFICES ASSUME NEW t \in SUBSET (1 .. k + 1), t # {}
                 PROVE  \E x \in t : \A y \in t : x >= y
    OBVIOUS
  <2>2. CASE k + 1 \in t
    BY <2>2
  <2>3. CASE k + 1 \notin t
    <3>1. t \in SUBSET (1 .. k)
      BY <2>3
    <3>2. QED
      BY <1>2, <2>1, <3>1
  <2>4. QED
    BY <2>2, <2>3
<1> HIDE DEF S
<1>3. Nat \subseteq S
  BY <1>1, <1>2, SetInduction
<1>4. \E x \in s : \A y \in s : x >= y
  BY <1>3 DEF S
<1>5. QED
  BY <1>4 DEF Max

\* g folds the items 1 .. N, taking the last of a set after the others.
FoldsTo(g, N, X, base, step) ==
  /\ g \in [SUBSET (1 .. N) -> X]
  /\ \A s \in SUBSET (1 .. N) :
       g[s] = IF s = {} THEN base ELSE step[<<g[s \ {Max(s)}], Max(s)>>]

\* What a fold is defined by exists.
LEMMA SetFold ==
  ASSUME NEW N \in Nat, NEW X, NEW base \in X, NEW step \in [X \X (1 .. N) -> X]
  PROVE  \E g : FoldsTo(g, N, X, base, step)
<1> DEFINE Folds(n, g) == \A s \in SUBSET (1 .. n) :
                            g[s] = IF s = {} THEN base ELSE step[<<g[s \ {Max(s)}], Max(s)>>]
           Some(n) == \E g \in [SUBSET (1 .. n) -> X] : Folds(n, g)
           S == {n \in Nat : n <= N => Some(n)}
<1>1. 0 \in S
  <2> DEFINE g == [s \in SUBSET (1 .. 0) |-> base]
  <2>1. 1 .. 0 = {}
    OBVIOUS
  <2>2. g \in [SUBSET (1 .. 0) -> X] /\ Folds(0, g)
    BY <2>1
  <2>3. QED
    BY <2>2
<1>2. ASSUME NEW n \in Nat, n \in S
      PROVE  n + 1 \in S
  <2> HIDE DEF Some
  <2>1. SUFFICES ASSUME n + 1 <= N PROVE Some(n + 1)
    OBVIOUS
  <2>2. Some(n)
    BY <1>2, <2>1
  <2> USE DEF Some
  <2>3. PICK g \in [SUBSET (1 .. n) -> X] : Folds(n, g)
    BY <2>2
  <2> DEFINE h == [s \in SUBSET (1 .. n + 1) |->
                     IF n + 1 \in s THEN step[<<g[s \ {n + 1}], n + 1>>] ELSE g[s]]
  <2>4. ASSUME NEW s \in SUBSET (1 .. n + 1), n + 1 \in s
        PROVE  /\ h[s] \in X /\ s # {}
               /\ h[s] = step[<<h[s \ {Max(s)}], Max(s)>>]
    <3>1. Max(s) = n + 1
      <4>1. Max(s) \in s /\ \A y \in s : Max(s) >= y
        BY <2>4, n + 1 \in Nat, MaxFact
      <4>2. Max(s) >= n + 1 /\ Max(s) \in 1 .. n + 1
        BY <2>4, <4>1
      <4> HIDE DEF h
      <4>3. QED
        BY <4>2
    <3>2. s \ {n + 1} \in SUBSET (1 .. n) /\ n + 1 \notin s \ {n + 1}
      OBVIOUS
    <3>3. h[s \ {n + 1}] = g[s \ {n + 1}] /\ g[s \ {n + 1}] \in X
      BY <3>2
    <3>4. h[s] = step[<<g[s \ {n + 1}], n + 1>>]
      BY <2>4
    <3> HIDE DEF h
    <3>5. h[s] \in X
      BY <2>1, <3>3, <3>4
    <3>6. QED
      BY <2>4, <3>1, <3>3, <3>4, <3>5
  <2>5. ASSUME NEW s \in SUBSET (1 .. n + 1), n + 1 \notin s
        PROVE  /\ h[s] \in X
               /\ h[s] = IF s = {} THEN base ELSE step[<<h[s \ {Max(s)}], Max(s)>>]
    <3>1. s \in SUBSET (1 .. n) /\ h[s] = g[s]
      BY <2>5
    <3>2. s \ {Max(s)} \in SUBSET (1 .. n) /\ s \ {Max(s)} \in SUBSET (1 .. n + 1)
      BY <3>1
    <3>3. h[s \ {Max(s)}] = g[s \ {Max(s)}]
      BY <2>5, <3>2
    <3> HIDE DEF h
    <3>4. QED
      BY <2>3, <3>1, <3>3
  <2>6. h \in [SUBSET (1 .. n + 1) -> X]
    <3>1. \A s \in SUBSET (1 .. n + 1) : h[s] \in X
      BY <2>4, <2>5
    <3>2. QED
      BY <3>1
  <2> HIDE DEF h
  <2>7. QED
    BY <2>4, <2>5, <2>6
<1> HIDE DEF S
<1>3. N \in S
  BY <1>1, <1>2, SetInduction
<1>4. \E g \in [SUBSET (1 .. N) -> X] : Folds(N, g)
  <2> HIDE DEF Some
  <2>1. Some(N)
    BY <1>3 DEF S
  <2>2. QED
    BY <2>1 DEF Some
<1>5. QED
  BY <1>4 DEF FoldsTo

\* From base one gets to end through the items 1 .. N, in their order.
Leads(base, end, N, X, step) ==
  \E acc \in [0 .. N -> X] :
    /\ acc[0] = base /\ acc[N] = end
    /\ \A i \in 1 .. N : acc[i] = step[<<acc[i - 1], i>>]

\* h does so too, as far as it is known to stay in X.
Follows(h, N, X, base, step) ==
  \A s \in SUBSET (1 .. N) :
    /\ s = {} => h[s] = base
    /\ s # {} /\ h[s \ {Max(s)}] \in X => h[s] = step[<<h[s \ {Max(s)}], Max(s)>>]

\* A fold takes the items in their order.
LEMMA FoldStages ==
  ASSUME NEW N \in Nat, NEW X, NEW base \in X, NEW step \in [X \X (1 .. N) -> X], NEW h,
         Follows(h, N, X, base, step)
  PROVE  Leads(base, h[1 .. N], N, X, step)
<1> DEFINE S == {i \in Nat : i <= N => h[1 .. i] \in X}
           acc == [i \in 0 .. N |-> h[1 .. i]]
<1>1. ASSUME NEW i \in 1 .. N, h[1 .. i - 1] \in X
      PROVE  h[1 .. i] = step[<<h[1 .. i - 1], i>>] /\ h[1 .. i] \in X
  <2>1. Max(1 .. i) = i
    <3>1. i \in Nat /\ 1 .. i # {} /\ i \in 1 .. i
      OBVIOUS
    <3>2. Max(1 .. i) \in 1 .. i /\ Max(1 .. i) >= i
      BY <3>1, MaxFact
    <3>3. QED
      BY <3>2
  <2>2. 1 .. i \in SUBSET (1 .. N) /\ 1 .. i # {} /\ (1 .. i) \ {i} = 1 .. i - 1
    OBVIOUS
  <2>3. QED
    BY <1>1, <2>1, <2>2 DEF Follows
<1>2. 0 \in S /\ h[1 .. 0] = base
  <2>1. 1 .. 0 = {} /\ {} \in SUBSET (1 .. N)
    OBVIOUS
  <2>2. QED
    BY <2>1 DEF Follows
<1>3. ASSUME NEW n \in Nat, n \in S
      PROVE  n + 1 \in S
  <2>1. SUFFICES ASSUME n + 1 <= N PROVE h[1 .. n + 1] \in X
    OBVIOUS
  <2>2. PICK k \in 1 .. N : k = n + 1
    BY <2>1
  <2>3. 1 .. k - 1 = 1 .. n /\ h[1 .. n] \in X
    BY <1>3, <2>1, <2>2
  <2>4. h[1 .. k] \in X
    BY <1>1, <2>3
  <2>5. QED
    BY <2>2, <2>4
<1> HIDE DEF S
<1>4. Nat \subseteq S
  BY <1>2, <1>3, SetInduction
<1>5. \A i \in 0 .. N : h[1 .. i] \in X
  BY <1>4 DEF S
<1>6. \A i \in 1 .. N : acc[i] = step[<<acc[i - 1], i>>]
  <2>1. SUFFICES ASSUME NEW i \in 1 .. N PROVE acc[i] = step[<<acc[i - 1], i>>]
    OBVIOUS
  <2>2. i \in 0 .. N /\ i - 1 \in 0 .. N
    OBVIOUS
  <2>3. acc[i] = h[1 .. i] /\ acc[i - 1] = h[1 .. i - 1]
    BY <2>2
  <2> HIDE DEF acc
  <2>4. QED
    BY <1>1, <1>5, <2>2, <2>3
<1>7. acc \in [0 .. N -> X] /\ acc[0] = base /\ acc[N] = h[1 .. N]
  BY <1>2, <1>5
<1>8. QED
  BY <1>6, <1>7 DEF Leads

-----------------------------------------------------------------------------
\* The adapter, one item of a frame after the other.
Accs == [seen : Seq(Identities), broken : BOOLEAN, events : Seq(Items)]

\* An identity is a tuple, so that deletions differ from the other news.
LEMMA IdentityFact ==
  /\ \A item \in Items : Identity(item) = IdentityOf(item.m, item.now) /\ Identity(item) \in Identities
  /\ \A m, n \in LiveMessages, now, then \in Told :
       IdentityOf(m, now) = IdentityOf(n, then) =>
         m = n /\ (now = then \/ (now.state = "deleted" /\ then.state = "deleted"))
<1>1. ASSUME NEW m \in LiveMessages, NEW now \in Told
      PROVE  IdentityOf(m, now) = IF now.state = "deleted" THEN <<"delete", m>>
                                  ELSE <<"upsert", m, now.edits, now.reacted>>
  BY DEF IdentityOf, Identity
<1>2. ASSUME NEW m \in LiveMessages, NEW n \in LiveMessages, NEW now \in Told, NEW then \in Told,
             IdentityOf(m, now) = IdentityOf(n, then)
      PROVE  m = n /\ (now = then \/ (now.state = "deleted" /\ then.state = "deleted"))
  <2>1. CASE now.state = "deleted" /\ then.state = "deleted"
    BY <1>1, <1>2, <2>1
  <2>2. CASE now.state # "deleted" /\ then.state # "deleted"
    <3>1. m = n /\ now.edits = then.edits /\ now.reacted = then.reacted
      BY <1>1, <1>2, <2>2
    <3>2. now.state = "sent" /\ then.state = "sent"
      BY <2>2 DEF Told, States
    <3>3. QED
      BY <3>1, <3>2 DEF Told, States
  <2>3. CASE (now.state = "deleted") # (then.state = "deleted")
    <3>1. \A a, b, c, d, e, f : <<a, b>> # <<c, d, e, f>>
      OBVIOUS
    <3>2. QED
      BY <1>1, <1>2, <2>3, <3>1
  <2>4. QED
    BY <2>1, <2>2, <2>3
<1>3. \A item \in Items : /\ item.m \in LiveMessages /\ item.now \in Told
                          /\ Identity(item) = IdentityOf(item.m, item.now)
  BY DEF Items, Identity, IdentityOf
<1>4. QED
  BY <1>2, <1>3 DEF Identities

LEMMA MarkSeenFact ==
  ASSUME NEW order \in Seq(Identities), NEW id \in Identities, NEW longer, longer = MarkSeen(order, id)
  PROVE  /\ longer \in Seq(Identities)
         /\ \A i \in DOMAIN longer : longer[i] = id \/ Contains(order, longer[i])
         /\ Len(order) <= MaxSeen => Len(longer) <= MaxSeen
         /\ IsInjective(order) /\ ~Contains(order, id) => IsInjective(longer)
<1>1. MaxSeen \in Nat \ {0}
  BY LiveAssumption
<1> DEFINE a == Append(order, id)
<1>2. /\ a \in Seq(Identities) /\ Len(a) = Len(order) + 1 /\ Len(order) \in Nat
      /\ \A i \in 1 .. Len(order) : a[i] = order[i]
      /\ a[Len(order) + 1] = id
  OBVIOUS
<1>3. longer = IF Len(a) > MaxSeen THEN Tail(a) ELSE a
  BY DEF MarkSeen
<1> HIDE DEF a
<1>4. /\ \A i \in DOMAIN a : a[i] = id \/ Contains(order, a[i])
      /\ IsInjective(order) /\ ~Contains(order, id) => IsInjective(a)
  BY <1>2 DEF Contains, IsInjective
<1>5. CASE Len(a) > MaxSeen
  <2>1. /\ longer \in Seq(Identities) /\ Len(longer) = Len(a) - 1
        /\ \A i \in DOMAIN longer : i + 1 \in DOMAIN a /\ longer[i] = a[i + 1]
    BY <1>2, <1>3, <1>5
  <2>2. IsInjective(a) => IsInjective(longer)
    BY <1>2, <2>1 DEF IsInjective
  <2>3. QED
    BY <1>1, <1>2, <1>4, <2>1, <2>2
<1>6. CASE ~(Len(a) > MaxSeen)
  BY <1>1, <1>2, <1>3, <1>4, <1>6
<1>7. QED
  BY <1>5, <1>6

LEMMA AdaptItemType ==
  ASSUME NEW acc \in Accs, NEW item \in Items
  PROVE  AdaptItem(acc, item) \in Accs
<1>1. Identity(item) \in Identities
  BY IdentityFact
<1>2. MarkSeen(acc.seen, Identity(item)) \in Seq(Identities)
  BY <1>1, MarkSeenFact DEF Accs
<1>3. Append(acc.events, item) \in Seq(Items) /\ item.readable \in BOOLEAN
  BY DEF Accs, Items
<1>4. QED
  BY <1>2, <1>3 DEF AdaptItem, Accs

LEMMA AdaptStages ==
  ASSUME NEW base \in Accs, NEW frame \in Seq(Items)
  PROVE  \E acc \in [0 .. Len(frame) -> Accs] :
           /\ acc[0] = base
           /\ \A i \in 1 .. Len(frame) : acc[i] = AdaptItem(acc[i - 1], frame[i])
           /\ FoldLeft(AdaptItem, base, frame) = acc[Len(frame)]
<1> DEFINE N == Len(frame)
           step == [p \in Accs \X (1 .. N) |-> AdaptItem(p[1], frame[p[2]])]
           Folded(g) == g = [s \in SUBSET (1 .. N) |->
                              IF s = {} THEN base ELSE AdaptItem(g[s \ {Max(s)}], frame[Max(s)])]
           h == CHOOSE g : Folded(g)
<1>1. N \in Nat /\ DOMAIN frame = 1 .. N
  OBVIOUS
<1>2. step \in [Accs \X (1 .. N) -> Accs]
  BY AdaptItemType
<1>3. \A a \in Accs, i \in 1 .. N : step[<<a, i>>] = AdaptItem(a, frame[i])
  OBVIOUS
<1>4. PICK g : FoldsTo(g, N, Accs, base, step)
  <2> HIDE DEF step, N
  <2>1. QED
    BY <1>1, <1>2, SetFold
<1>5. \A s \in SUBSET (1 .. N) : s # {} => Max(s) \in 1 .. N
  BY <1>1, MaxFact
<1>6. Folded(g)
  <2> HIDE DEF step
  <2>1. \A s \in SUBSET (1 .. N) : s # {} => g[s] = AdaptItem(g[s \ {Max(s)}], frame[Max(s)])
    BY <1>3, <1>4, <1>5 DEF FoldsTo
  <2>2. QED
    BY <1>4, <2>1 DEF FoldsTo
<1>7. Folded(h)
  <2> HIDE DEF Folded
  <2>1. QED
    BY <1>6
<1>8. FoldLeft(AdaptItem, base, frame) = h[1 .. N]
  BY <1>1 DEF FoldLeft, MapThenFoldSet
<1> HIDE DEF h, step
<1>9. Follows(h, N, Accs, base, step)
  BY <1>3, <1>5, <1>7 DEF Follows
<1>10. Leads(base, h[1 .. N], N, Accs, step)
  <2> HIDE DEF N, Folded
  <2>1. QED
    BY <1>1, <1>2, <1>9, FoldStages
<1>11. PICK acc \in [0 .. N -> Accs] :
         /\ acc[0] = base /\ acc[N] = h[1 .. N]
         /\ \A i \in 1 .. N : acc[i] = step[<<acc[i - 1], i>>]
  BY <1>10 DEF Leads
<1>12. \A i \in 1 .. N : acc[i] = AdaptItem(acc[i - 1], frame[i])
  <2>1. \A i \in 1 .. N : i - 1 \in 0 .. N
    BY <1>1
  <2> HIDE DEF N
  <2>2. QED
    BY <1>3, <1>11, <2>1
<1>13. QED
  BY <1>8, <1>11, <1>12

-----------------------------------------------------------------------------
\* What the adapter has made of the first n items of a frame: it has seen nothing else, and of
\* the messages whose last item is news it tells that item last.
Unseen(frame, j) == /\ ~Contains(seen, Identity(frame[j]))
                    /\ \A k \in 1 .. j - 1 : Identity(frame[k]) # Identity(frame[j])

AdaptInv(frame, n, acc) ==
  /\ Len(acc.seen) <= MaxSeen /\ IsInjective(acc.seen)
  /\ \A i \in DOMAIN acc.seen :
       Contains(seen, acc.seen[i]) \/ \E k \in 1 .. n : acc.seen[i] = Identity(frame[k])
  /\ \A e \in DOMAIN acc.events : \E k \in 1 .. n : acc.events[e] = frame[k]
  /\ ~acc.broken =>
       \A j \in 1 .. n : Unseen(frame, j) /\ (\A k \in j + 1 .. n : frame[k].m # frame[j].m) =>
         \E e \in DOMAIN acc.events : acc.events[e] = frame[j] /\ LastOf(acc.events, e, frame[j].m)

LEMMA AdaptStep ==
  ASSUME NEW frame \in Seq(Items), NEW n \in Nat, n + 1 <= Len(frame),
         NEW acc \in Accs, AdaptInv(frame, n, acc)
  PROVE  AdaptInv(frame, n + 1, AdaptItem(acc, frame[n + 1]))
<1> DEFINE item == frame[n + 1]
           id == Identity(item)
           longer == MarkSeen(acc.seen, id)
           more == Append(acc.events, item)
<1>1. item \in Items /\ id \in Identities
  BY IdentityFact
<1>2. CASE acc.broken \/ Contains(acc.seen, id)
  <2>1. AdaptItem(acc, item) = acc
    BY <1>2 DEF AdaptItem
  <2>2. \A j \in 1 .. n + 1 : Unseen(frame, j) /\ ~acc.broken => j \in 1 .. n
    <3>1. SUFFICES ASSUME ~acc.broken, Unseen(frame, n + 1) PROVE FALSE
      OBVIOUS
    <3>2. PICK i \in DOMAIN acc.seen : acc.seen[i] = id
      BY <1>2, <3>1 DEF Contains, Accs
    <3>3. Contains(seen, id) \/ \E k \in 1 .. n : id = Identity(frame[k])
      BY <3>2 DEF AdaptInv
    <3>4. QED
      BY <3>1, <3>3 DEF Unseen
  <2>3. \A k \in 1 .. n : k \in 1 .. n + 1
    OBVIOUS
  <2>4. \A j \in 1 .. n : (\A k \in j + 1 .. n + 1 : frame[k].m # frame[j].m) =>
                          (\A k \in j + 1 .. n : frame[k].m # frame[j].m)
    OBVIOUS
  <2> HIDE DEF item
  <2>5. QED
    BY <2>1, <2>2, <2>3, <2>4 DEF AdaptInv, item
<1>3. CASE ~acc.broken /\ ~Contains(acc.seen, id)
  <2> DEFINE b == AdaptItem(acc, item)
  <2>1. /\ b.seen = longer /\ b.broken = ~item.readable
        /\ b.events = IF item.readable THEN more ELSE acc.events
    BY <1>3 DEF AdaptItem
  <2> HIDE DEF b
  <2>2. /\ \A i \in DOMAIN longer : longer[i] = id \/ Contains(acc.seen, longer[i])
        /\ Len(longer) <= MaxSeen /\ IsInjective(longer)
    <3>1. acc.seen \in Seq(Identities)
      BY DEF Accs
    <3>2. QED
      BY <1>1, <1>3, <3>1, MarkSeenFact DEF AdaptInv
  <2>3. \A i \in DOMAIN b.seen :
          Contains(seen, b.seen[i]) \/ \E k \in 1 .. n + 1 : b.seen[i] = Identity(frame[k])
    <3>1. SUFFICES ASSUME NEW i \in DOMAIN longer
                   PROVE  Contains(seen, longer[i])
                          \/ \E k \in 1 .. n + 1 : longer[i] = Identity(frame[k])
      BY <2>1
    <3> HIDE DEF longer
    <3>2. CASE longer[i] = id
      BY <3>2
    <3>3. CASE Contains(acc.seen, longer[i])
      <4>1. PICK k \in DOMAIN acc.seen : acc.seen[k] = longer[i]
        BY <3>3 DEF Contains, Accs
      <4>2. QED
        BY <4>1 DEF AdaptInv
    <3>4. QED
      BY <2>2, <3>2, <3>3
  <2>4. /\ more \in Seq(Items) /\ Len(more) = Len(acc.events) + 1 /\ more[Len(more)] = item
        /\ \A e \in DOMAIN acc.events : more[e] = acc.events[e] /\ e \in DOMAIN more
        /\ \A e \in DOMAIN more : e \in DOMAIN acc.events \/ e = Len(more)
        /\ acc.events \in Seq(Items) /\ Len(more) \in DOMAIN more
    BY <1>1 DEF Accs
  <2> HIDE DEF more
  <2>5. \A e \in DOMAIN b.events : \E k \in 1 .. n + 1 : b.events[e] = frame[k]
    <3>1. \A e \in DOMAIN acc.events : \E k \in 1 .. n + 1 : acc.events[e] = frame[k]
      BY DEF AdaptInv
    <3>2. \E k \in 1 .. n + 1 : item = frame[k]
      OBVIOUS
    <3> HIDE DEF item
    <3>3. \A e \in DOMAIN more : \E k \in 1 .. n + 1 : more[e] = frame[k]
      BY <2>4, <3>1, <3>2
    <3>4. QED
      BY <2>1, <3>1, <3>3
  <2>6. ASSUME ~b.broken, NEW j \in 1 .. n + 1, Unseen(frame, j),
               \A k \in j + 1 .. n + 1 : frame[k].m # frame[j].m
        PROVE  \E e \in DOMAIN b.events : b.events[e] = frame[j] /\ LastOf(b.events, e, frame[j].m)
    <3>1. b.events = more
      BY <2>1, <2>6
    <3>2. CASE j = n + 1
      BY <2>4, <3>1, <3>2 DEF LastOf
    <3>3. CASE j \in 1 .. n
      <4>1. \A k \in j + 1 .. n : frame[k].m # frame[j].m
        BY <2>6
      <4>2. PICK e \in DOMAIN acc.events : acc.events[e] = frame[j]
                                           /\ LastOf(acc.events, e, frame[j].m)
        BY <1>3, <2>6, <3>3, <4>1 DEF AdaptInv
      <4>3. item.m # frame[j].m
        BY <2>6, <3>3
      <4> HIDE DEF item
      <4>4. LastOf(more, e, frame[j].m)
        BY <2>4, <4>2, <4>3 DEF LastOf
      <4>5. QED
        BY <2>4, <3>1, <4>2, <4>4
    <3>4. QED
      BY <3>2, <3>3
  <2>7. Len(b.seen) <= MaxSeen /\ IsInjective(b.seen)
    BY <2>1, <2>2
  <2>8. QED
    BY <2>3, <2>5, <2>6, <2>7 DEF AdaptInv, b
<1>4. QED
  BY <1>2, <1>3

LEMMA AdaptFact ==
  ASSUME LiveTypes, Len(seen) <= MaxSeen, IsInjective(seen), NEW frame \in Seq(Items)
  PROVE  Adapt(frame) \in Accs /\ AdaptInv(frame, Len(frame), Adapt(frame))
<1> DEFINE base == [seen |-> seen, broken |-> FALSE, events |-> <<>>]
<1>1. base \in Accs /\ AdaptInv(frame, 0, base)
  <2>1. base \in Accs
    BY DEF LiveTypes, Accs
  <2>2. \A i \in DOMAIN seen : Contains(seen, seen[i])
    BY DEF Contains, LiveTypes
  <2>3. QED
    BY <2>1, <2>2 DEF AdaptInv
<1>2. Adapt(frame) = FoldLeft(AdaptItem, base, frame)
  BY DEF Adapt
<1> HIDE DEF base
<1>3. PICK acc \in [0 .. Len(frame) -> Accs] :
         /\ acc[0] = base
         /\ \A i \in 1 .. Len(frame) : acc[i] = AdaptItem(acc[i - 1], frame[i])
         /\ FoldLeft(AdaptItem, base, frame) = acc[Len(frame)]
  BY <1>1, AdaptStages
<1> DEFINE S == {n \in Nat : n <= Len(frame) => AdaptInv(frame, n, acc[n])}
<1>4. 0 \in S
  BY <1>1, <1>3
<1>5. ASSUME NEW n \in Nat, n \in S
      PROVE  n + 1 \in S
  <2>1. SUFFICES ASSUME n + 1 <= Len(frame) PROVE AdaptInv(frame, n + 1, acc[n + 1])
    OBVIOUS
  <2>2. n \in 0 .. Len(frame) /\ acc[n + 1] = AdaptItem(acc[n], frame[n + 1])
    <3>1. n + 1 \in 1 .. Len(frame) /\ n + 1 - 1 = n
      BY <2>1
    <3>2. QED
      BY <1>3, <2>1, <3>1
  <2>3. AdaptInv(frame, n, acc[n])
    BY <1>5, <2>1
  <2>4. QED
    BY <1>3, <2>1, <2>2, <2>3, AdaptStep
<1> HIDE DEF S
<1>6. Len(frame) \in S
  BY <1>4, <1>5, SetInduction
<1>7. QED
  BY <1>2, <1>3, <1>6 DEF S

-----------------------------------------------------------------------------
(* What MaxSession keeps.  As long as the open chat fits nothing is cut    *)
(* off, since the messages are different ones of it (Filled).              *)

\* A chat with a message that s lacks is larger than s.
LEMMA Filled ==
  ASSUME NEW c, NEW s, Messages(s, c)
  PROVE  /\ Cardinality(Of(c)) \in Nat /\ Len(s) <= Cardinality(Of(c))
         /\ \A m \in Of(c) : (\A i \in DOMAIN s : s[i].m # m) => Len(s) < Cardinality(Of(c))
<1> DEFINE f == [i \in 1 .. Len(s) |-> s[i].m]
<1>1. IsFiniteSet(Of(c)) /\ Len(s) \in Nat /\ DOMAIN s = 1 .. Len(s)
  <2>1. IsFiniteSet(LiveMessages) /\ Of(c) \subseteq LiveMessages
    BY LiveAssumption DEF Of
  <2>2. IsFiniteSet(Of(c))
    BY <2>1, FS_Subset
  <2>3. QED
    BY <2>2 DEF Messages
<1>2. f \in Injection(1 .. Len(s), Of(c))
  <2>1. f \in [1 .. Len(s) -> Of(c)]
    <3>1. \A i \in 1 .. Len(s) : s[i] \in Entries /\ ChatOf[s[i].m] = c
      BY <1>1 DEF Messages
    <3>2. \A i \in 1 .. Len(s) : s[i].m \in Of(c)
      BY <3>1 DEF Of, Entries
    <3>3. QED
      BY <3>2
  <2>2. \A i, j \in 1 .. Len(s) : f[i] = f[j] => i = j
    BY <1>1 DEF Messages
  <2>3. QED
    BY <2>1, <2>2 DEF Injection, IsInjective
<1>3. Cardinality(1 .. Len(s)) = Len(s)
  <2>1. 1 \in Int /\ Len(s) \in Int
    BY <1>1
  <2>2. Cardinality(1 .. Len(s)) = IF 1 > Len(s) THEN 0 ELSE Len(s) - 1 + 1
    BY <2>1, FS_Interval
  <2>3. QED
    BY <1>1, <2>2
<1>4. Cardinality(Of(c)) \in Nat
  BY <1>1, FS_CardinalityType
<1>5. /\ Len(s) <= Cardinality(Of(c))
      /\ Len(s) = Cardinality(Of(c)) <=> f \in Surjection(1 .. Len(s), Of(c))
  <2> HIDE DEF f
  <2>1. QED
    BY <1>1, <1>2, <1>3, FS_Injection
<1>6. ASSUME NEW m \in Of(c), \A i \in DOMAIN s : s[i].m # m
      PROVE  Len(s) < Cardinality(Of(c))
  <2>1. ~(f \in Surjection(1 .. Len(s), Of(c)))
    <3>1. \A i \in 1 .. Len(s) : f[i] # m
      BY <1>1, <1>6
    <3> HIDE DEF f
    <3>2. QED
      BY <1>6, <3>1 DEF Surjection
  <2> HIDE DEF f
  <2>2. QED
    BY <1>1, <1>4, <1>5, <2>1
<1>7. QED
  BY <1>4, <1>5, <1>6

\* What MaxSession may hold of the open chat.
Holdings == {s \in Seq(Entries) : Messages(s, selected) /\ Len(s) <= MaxOpen}

\* The one about m is at i: the others are all but that.
LEMMA RemovedFact ==
  ASSUME NEW s \in Holdings, NEW m \in LiveMessages, NEW i \in 1 .. Len(s), s[i].m = m,
         NEW others, others = RemoveAt(s, i)
  PROVE  /\ others \in Holdings /\ \A k \in DOMAIN others : others[k].m # m
         /\ \A e : e.m # m => (Contains(others, e) <=> Contains(s, e))
<1>1. s \in Seq(Entries) /\ Messages(s, selected) /\ Len(s) <= MaxOpen /\ Len(s) \in Nat
  BY DEF Holdings
<1>2. /\ others \in Seq(Entries) /\ Len(others) = Len(s) - 1 /\ DOMAIN others = 1 .. Len(s) - 1
      /\ \A k \in 1 .. Len(s) - 1 : others[k] = IF k < i THEN s[k] ELSE s[k + 1]
  <2> DEFINE a == SubSeq(s, 1, i - 1)
             b == SubSeq(s, i + 1, Len(s))
  <2>1. /\ a \in Seq(Entries) /\ Len(a) = i - 1
        /\ \A k \in 1 .. i - 1 : a[k] = s[k]
    BY <1>1
  <2>2. /\ b \in Seq(Entries) /\ Len(b) = Len(s) - i
        /\ \A k \in 1 .. Len(s) - i : b[k] = s[i + k]
    BY <1>1
  <2>3. others = a \o b
    BY DEF RemoveAt
  <2> HIDE DEF a, b
  <2>4. /\ others \in Seq(Entries) /\ Len(others) = Len(a) + Len(b)
        /\ \A k \in 1 .. Len(others) : others[k] = IF k <= Len(a) THEN a[k] ELSE b[k - Len(a)]
    <3>1. /\ a \o b \in Seq(Entries) /\ Len(a \o b) = Len(a) + Len(b)
          /\ \A k \in 1 .. Len(a) + Len(b) : (a \o b)[k] = IF k <= Len(a) THEN a[k] ELSE b[k - Len(a)]
      BY <2>1, <2>2, ConcatProperties
    <3>2. QED
      BY <2>3, <3>1, Zenon
  <2>5. Len(others) = Len(s) - 1 /\ DOMAIN others = 1 .. Len(s) - 1
    BY <1>1, <2>1, <2>2, <2>4
  <2>6. ASSUME NEW k \in 1 .. Len(s) - 1
        PROVE  others[k] = IF k < i THEN s[k] ELSE s[k + 1]
    <3>1. CASE k < i
      <4>1. k \in 1 .. i - 1 /\ k <= Len(a) /\ k \in 1 .. Len(others)
        BY <1>1, <2>1, <2>5, <3>1
      <4>2. QED
        BY <2>1, <2>4, <3>1, <4>1
    <3>2. CASE ~(k < i)
      <4>1. k - Len(a) \in 1 .. Len(s) - i /\ ~(k <= Len(a)) /\ k \in 1 .. Len(others)
            /\ i + (k - Len(a)) = k + 1
        BY <1>1, <2>1, <2>5, <3>2
      <4>2. QED
        BY <2>2, <2>4, <3>2, <4>1
    <3>3. QED
      BY <3>1, <3>2
  <2>7. QED
    BY <2>4, <2>5, <2>6
<1> DEFINE at(k) == IF k < i THEN k ELSE k + 1
<1>3. /\ \A k \in 1 .. Len(s) - 1 : at(k) \in 1 .. Len(s) /\ at(k) # i /\ others[k] = s[at(k)]
      /\ \A k, l \in 1 .. Len(s) - 1 : k # l => at(k) # at(l)
  BY <1>1, <1>2
<1> HIDE DEF at
<1>4. /\ \A k \in DOMAIN s : ChatOf[s[k].m] = selected /\ (k # i => s[k].m # m)
      /\ \A k, l \in DOMAIN s : k # l => s[k].m # s[l].m
      /\ DOMAIN s = 1 .. Len(s)
  BY <1>1 DEF Messages
<1>5. \A k \in 1 .. Len(s) - 1 : others[k].m # m
  BY <1>3, <1>4
<1>6. Messages(others, selected)
  <2>1. \A k \in 1 .. Len(s) - 1 : ChatOf[others[k].m] = selected
    BY <1>3, <1>4
  <2>2. \A k, l \in 1 .. Len(s) - 1 : k # l => others[k].m # others[l].m
    BY <1>3, <1>4
  <2>3. QED
    BY <1>1, <1>2, <2>1, <2>2 DEF Messages
<1>7. ASSUME NEW e, e.m # m
      PROVE  Contains(others, e) <=> Contains(s, e)
  <2>1. Contains(others, e) => Contains(s, e)
    BY <1>1, <1>2 DEF Contains
  <2>2. ASSUME NEW k \in 1 .. Len(s), s[k] = e
        PROVE  Contains(others, e)
    <3>1. k # i
      BY <1>7, <2>2
    <3>2. CASE k < i
      <4>1. k \in 1 .. Len(s) - 1 /\ others[k] = e
        BY <1>1, <1>2, <2>2, <3>2
      <4>2. QED
        BY <1>2, <4>1 DEF Contains
    <3>3. CASE k > i
      <4>1. k - 1 \in 1 .. Len(s) - 1 /\ others[k - 1] = e
        BY <1>1, <1>2, <2>2, <3>3
      <4>2. QED
        BY <1>2, <4>1 DEF Contains
    <3>4. QED
      BY <3>1, <3>2, <3>3
  <2>3. QED
    BY <2>1, <2>2 DEF Contains
<1>8. MaxOpen \in Nat
  BY LiveAssumption
<1>9. QED
  BY <1>1, <1>2, <1>5, <1>6, <1>7, <1>8 DEF Holdings

\* The others are all but the one about m.
LEMMA OthersFact ==
  ASSUME NEW s \in Holdings, NEW m \in LiveMessages, NEW others,
         others = RemoveFirstMatch(s, LAMBDA entry : entry.m = m)
  PROVE  /\ others \in Holdings /\ \A k \in DOMAIN others : others[k].m # m
         /\ \A e : e.m # m => (Contains(others, e) <=> Contains(s, e))
<1>1. s \in Seq(Entries) /\ Messages(s, selected) /\ Len(s) <= MaxOpen /\ Len(s) \in Nat
  BY DEF Holdings
<1>2. CASE ~\E i \in 1 .. Len(s) : s[i].m = m
  BY <1>1, <1>2 DEF RemoveFirstMatch
<1>3. ASSUME NEW i \in 1 .. Len(s), s[i].m = m
      PROVE  others = RemoveAt(s, i)
  <2>1. {k \in 1 .. Len(s) : s[k].m = m} = {i}
    BY <1>1, <1>3 DEF Messages
  <2>2. Min({i}) = i
    BY <1>3 DEF Min
  <2>3. SelectInSeq(s, LAMBDA entry : entry.m = m) = i
    BY <2>1, <2>2 DEF SelectInSeq
  <2>4. QED
    BY <1>3, <2>3 DEF RemoveFirstMatch
<1>4. ASSUME NEW i \in 1 .. Len(s), s[i].m = m
      PROVE  /\ others \in Holdings /\ \A k \in DOMAIN others : others[k].m # m
             /\ \A e : e.m # m => (Contains(others, e) <=> Contains(s, e))
  <2>1. others = RemoveAt(s, i)
    BY <1>3, <1>4
  <2>2. QED
    BY <1>4, <2>1, RemovedFact, Zenon
<1>5. QED
  BY <1>2, <1>4, Zenon

LEMMA MergeFact ==
  ASSUME NEW s \in Holdings, NEW item \in Items, NEW merged, merged = Merge(s, item)
  PROVE  /\ merged \in Holdings
         /\ Cardinality(Of(selected)) <= MaxOpen =>
              /\ \A e : e.m # item.m => (Contains(merged, e) <=> Contains(s, e))
              /\ ChatOf[item.m] = selected =>
                   \A now : Contains(merged, [m |-> item.m, now |-> now])
                              <=> item.now.state = "sent" /\ now = item.now
<1> DEFINE others == RemoveFirstMatch(s, LAMBDA entry : entry.m = item.m)
           entry == [m |-> item.m, now |-> item.now]
           longer == Append(others, entry)
<1>1. CASE ChatOf[item.m] # selected
  BY <1>1 DEF Merge
<1>2. CASE ChatOf[item.m] = selected
  <2>1. merged = IF item.now.state = "deleted" THEN others
                 ELSE IF Len(longer) > MaxOpen THEN Tail(longer) ELSE longer
    BY <1>2 DEF Merge
  <2>2. /\ item.m \in LiveMessages /\ item.now \in Told /\ item.now.state \in {"sent", "deleted"}
        /\ item.now.state = "sent" => entry \in Entries
    BY DEF Items, Entries, Told, States
  <2>3. /\ others \in Holdings /\ \A i \in DOMAIN others : others[i].m # item.m
        /\ \A e : e.m # item.m => (Contains(others, e) <=> Contains(s, e))
    BY <2>2, OthersFact
  <2> HIDE DEF others
  <2>4. others \in Seq(Entries) /\ Messages(others, selected) /\ Len(others) <= MaxOpen
        /\ Len(others) \in Nat /\ MaxOpen \in Nat \ {0} /\ DOMAIN others = 1 .. Len(others)
    BY <2>3, LiveAssumption DEF Holdings
  <2>5. \A now : ~Contains(others, [m |-> item.m, now |-> now])
    BY <2>3, <2>4 DEF Contains
  <2>6. CASE item.now.state = "deleted"
    BY <2>1, <2>3, <2>5, <2>6
  <2>7. CASE item.now.state = "sent"
    <3>1. /\ longer \in Seq(Entries) /\ Len(longer) = Len(others) + 1
          /\ \A i \in 1 .. Len(others) : longer[i] = others[i]
          /\ longer[Len(others) + 1] = entry
      BY <2>2, <2>4, <2>7
    <3> HIDE DEF longer
    <3>2. Messages(longer, selected)
      BY <1>2, <2>3, <2>4, <3>1 DEF Messages
    <3>3. CASE Len(longer) > MaxOpen
      <4>1. merged = Tail(longer)
        BY <2>1, <2>7, <3>3
      <4>2. /\ merged \in Seq(Entries) /\ Len(merged) = Len(others)
            /\ \A i \in 1 .. Len(others) : merged[i] = longer[i + 1]
        BY <2>4, <3>1, <4>1
      <4>3. Messages(merged, selected)
        <5>1. \A i \in 1 .. Len(others) : i + 1 \in 1 .. Len(longer)
          BY <2>4, <3>1
        <5>2. DOMAIN merged = 1 .. Len(others) /\ DOMAIN longer = 1 .. Len(longer)
          BY <3>1, <4>2
        <5>3. \A i \in 1 .. Len(others) : ChatOf[merged[i].m] = selected
          BY <3>2, <4>2, <5>1, <5>2 DEF Messages
        <5>4. \A i, j \in 1 .. Len(others) : i # j => merged[i].m # merged[j].m
          BY <2>4, <3>2, <4>2, <5>1, <5>2 DEF Messages
        <5>5. QED
          BY <4>2, <5>2, <5>3, <5>4 DEF Messages
      <4>4. ~(Cardinality(Of(selected)) <= MaxOpen)
        <5>1. item.m \in Of(selected)
          BY <1>2, <2>2 DEF Of
        <5>2. Len(others) < Cardinality(Of(selected)) /\ Cardinality(Of(selected)) \in Nat
          BY <2>3, <2>4, <5>1, Filled
        <5>3. QED
          BY <2>4, <3>1, <3>3, <5>2
      <4>5. QED
        BY <2>4, <4>2, <4>3, <4>4 DEF Holdings
    <3>4. CASE ~(Len(longer) > MaxOpen)
      <4>1. merged = longer
        BY <2>1, <2>7, <3>4
      <4>2. merged \in Holdings
        BY <2>4, <3>1, <3>2, <3>4, <4>1 DEF Holdings
      <4>3. \A e : e.m # item.m => (Contains(longer, e) <=> Contains(others, e))
        BY <2>4, <3>1 DEF Contains
      <4>4. \A now : Contains(longer, [m |-> item.m, now |-> now]) <=> now = item.now
        <5>1. ASSUME NEW now, Contains(longer, [m |-> item.m, now |-> now])
              PROVE  now = item.now
          <6>1. PICK i \in 1 .. Len(longer) : longer[i] = [m |-> item.m, now |-> now]
            BY <5>1 DEF Contains
          <6>2. longer[i].m = item.m
            BY <6>1
          <6>3. i = Len(others) + 1
            BY <2>3, <2>4, <3>1, <6>1, <6>2
          <6>4. QED
            BY <3>1, <6>1, <6>3
        <5>2. Contains(longer, entry)
          BY <2>4, <3>1 DEF Contains
        <5>3. QED
          BY <5>1, <5>2
      <4>5. QED
        BY <2>3, <2>7, <4>1, <4>2, <4>3, <4>4
    <3>5. QED
      BY <3>3, <3>4
  <2>8. QED
    BY <2>2, <2>6, <2>7
<1>3. QED
  BY <1>1, <1>2

LEMMA MergeStages ==
  ASSUME NEW base \in Holdings, NEW frame \in Seq(Items)
  PROVE  \E acc \in [0 .. Len(frame) -> Holdings] :
           /\ acc[0] = base
           /\ \A i \in 1 .. Len(frame) : acc[i] = Merge(acc[i - 1], frame[i])
           /\ FoldLeft(Merge, base, frame) = acc[Len(frame)]
<1> DEFINE N == Len(frame)
           step == [p \in Holdings \X (1 .. N) |-> Merge(p[1], frame[p[2]])]
           Folded(g) == g = [s \in SUBSET (1 .. N) |->
                              IF s = {} THEN base ELSE Merge(g[s \ {Max(s)}], frame[Max(s)])]
           h == CHOOSE g : Folded(g)
<1>1. N \in Nat /\ DOMAIN frame = 1 .. N
  OBVIOUS
<1>2. step \in [Holdings \X (1 .. N) -> Holdings]
  BY MergeFact
<1>3. \A a \in Holdings, i \in 1 .. N : step[<<a, i>>] = Merge(a, frame[i])
  OBVIOUS
<1>4. PICK g : FoldsTo(g, N, Holdings, base, step)
  <2> HIDE DEF step, N
  <2>1. QED
    BY <1>1, <1>2, SetFold
<1>5. \A s \in SUBSET (1 .. N) : s # {} => Max(s) \in 1 .. N
  BY <1>1, MaxFact
<1>6. Folded(g)
  <2> HIDE DEF step
  <2>1. \A s \in SUBSET (1 .. N) : s # {} => g[s] = Merge(g[s \ {Max(s)}], frame[Max(s)])
    BY <1>3, <1>4, <1>5 DEF FoldsTo
  <2>2. QED
    BY <1>4, <2>1 DEF FoldsTo
<1>7. Folded(h)
  <2> HIDE DEF Folded
  <2>1. QED
    BY <1>6
<1>8. FoldLeft(Merge, base, frame) = h[1 .. N]
  BY <1>1 DEF FoldLeft, MapThenFoldSet
<1> HIDE DEF h, step
<1>9. Follows(h, N, Holdings, base, step)
  BY <1>3, <1>5, <1>7 DEF Follows
<1>10. Leads(base, h[1 .. N], N, Holdings, step)
  <2> HIDE DEF N, Folded
  <2>1. QED
    BY <1>1, <1>2, <1>9, FoldStages
<1>11. PICK acc \in [0 .. N -> Holdings] :
         /\ acc[0] = base /\ acc[N] = h[1 .. N]
         /\ \A i \in 1 .. N : acc[i] = step[<<acc[i - 1], i>>]
  BY <1>10 DEF Leads
<1>12. \A i \in 1 .. N : acc[i] = Merge(acc[i - 1], frame[i])
  <2>1. \A i \in 1 .. N : i - 1 \in 0 .. N
    BY <1>1
  <2> HIDE DEF N
  <2>2. QED
    BY <1>3, <1>11, <2>1
<1>13. QED
  BY <1>8, <1>11, <1>12

\* What the API was told of each message, and a piece of news.
Reports == [LiveMessages -> States]
Announce(f, item) == [f EXCEPT ![item.m] = item.now]

LEMMA AnnounceType ==
  ASSUME NEW f \in Reports, NEW item \in Items
  PROVE  /\ Announce(f, item) \in Reports
         /\ \A m \in LiveMessages : Announce(f, item)[m] = IF m = item.m THEN item.now ELSE f[m]
BY DEF Reports, Announce, Items, Told

LEMMA AnnounceStages ==
  ASSUME NEW base \in Reports, NEW frame \in Seq(Items)
  PROVE  \E acc \in [0 .. Len(frame) -> Reports] :
           /\ acc[0] = base
           /\ \A i \in 1 .. Len(frame) : acc[i] = Announce(acc[i - 1], frame[i])
           /\ FoldLeft(LAMBDA f, item : [f EXCEPT ![item.m] = item.now], base, frame) = acc[Len(frame)]
<1> DEFINE N == Len(frame)
           step == [p \in Reports \X (1 .. N) |-> Announce(p[1], frame[p[2]])]
           Folded(g) == g = [s \in SUBSET (1 .. N) |->
                              IF s = {} THEN base ELSE Announce(g[s \ {Max(s)}], frame[Max(s)])]
           h == CHOOSE g : Folded(g)
<1>1. N \in Nat /\ DOMAIN frame = 1 .. N
  OBVIOUS
<1>2. step \in [Reports \X (1 .. N) -> Reports]
  BY AnnounceType
<1>3. \A a \in Reports, i \in 1 .. N : step[<<a, i>>] = Announce(a, frame[i])
  OBVIOUS
<1>4. PICK g : FoldsTo(g, N, Reports, base, step)
  <2> HIDE DEF step, N
  <2>1. QED
    BY <1>1, <1>2, SetFold
<1>5. \A s \in SUBSET (1 .. N) : s # {} => Max(s) \in 1 .. N
  BY <1>1, MaxFact
<1>6. Folded(g)
  <2> HIDE DEF step
  <2>1. \A s \in SUBSET (1 .. N) : s # {} => g[s] = Announce(g[s \ {Max(s)}], frame[Max(s)])
    BY <1>3, <1>4, <1>5 DEF FoldsTo
  <2>2. QED
    BY <1>4, <2>1 DEF FoldsTo
<1>7. Folded(h)
  <2> HIDE DEF Folded
  <2>1. QED
    BY <1>6
<1>8. FoldLeft(LAMBDA f, item : [f EXCEPT ![item.m] = item.now], base, frame) = h[1 .. N]
  BY <1>1 DEF FoldLeft, MapThenFoldSet, Announce
<1> HIDE DEF h, step
<1>9. Follows(h, N, Reports, base, step)
  BY <1>3, <1>5, <1>7 DEF Follows
<1>10. Leads(base, h[1 .. N], N, Reports, step)
  <2> HIDE DEF N, Folded
  <2>1. QED
    BY <1>1, <1>2, <1>9, FoldStages
<1>11. PICK acc \in [0 .. N -> Reports] :
         /\ acc[0] = base /\ acc[N] = h[1 .. N]
         /\ \A i \in 1 .. N : acc[i] = step[<<acc[i - 1], i>>]
  BY <1>10 DEF Leads
<1>12. \A i \in 1 .. N : acc[i] = Announce(acc[i - 1], frame[i])
  <2>1. \A i \in 1 .. N : i - 1 \in 0 .. N
    BY <1>1
  <2> HIDE DEF N
  <2>2. QED
    BY <1>3, <1>11, <2>1
<1>13. QED
  BY <1>8, <1>11, <1>12

-----------------------------------------------------------------------------
\* The first n pieces of news have been told and merged.
NewsInv(news, n, f, h) ==
  \A m \in LiveMessages :
    /\ (\A k \in 1 .. n : news[k].m # m) => f[m] = announced[m]
    /\ \A e \in 1 .. n : news[e].m = m /\ (\A k \in e + 1 .. n : news[k].m # m) => f[m] = news[e].now
    /\ Agrees(announced, held, selected, m) \/ (\E k \in 1 .. n : news[k].m = m) =>
         Agrees(f, h, selected, m)

LEMMA NewsStep ==
  ASSUME NEW news \in Seq(Items), NEW n \in Nat, n + 1 <= Len(news),
         NEW f \in Reports, NEW h \in Holdings, NewsInv(news, n, f, h)
  PROVE  NewsInv(news, n + 1, Announce(f, news[n + 1]), Merge(h, news[n + 1]))
<1> DEFINE item == news[n + 1]
           g == Announce(f, item)
           merged == Merge(h, item)
<1>1. item \in Items
  OBVIOUS
<1>2. \A m \in LiveMessages : g[m] = IF m = item.m THEN item.now ELSE f[m]
  BY <1>1, AnnounceType
<1>3. Cardinality(Of(selected)) <= MaxOpen =>
        /\ \A e : e.m # item.m => (Contains(merged, e) <=> Contains(h, e))
        /\ ChatOf[item.m] = selected =>
             \A now : Contains(merged, [m |-> item.m, now |-> now])
                        <=> item.now.state = "sent" /\ now = item.now
  BY <1>1, MergeFact
<1> HIDE DEF g, merged
<1> SUFFICES ASSUME NEW m \in LiveMessages
             PROVE  /\ (\A k \in 1 .. n + 1 : news[k].m # m) => g[m] = announced[m]
                    /\ \A e \in 1 .. n + 1 :
                         news[e].m = m /\ (\A k \in e + 1 .. n + 1 : news[k].m # m) =>
                           g[m] = news[e].now
                    /\ Agrees(announced, held, selected, m) \/ (\E k \in 1 .. n + 1 : news[k].m = m) =>
                         Agrees(g, merged, selected, m)
  BY DEF NewsInv, g, merged
<1>4. n + 1 \in 1 .. n + 1 /\ \A k \in 1 .. n + 1 : k \in 1 .. n \/ k = n + 1
  OBVIOUS
<1>5. CASE m = item.m
  <2>1. g[m] = item.now
    BY <1>2, <1>5
  <2>2. \A e \in 1 .. n : n + 1 \in e + 1 .. n + 1
    OBVIOUS
  <2>3. Agrees(g, merged, selected, m)
    BY <1>3, <1>5, <2>1 DEF Agrees
  <2>4. QED
    BY <1>4, <1>5, <2>1, <2>2, <2>3
<1>6. CASE m # item.m
  <2>1. g[m] = f[m]
    BY <1>2, <1>6
  <2>2. Agrees(f, h, selected, m) => Agrees(g, merged, selected, m)
    <3> DEFINE entry == [m |-> m, now |-> f[m]]
    <3>1. entry.m # item.m
      BY <1>6
    <3>2. [m |-> m, now |-> g[m]] = entry
      BY <2>1
    <3> HIDE DEF entry
    <3>3. Cardinality(Of(selected)) <= MaxOpen => (Contains(merged, entry) <=> Contains(h, entry))
      BY <1>3, <3>1
    <3>4. Agrees(f, h, selected, m) <=>
            (ChatOf[m] = selected /\ Cardinality(Of(selected)) <= MaxOpen =>
               (f[m].state = "sent" <=> Contains(h, entry)))
      BY Zenon DEF Agrees, entry
    <3>5. Agrees(g, merged, selected, m) <=>
            (ChatOf[m] = selected /\ Cardinality(Of(selected)) <= MaxOpen =>
               (g[m].state = "sent" <=> Contains(merged, entry)))
      BY <3>2, Zenon DEF Agrees
    <3>6. QED
      BY <2>1, <3>3, <3>4, <3>5
  <2>3. \A e \in 1 .. n : \A k \in e + 1 .. n : k \in e + 1 .. n + 1
    OBVIOUS
  <2>4. \A k \in 1 .. n : k \in 1 .. n + 1
    OBVIOUS
  <2>5. (\A k \in 1 .. n + 1 : news[k].m # m) => g[m] = announced[m]
    BY <2>1, <2>4 DEF NewsInv
  <2>6. ASSUME NEW e \in 1 .. n + 1, news[e].m = m, \A k \in e + 1 .. n + 1 : news[k].m # m
        PROVE  g[m] = news[e].now
    <3>1. e \in 1 .. n
      BY <1>4, <1>6, <2>6
    <3>2. QED
      BY <2>1, <2>3, <2>6, <3>1 DEF NewsInv
  <2>7. Agrees(announced, held, selected, m) \/ (\E k \in 1 .. n + 1 : news[k].m = m) =>
          Agrees(g, merged, selected, m)
    BY <1>4, <1>6, <2>2 DEF NewsInv
  <2>8. QED
    BY <2>5, <2>6, <2>7
<1>7. QED
  BY <1>5, <1>6

\* What the news of a frame leave behind.
LEMMA NewsFact ==
  ASSUME LiveTypes, NEW news \in Seq(Items)
  PROVE  \E f \in Reports, h \in Holdings :
           /\ f = FoldLeft(LAMBDA r, item : [r EXCEPT ![item.m] = item.now], announced, news)
           /\ h = FoldLeft(Merge, held, news)
           /\ NewsInv(news, Len(news), f, h)
<1> DEFINE N == Len(news)
<1>1. announced \in Reports /\ held \in Holdings /\ N \in Nat
  BY DEF LiveTypes, Reports, Holdings, Messages
<1>2. PICK f \in [0 .. N -> Reports] :
         /\ f[0] = announced
         /\ \A i \in 1 .. N : f[i] = Announce(f[i - 1], news[i])
         /\ FoldLeft(LAMBDA r, item : [r EXCEPT ![item.m] = item.now], announced, news) = f[N]
  BY <1>1, AnnounceStages, Zenon
<1>3. PICK h \in [0 .. N -> Holdings] :
         /\ h[0] = held
         /\ \A i \in 1 .. N : h[i] = Merge(h[i - 1], news[i])
         /\ FoldLeft(Merge, held, news) = h[N]
  BY <1>1, MergeStages, Zenon
<1> DEFINE S == {n \in Nat : n <= N => NewsInv(news, n, f[n], h[n])}
<1>4. /\ f[0] = announced /\ \A i \in 1 .. N : f[i] = Announce(f[i - 1], news[i])
      /\ h[0] = held /\ \A i \in 1 .. N : h[i] = Merge(h[i - 1], news[i])
  BY <1>2, <1>3, Zenon
<1>5. 0 \in S
  <2>1. NewsInv(news, 0, f[0], h[0])
    BY <1>4 DEF NewsInv
  <2>2. QED
    BY <2>1
<1>6. ASSUME NEW n \in Nat, n \in S
      PROVE  n + 1 \in S
  <2>1. SUFFICES ASSUME n + 1 <= N PROVE NewsInv(news, n + 1, f[n + 1], h[n + 1])
    OBVIOUS
  <2>2. n + 1 \in 1 .. N /\ n + 1 - 1 = n /\ n \in 0 .. N /\ NewsInv(news, n, f[n], h[n])
    BY <1>6, <2>1
  <2>3. f[n + 1] = Announce(f[n], news[n + 1]) /\ h[n + 1] = Merge(h[n], news[n + 1])
    BY <1>4, <2>2
  <2>4. f[n] \in Reports /\ h[n] \in Holdings
    BY <1>2, <1>3, <2>2
  <2>5. NewsInv(news, n + 1, Announce(f[n], news[n + 1]), Merge(h[n], news[n + 1]))
    BY <2>1, <2>2, <2>4, NewsStep
  <2>6. QED
    BY <2>3, <2>5
<1> HIDE DEF S
<1>7. N \in S
  BY <1>1, <1>5, <1>6, SetInduction
<1>8. NewsInv(news, N, f[N], h[N])
  BY <1>1, <1>7 DEF S
<1>9. N \in 0 .. N
  BY <1>1
<1>10. f[N] \in Reports /\ h[N] \in Holdings
  BY <1>2, <1>3, <1>9
<1>11. QED
  BY <1>2, <1>3, <1>8, <1>10, Zenon

-----------------------------------------------------------------------------
(* The steps                                                               *)

LEMMA LiveStart == LiveInit => LiveInv
<1> SUFFICES ASSUME LiveInit PROVE LiveInv
  OBVIOUS
<1> USE DEF LiveInit
<1>1. Unsent \in States
  BY DEF Unsent, States
<1>2. Messages(<<>>, NoChat)
  BY DEF Messages
<1>3. LiveTypes
  BY <1>1, <1>2, LiveAssumption DEF LiveTypes, NoAnswer
<1>4. Len(seen) <= MaxSeen /\ IsInjective(seen)
  BY LiveAssumption DEF IsInjective
<1>5. DeletedOnce /\ SeenCame /\ StreamInv
  BY DEF DeletedOnce, SeenCame, StreamInv
<1>6. Announced
  BY DEF Announced
<1>7. HeldInv
  BY LiveAssumption DEF HeldInv, Agrees, Chats
<1>8. QED
  BY <1>3, <1>4, <1>5, <1>6, <1>7 DEF LiveInv

\* The last frame gives way to a longer one.
LEMMA ReplaceLast ==
  ASSUME stream \in Seq(Seq(Items)), stream # <<>>, NEW e \in Seq(Items),
         NEW t, t = Front(stream) \o <<e>>
  PROVE  /\ t \in Seq(Seq(Items)) /\ Len(t) = Len(stream)
         /\ t[Len(stream)] = e /\ \A i \in 1 .. Len(stream) - 1 : t[i] = stream[i]
<1> DEFINE S == Seq(Items)
           s == stream
           L == Len(s)
           a == SubSeq(s, 1, L - 1)
           b == <<e>>
<1>1. L \in Nat \ {0} /\ s \in Seq(S) /\ e \in S
  OBVIOUS
<1> HIDE DEF S
<1>2. a \in Seq(S) /\ Len(a) = L - 1 /\ \A i \in 1 .. L - 1 : a[i] = s[i]
  BY <1>1
<1>3. b \in Seq(S) /\ Len(b) = 1 /\ b[1] = e
  BY <1>1
<1>4. t = a \o b
  BY DEF Front
<1> HIDE DEF a, b
<1>5. /\ a \o b \in Seq(S) /\ Len(a \o b) = Len(a) + Len(b)
      /\ \A i \in 1 .. Len(a) + Len(b) : (a \o b)[i] = IF i <= Len(a) THEN a[i] ELSE b[i - Len(a)]
  BY <1>2, <1>3, ConcatProperties
<1>6. Len(a) + Len(b) = L
  BY <1>1, <1>2, <1>3
<1>7. /\ t \in Seq(S) /\ Len(t) = L
      /\ \A i \in 1 .. L : t[i] = IF i <= L - 1 THEN a[i] ELSE b[i - (L - 1)]
  BY <1>2, <1>4, <1>5, <1>6, Zenon
<1>8. L \in 1 .. L /\ ~(L <= L - 1) /\ L - (L - 1) = 1 /\ \A i \in 1 .. L - 1 : i \in 1 .. L /\ i <= L - 1
  BY <1>1
<1> HIDE DEF L
<1>9. t[L] = e /\ \A i \in 1 .. L - 1 : t[i] = s[i]
  <2>1. t[L] = b[L - (L - 1)]
    BY <1>7, <1>8, Zenon
  <2>2. \A i \in 1 .. L - 1 : t[i] = a[i]
    BY <1>7, <1>8, Zenon
  <2>3. QED
    BY <1>2, <1>3, <1>8, <2>1, <2>2, Zenon
<1>10. QED
  BY <1>1, <1>7, <1>9 DEF L, S

\* What is on its way after a change of m: the item about it last, the others where they were.
Pushed(m, now) ==
  LET L == Len(stream')
      n == Len(stream'[L])
  IN  /\ stream' \in Seq(Seq(Items)) /\ L # 0 /\ n # 0
      /\ stream'[L][n].m = m /\ stream'[L][n].now = now
      /\ \A f \in DOMAIN stream : /\ f \in 1 .. L
                                  /\ \A i \in DOMAIN stream[f] : /\ i \in DOMAIN stream'[f]
                                                                 /\ stream'[f][i] = stream[f][i]
      /\ \A f \in 1 .. L : \A i \in DOMAIN stream'[f] :
           \/ f = L /\ i = n
           \/ f \in DOMAIN stream /\ i \in DOMAIN stream[f]

LEMMA PushedFact ==
  ASSUME stream \in Seq(Seq(Items)), NEW m \in LiveMessages, NEW now \in Told, Push(m, now)
  PROVE  Pushed(m, now)
<1>1. PICK readable \in BOOLEAN :
        LET item == [m |-> m, now |-> now, readable |-> readable]
        IN  \/ stream' = Append(stream, <<item>>)
            \/ /\ stream # <<>>
               /\ stream' = Front(stream) \o <<Last(stream) \o <<item>>>>
  BY DEF Push
<1> DEFINE item == [m |-> m, now |-> now, readable |-> readable]
           t == stream'
           L == Len(t)
           n == Len(t[L])
<1>2. item \in Items /\ item.m = m /\ item.now = now
  BY DEF Items
<1> HIDE DEF item
<1>3. ASSUME /\ t \in Seq(Seq(Items)) /\ L # 0 /\ n # 0 /\ t[L][n] = item
             /\ \A f \in DOMAIN stream : f \in 1 .. L /\ (f # L => t[f] = stream[f])
             /\ \A f \in 1 .. L - 1 : f \in DOMAIN stream
             /\ \/ L \notin DOMAIN stream /\ n = 1
                \/ /\ L \in DOMAIN stream /\ n = Len(stream[L]) + 1
                   /\ \A i \in 1 .. n - 1 : t[L][i] = stream[L][i]
      PROVE  Pushed(m, now)
  <2>1. L \in Nat \ {0} /\ n \in Nat \ {0} /\ DOMAIN t[L] = 1 .. n
    BY <1>3
  <2>2. \A f \in 1 .. L : f = L \/ f \in 1 .. L - 1
    BY <2>1
  <2>3. \A i \in 1 .. n : i = n \/ i \in 1 .. n - 1
    BY <2>1
  <2>4. L \in DOMAIN stream => DOMAIN stream[L] = 1 .. n - 1 /\ \A i \in 1 .. n - 1 : i \in 1 .. n
    BY <1>3, <2>1
  <2> HIDE DEF t, L, n
  <2>5. \A f \in DOMAIN stream : \A i \in DOMAIN stream[f] : i \in DOMAIN t[f] /\ t[f][i] = stream[f][i]
    BY <1>3, <2>1, <2>2, <2>4
  <2>6. \A f \in 1 .. L : \A i \in DOMAIN t[f] :
          (f = L /\ i = n) \/ (f \in DOMAIN stream /\ i \in DOMAIN stream[f])
    <3>1. ASSUME NEW i \in 1 .. n, i # n
          PROVE  L \in DOMAIN stream /\ i \in DOMAIN stream[L]
      <4>1. n # 1
        BY <2>1, <3>1
      <4>2. QED
        BY <1>3, <2>3, <2>4, <3>1, <4>1
    <3>2. \A f \in 1 .. L - 1 : f \in DOMAIN stream /\ (f # L => t[f] = stream[f])
      BY <1>3
    <3>3. QED
      BY <2>1, <2>2, <3>1, <3>2
  <2>7. QED
    BY <1>2, <1>3, <2>5, <2>6 DEF Pushed, t, L, n
<1>4. stream \in Seq(Seq(Items)) /\ Len(stream) \in Nat /\ DOMAIN stream = 1 .. Len(stream)
  OBVIOUS
<1>5. CASE t = Append(stream, <<item>>)
  <2>1. <<item>> \in Seq(Items) /\ Len(<<item>>) = 1 /\ <<item>>[1] = item
    BY <1>2
  <2>2. /\ t \in Seq(Seq(Items)) /\ L = Len(stream) + 1
        /\ \A f \in 1 .. Len(stream) : t[f] = stream[f]
        /\ t[Len(stream) + 1] = <<item>>
    BY <1>4, <1>5, <2>1
  <2> HIDE DEF t, L
  <2>3. L # 0 /\ n = 1 /\ t[L][n] = item
    BY <1>4, <2>1, <2>2
  <2>4. /\ \A f \in DOMAIN stream : f \in 1 .. L /\ t[f] = stream[f]
        /\ \A f \in 1 .. L - 1 : f \in DOMAIN stream
        /\ L \notin DOMAIN stream
    BY <1>4, <2>2
  <2>5. QED
    BY <1>3, <2>2, <2>3, <2>4
<1>6. CASE stream # <<>> /\ t = Front(stream) \o <<Last(stream) \o <<item>>>>
  <2> DEFINE P == Last(stream)
             F == P \o <<item>>
             K == Len(stream)
  <2>1. K \in Nat \ {0} /\ P \in Seq(Items) /\ P = stream[K]
    BY <1>4, <1>6 DEF Last
  <2> HIDE DEF P
  <2>2. F \in Seq(Items) /\ Len(F) = Len(P) + 1 /\ Len(P) \in Nat /\ F[Len(P) + 1] = item
        /\ \A i \in 1 .. Len(P) : F[i] = P[i]
    BY <1>2, <2>1
  <2> HIDE DEF F
  <2>3. t = Front(stream) \o <<F>>
    BY <1>6 DEF F, P
  <2> HIDE DEF t
  <2>4. /\ t \in Seq(Seq(Items)) /\ L = K /\ t[K] = F
        /\ \A f \in 1 .. K - 1 : t[f] = stream[f]
    <3>1. /\ t \in Seq(Seq(Items)) /\ Len(t) = Len(stream)
          /\ t[Len(stream)] = F /\ \A f \in 1 .. Len(stream) - 1 : t[f] = stream[f]
      <4> HIDE DEF L, K, n
      <4>1. stream \in Seq(Seq(Items)) /\ stream # <<>> /\ F \in Seq(Items)
        BY <1>4, <1>6, <2>2
      <4>2. t \in Seq(Seq(Items))
        BY <2>3, <4>1, ReplaceLast
      <4>3. Len(t) = Len(stream)
        BY <2>3, <4>1, ReplaceLast
      <4>4. t[Len(stream)] = F
        BY <2>3, <4>1, ReplaceLast
      <4>5. \A f \in 1 .. Len(stream) - 1 : t[f] = stream[f]
        BY <2>3, <4>1, ReplaceLast
      <4>6. QED
        BY <4>2, <4>3, <4>4, <4>5
    <3>2. QED
      BY <3>1
  <2> HIDE DEF L
  <2>5. /\ n = Len(P) + 1 /\ t[L][n] = item /\ n # 0 /\ L # 0 /\ n - 1 = Len(P)
        /\ \A i \in 1 .. n - 1 : t[L][i] = P[i]
    BY <2>1, <2>2, <2>4
  <2>6. /\ \A f \in DOMAIN stream : f \in 1 .. L /\ (f # L => f \in 1 .. K - 1)
        /\ \A f \in 1 .. L - 1 : f \in DOMAIN stream
        /\ L \in DOMAIN stream /\ stream[L] = P
    BY <1>4, <2>1, <2>4
  <2> HIDE DEF n, K
  <2>7. QED
    BY <1>3, <2>4, <2>5, <2>6
<1>7. QED
  BY <1>1, <1>5, <1>6 DEF item

LEMMA PushStep ==
  ASSUME LiveInv, NEW m \in LiveMessages, NEW now \in Told, truth[m].state # "deleted", Push(m, now)
  PROVE  LiveInv'
<1> DEFINE t == stream'
           L == Len(t)
           n == Len(t[L])
<1>1. /\ truth' = [truth EXCEPT ![m] = now]
      /\ UNCHANGED <<last, seen, number, announced, came, missed, selected, held, answer>>
  BY DEF Push, adapting
<1>2. /\ t \in Seq(Seq(Items)) /\ L # 0 /\ n # 0 /\ t[L][n].m = m /\ t[L][n].now = now
      /\ \A f \in DOMAIN stream : /\ f \in 1 .. L
                                  /\ \A i \in DOMAIN stream[f] : i \in DOMAIN t[f] /\ t[f][i] = stream[f][i]
      /\ \A f \in 1 .. L : \A i \in DOMAIN t[f] :
           (f = L /\ i = n) \/ (f \in DOMAIN stream /\ i \in DOMAIN stream[f])
  BY PushedFact DEF Pushed, LiveInv, LiveTypes
<1>3. DOMAIN t = 1 .. L /\ L \in 1 .. L /\ DOMAIN t[L] = 1 .. n /\ n \in 1 .. n
  BY <1>2
<1> HIDE DEF t, L, n
<1>4. truth \in [LiveMessages -> States] /\ now \in States
  BY DEF LiveInv, LiveTypes, Told
<1>5. LiveTypes'
  <2>1. truth' \in [LiveMessages -> States] /\ stream' \in Seq(Seq(Items))
    BY <1>1, <1>2, <1>4 DEF t
  <2>2. QED
    BY <1>1, <2>1 DEF LiveInv, LiveTypes, Messages, Chats
<1>6. \A k \in LiveMessages : truth'[k] = IF k = m THEN now ELSE truth[k]
  BY <1>1, <1>4
<1>7. DeletedOnce'
  <2>1. \A f \in DOMAIN t : \A i \in DOMAIN t[f] :
          t[f][i].m \in LiveMessages /\ (t[f][i].now.state = "deleted" => t[f][i].now = truth'[t[f][i].m])
    <3>1. SUFFICES ASSUME NEW f \in DOMAIN t, NEW i \in DOMAIN t[f]
                   PROVE  /\ t[f][i].m \in LiveMessages
                          /\ t[f][i].now.state = "deleted" => t[f][i].now = truth'[t[f][i].m]
      OBVIOUS
    <3>2. CASE f = L /\ i = n
      BY <1>2, <1>6, <3>2
    <3>3. CASE f \in DOMAIN stream /\ i \in DOMAIN stream[f]
      <4>1. t[f][i] = stream[f][i] /\ t[f][i] \in Items
        BY <1>2, <3>3 DEF LiveInv, LiveTypes
      <4>2. t[f][i].now.state = "deleted" => t[f][i].now = truth[t[f][i].m]
        BY <3>3, <4>1 DEF LiveInv, DeletedOnce
      <4>3. t[f][i].m \in LiveMessages
        BY <4>1 DEF Items
      <4>4. QED
        BY <1>6, <4>2, <4>3
    <3>4. QED
      BY <1>2, <1>3, <3>2, <3>3
  <2>2. \A i \in DOMAIN last : last[i].now.state = "deleted" => last[i].now = truth'[last[i].m]
    <3>1. \A i \in DOMAIN last : last[i].m \in LiveMessages
      <4>1. \A i \in DOMAIN last : last[i] \in Items
        BY DEF LiveInv, LiveTypes
      <4>2. QED
        BY <4>1 DEF Items
    <3>2. QED
      BY <1>6, <3>1 DEF LiveInv, DeletedOnce
  <2>3. \A c \in came : c[2].state = "deleted" => c[2] = truth'[c[1]]
    <3>1. \A c \in came : c[1] \in LiveMessages
      BY DEF LiveInv, LiveTypes
    <3>2. QED
      BY <1>6, <3>1 DEF LiveInv, DeletedOnce
  <2>4. QED
    BY <1>1, <2>1, <2>2, <2>3 DEF DeletedOnce, t
<1>8. StreamInv'
  <2>1. ASSUME NEW f \in DOMAIN t, NEW i \in DOMAIN t[f], LastOf(t[f], i, t[f][i].m),
               \A g \in DOMAIN t : g > f => ~About(t[g], t[f][i].m)
        PROVE  t[f][i].now = truth'[t[f][i].m]
    <3>1. CASE f = L /\ i = n
      BY <1>2, <1>6, <3>1
    <3>2. CASE ~(f = L /\ i = n)
      <4>1. f \in DOMAIN stream /\ i \in DOMAIN stream[f] /\ t[f][i] = stream[f][i]
        BY <1>2, <1>3, <3>2
      <4>2. t[f][i].m # m
        <5>1. CASE f = L
          <6>1. i \in 1 .. n /\ n > i
            BY <1>3, <3>2, <5>1
          <6>2. QED
            BY <1>2, <1>3, <2>1, <5>1, <6>1 DEF LastOf
        <5>2. CASE f # L
          <6>1. L > f
            BY <1>3, <5>2
          <6>2. QED
            BY <1>2, <1>3, <2>1, <6>1 DEF About
        <5>3. QED
          BY <5>1, <5>2
      <4>3. LastOf(stream[f], i, t[f][i].m)
        BY <1>2, <2>1, <4>1 DEF LastOf
      <4>4. \A g \in DOMAIN stream : g > f => ~About(stream[g], t[f][i].m)
        BY <1>2, <1>3, <2>1 DEF About
      <4>5. stream[f][i].now = truth[t[f][i].m]
        BY <4>1, <4>3, <4>4 DEF LiveInv, StreamInv
      <4>6. t[f][i].m \in LiveMessages
        <5>1. stream[f][i] \in Items
          BY <4>1 DEF LiveInv, LiveTypes
        <5>2. QED
          BY <4>1, <5>1 DEF Items
      <4>7. QED
        BY <1>6, <4>1, <4>2, <4>5, <4>6
    <3>3. QED
      BY <3>1, <3>2
  <2>2. t # <<>>
    BY <1>3
  <2>3. QED
    BY <2>1, <2>2 DEF StreamInv, t
<1>9. Announced'
  <2>1. ASSUME NEW k \in LiveMessages \ missed, ~(\E f \in DOMAIN t : About(t[f], k))
        PROVE  announced[k] = truth'[k]
    <3>1. k # m
      BY <1>2, <1>3, <2>1 DEF About
    <3>2. ~Pending(k)
      BY <1>2, <1>3, <2>1 DEF About, Pending
    <3>3. QED
      BY <1>6, <2>1, <3>1, <3>2 DEF LiveInv, Announced
  <2>2. QED
    BY <1>1, <2>1 DEF Announced, Pending, t
<1>10. Len(seen)' <= MaxSeen /\ IsInjective(seen)' /\ SeenCame' /\ HeldInv'
  BY <1>1 DEF LiveInv, SeenCame, HeldInv, Agrees, Of
<1>11. QED
  BY <1>5, <1>7, <1>8, <1>9, <1>10 DEF LiveInv

LEMMA RepeatStep == LiveInv /\ Repeat => LiveInv'
<1> SUFFICES ASSUME LiveInv, Repeat PROVE LiveInv'
  OBVIOUS
<1>1. /\ stream = <<>> /\ stream' = <<last>>
      /\ UNCHANGED <<truth, last, seen, number, announced, came, missed, selected, held, answer>>
  BY DEF Repeat, adapting
<1>2. last \in Seq(Items)
  BY DEF LiveInv, LiveTypes
<1>3. stream' \in Seq(Seq(Items)) /\ DOMAIN stream' = {1} /\ stream'[1] = last /\ stream' # <<>>
  BY <1>1, <1>2
<1>4. LiveTypes'
  BY <1>1, <1>3 DEF LiveInv, LiveTypes, Messages, Chats
<1>5. DeletedOnce'
  BY <1>1, <1>3 DEF LiveInv, DeletedOnce
<1>6. StreamInv'
  BY <1>1, <1>3 DEF LiveInv, StreamInv
<1>7. Announced'
  BY <1>1 DEF LiveInv, Announced, Pending
<1>8. Len(seen)' <= MaxSeen /\ IsInjective(seen)' /\ SeenCame' /\ HeldInv'
  BY <1>1 DEF LiveInv, SeenCame, HeldInv, Agrees, Of
<1>9. QED
  BY <1>4, <1>5, <1>6, <1>7, <1>8 DEF LiveInv

\* What the worker keeps of the open chat may change by itself.
LEMMA OpenStep ==
  ASSUME LiveInv, UNCHANGED <<truth, stream, last, seen, number, announced, came>>,
         (/\ missed \subseteq LiveMessages
          /\ selected \in Chats \cup {NoChat} /\ Messages(held, selected) /\ Len(held) <= MaxOpen
          /\ answer.chat \in Chats \cup {NoChat} /\ Messages(answer.messages, answer.chat))',
         missed \subseteq missed', HeldInv'
  PROVE  LiveInv'
<1>1. LiveTypes'
  BY DEF LiveInv, LiveTypes, Messages, Chats
<1>2. (Len(seen) <= MaxSeen /\ IsInjective(seen) /\ DeletedOnce /\ SeenCame /\ StreamInv)'
  BY DEF LiveInv, DeletedOnce, SeenCame, StreamInv
<1>3. Announced'
  BY DEF LiveInv, Announced, Pending
<1>4. QED
  BY <1>1, <1>2, <1>3 DEF LiveInv

LEMMA LeaveStep == LiveInv /\ LeaveChat => LiveInv'
<1> SUFFICES ASSUME LiveInv, LeaveChat PROVE LiveInv'
  OBVIOUS
<1>1. /\ selected' = NoChat /\ held' = <<>>
      /\ UNCHANGED <<truth, stream, last, seen, number, announced, came, missed, answer>>
  BY DEF LeaveChat, adapting
<1>2. HeldInv'
  <2>1. \A m \in LiveMessages : ChatOf[m] # NoChat
    BY LiveAssumption
  <2>2. QED
    BY <1>1, <2>1 DEF HeldInv, Agrees
<1>3. Messages(<<>>, NoChat) /\ Len(<<>>) <= MaxOpen
  BY LiveAssumption DEF Messages
<1>4. (/\ missed \subseteq LiveMessages
       /\ selected \in Chats \cup {NoChat} /\ Messages(held, selected) /\ Len(held) <= MaxOpen
       /\ answer.chat \in Chats \cup {NoChat} /\ Messages(answer.messages, answer.chat))'
  BY <1>1, <1>3 DEF LiveInv, LiveTypes, Messages, Chats
<1>5. QED
  BY <1>1, <1>2, <1>4, OpenStep

LEMMA HistoryStep ==
  ASSUME LiveInv, NEW c \in Chats, HistoryAnswered(c)
  PROVE  LiveInv'
<1> DEFINE there == {m \in LiveMessages : ChatOf[m] = c /\ truth[m].state = "sent"}
           N == Cardinality(there)
           order == SetToSeq(there)
<1>1. /\ answer' = [chat |-> c, messages |-> [i \in 1 .. N |-> [m |-> order[i], now |-> truth[order[i]]]]]
      /\ UNCHANGED <<truth, stream, last, seen, number, announced, came, missed, selected, held>>
  BY DEF HistoryAnswered, adapting
<1>2. N \in Nat /\ order \in [1 .. N -> there] /\ \A i, j \in 1 .. N : i # j => order[i] # order[j]
  <2>1. IsFiniteSet(there)
    <3>1. there \subseteq LiveMessages
      OBVIOUS
    <3>2. QED
      BY <3>1, LiveAssumption, FS_Subset
  <2> HIDE DEF there
  <2>2. N \in Nat /\ ExistsBijection(1 .. N, there)
    BY <2>1, FS_CardinalityType
  <2>3. \E f \in [1 .. N -> there] : IsInjective(f)
    BY <2>2 DEF ExistsBijection, Bijection, Injection, IsInjective
  <2>4. order \in [1 .. N -> there] /\ IsInjective(order)
    BY <2>3 DEF SetToSeq
  <2>5. QED
    BY <2>2, <2>4 DEF IsInjective
<1> HIDE DEF N, order
<1>3. Messages(answer'.messages, c)
  <2> DEFINE s == answer'.messages
  <2>1. s = [i \in 1 .. N |-> [m |-> order[i], now |-> truth[order[i]]]]
    BY <1>1
  <2> HIDE DEF s
  <2>2. \A i \in 1 .. N : s[i] \in Entries /\ s[i].m = order[i] /\ ChatOf[s[i].m] = c
    <3>1. \A m \in there : truth[m] \in States
      BY DEF LiveInv, LiveTypes
    <3>2. \A i \in 1 .. N : order[i] \in there
      BY <1>2
    <3>3. QED
      BY <2>1, <3>1, <3>2 DEF Entries
  <2>3. s \in Seq(Entries) /\ DOMAIN s = 1 .. N
    <3>1. s \in [1 .. N -> Entries]
      BY <2>1, <2>2
    <3>2. QED
      BY <1>2, <2>1, <3>1
  <2>4. QED
    BY <1>2, <2>2, <2>3 DEF Messages, s
<1>4. (/\ missed \subseteq LiveMessages
       /\ selected \in Chats \cup {NoChat} /\ Messages(held, selected) /\ Len(held) <= MaxOpen
       /\ answer.chat \in Chats \cup {NoChat} /\ Messages(answer.messages, answer.chat))'
  <2>1. answer'.chat = c
    BY <1>1
  <2>2. (/\ missed \subseteq LiveMessages
         /\ selected \in Chats \cup {NoChat} /\ Messages(held, selected) /\ Len(held) <= MaxOpen)'
    BY <1>1 DEF LiveInv, LiveTypes, Messages, Chats
  <2>3. Messages(answer.messages, answer.chat)'
    BY <1>3, <2>1 DEF Messages
  <2>4. QED
    BY <2>1, <2>2, <2>3 DEF Chats
<1>5. HeldInv'
  BY <1>1 DEF LiveInv, HeldInv, Agrees, Of
<1>6. QED
  BY <1>1, <1>4, <1>5, OpenStep

LEMMA ReplaceStep == LiveInv /\ ReplaceOpenHistory => LiveInv'
<1> SUFFICES ASSUME LiveInv, ReplaceOpenHistory PROVE LiveInv'
  OBVIOUS
<1> DEFINE s == answer.messages
           c == answer.chat
           newer == SubSeq(s, Len(s) - MaxOpen + 1, Len(s))
<1>1. /\ selected' = c /\ answer' = NoAnswer
      /\ held' = IF Len(s) > MaxOpen THEN newer ELSE s
      /\ missed' = missed \cup {m \in LiveMessages : /\ ChatOf[m] = c
                    /\ announced[m].state # "unsent"
                    /\ ~Contains(s, [m |-> m, now |-> announced[m]])
                    /\ ~(announced[m].state = "deleted" /\ \A i \in DOMAIN s : s[i].m # m)}
      /\ UNCHANGED <<truth, stream, last, seen, number, announced, came>>
  BY DEF ReplaceOpenHistory
<1>2. /\ Messages(s, c) /\ c \in Chats \cup {NoChat} /\ s \in Seq(Entries) /\ Len(s) \in Nat
      /\ DOMAIN s = 1 .. Len(s) /\ MaxOpen \in Nat \ {0}
  BY LiveAssumption DEF LiveInv, LiveTypes, Messages
<1>3. Messages(held', c) /\ Len(held') <= MaxOpen
  <2>1. CASE Len(s) > MaxOpen
    <3> DEFINE K == Len(s) - MaxOpen
    <3>1. K \in Nat /\ Len(s) - K = MaxOpen /\ \A i \in 1 .. MaxOpen : K + i \in 1 .. Len(s)
      BY <1>2, <2>1
    <3>2. /\ newer \in Seq(Entries) /\ Len(newer) = MaxOpen /\ DOMAIN newer = 1 .. MaxOpen
          /\ \A i \in 1 .. MaxOpen : newer[i] = s[K + i]
      BY <1>2, <2>1
    <3> HIDE DEF newer, K
    <3>3. /\ \A i \in 1 .. Len(s) : ChatOf[s[i].m] = c
          /\ \A i, j \in 1 .. Len(s) : i # j => s[i].m # s[j].m
      BY <1>2 DEF Messages
    <3> DEFINE at(i) == K + i
    <3>4. /\ \A i \in 1 .. MaxOpen : at(i) \in 1 .. Len(s) /\ newer[i] = s[at(i)]
          /\ \A i, j \in 1 .. MaxOpen : i # j => at(i) # at(j)
      BY <3>1, <3>2
    <3> HIDE DEF at
    <3>5. \A i \in 1 .. MaxOpen : ChatOf[newer[i].m] = c
      BY <3>3, <3>4
    <3>6. \A i, j \in 1 .. MaxOpen : i # j => newer[i].m # newer[j].m
      BY <3>3, <3>4
    <3>7. Messages(newer, c)
      BY <3>2, <3>5, <3>6 DEF Messages
    <3>8. held' = newer
      BY <1>1, <2>1
    <3>9. QED
      BY <1>2, <3>2, <3>7, <3>8
  <2>2. CASE ~(Len(s) > MaxOpen)
    BY <1>1, <1>2, <2>2
  <2>3. QED
    BY <2>1, <2>2
<1>4. (/\ missed \subseteq LiveMessages
       /\ selected \in Chats \cup {NoChat} /\ Messages(held, selected) /\ Len(held) <= MaxOpen
       /\ answer.chat \in Chats \cup {NoChat} /\ Messages(answer.messages, answer.chat))'
  <2>1. missed' \subseteq LiveMessages
    BY <1>1 DEF LiveInv, LiveTypes
  <2>2. (Messages(held, selected) /\ Len(held) <= MaxOpen)'
    BY <1>1, <1>3 DEF Messages
  <2>3. (answer.chat \in Chats \cup {NoChat} /\ Messages(answer.messages, answer.chat))'
    BY <1>1 DEF NoAnswer, Messages
  <2>4. selected' \in Chats \cup {NoChat}
    BY <1>1, <1>2
  <2>5. QED
    BY <2>1, <2>2, <2>3, <2>4 DEF Chats
<1>5. HeldInv'
  <2>1. SUFFICES ASSUME NEW m \in LiveMessages \ missed', ChatOf[m] = c, Cardinality(Of(c)) <= MaxOpen
                 PROVE  announced[m].state = "sent" <=> Contains(s, [m |-> m, now |-> announced[m]])
    <3>1. SUFFICES ASSUME NEW m \in LiveMessages \ missed', ChatOf[m] = c, Cardinality(Of(c)) <= MaxOpen
                   PROVE  announced[m].state = "sent" <=> Contains(held', [m |-> m, now |-> announced[m]])
      BY <1>1 DEF HeldInv, Agrees, Of
    <3>2. Len(s) <= Cardinality(Of(c)) /\ Cardinality(Of(c)) \in Nat
      BY <1>2, Filled
    <3>3. held' = s
      BY <1>1, <1>2, <3>1, <3>2
    <3>4. QED
      BY <2>1, <3>1, <3>3
  <2> DEFINE entry == [m |-> m, now |-> announced[m]]
  <2>2. Contains(s, entry) => announced[m].state = "sent"
    <3>1. SUFFICES ASSUME Contains(s, entry) PROVE announced[m].state = "sent"
      OBVIOUS
    <3>2. PICK i \in 1 .. Len(s) : s[i] = entry
      BY <3>1 DEF Contains
    <3>3. entry \in Entries
      BY <1>2, <3>2
    <3>4. QED
      BY <3>3 DEF Entries
  <2>3. announced[m].state = "sent" => Contains(s, entry)
    BY <1>1, <2>1
  <2>4. QED
    BY <2>2, <2>3
<1>6. QED
  BY <1>1, <1>4, <1>5, OpenStep

\* Of the items of a frame about m, one is the last.
LEMMA LastExists ==
  ASSUME NEW frame \in Seq(Items), NEW m, About(frame, m)
  PROVE  \E j \in DOMAIN frame : LastOf(frame, j, m)
<1> DEFINE s == {i \in 1 .. Len(frame) : frame[i].m = m}
           j == Max(s)
<1>1. Len(frame) \in Nat /\ DOMAIN frame = 1 .. Len(frame)
  OBVIOUS
<1>2. s \subseteq 1 .. Len(frame) /\ s # {}
  BY <1>1 DEF About
<1>3. j \in s /\ \A i \in s : j >= i
  <2> HIDE DEF s
  <2>1. QED
    BY <1>1, <1>2, MaxFact
<1> HIDE DEF j
<1>4. \A i \in DOMAIN frame : i > j => frame[i].m # m
  BY <1>1, <1>3
<1>5. QED
  BY <1>1, <1>3, <1>4 DEF LastOf

\* A message whose last item has not come before, nor in the same frame, is new to the adapter.
LEMMA UnseenFact ==
  ASSUME LiveInv, stream # <<>>, NEW j \in DOMAIN stream[1],
         stream[1][j].now = truth[stream[1][j].m],
         <<stream[1][j].m, stream[1][j].now>> \notin came,
         ~ \E k \in 1 .. j - 1 : /\ stream[1][k].m = stream[1][j].m
                                 /\ stream[1][k].now = stream[1][j].now
  PROVE  Unseen(stream[1], j)
<1> DEFINE frame == stream[1]
           item == frame[j]
<1>1. 1 \in DOMAIN stream /\ frame \in Seq(Items)
  BY DEF LiveInv, LiveTypes
<1>2. \A k \in DOMAIN frame : frame[k] \in Items
  BY <1>1
<1>3. \A other \in Items : /\ other.m \in LiveMessages /\ other.now \in Told
                           /\ Identity(other) = IdentityOf(other.m, other.now)
  BY IdentityFact DEF Items
<1>4. ASSUME Contains(seen, Identity(item))
      PROVE  FALSE
  <2>1. PICK i \in DOMAIN seen : seen[i] = Identity(item)
    BY <1>4 DEF Contains, LiveInv, LiveTypes
  <2>2. PICK c \in came : seen[i] = IdentityOf(c[1], c[2])
    BY DEF LiveInv, SeenCame
  <2>3. c[1] \in LiveMessages /\ c[2] \in Told /\ c = <<c[1], c[2]>>
    BY DEF LiveInv, LiveTypes
  <2>4. IdentityOf(item.m, item.now) = IdentityOf(c[1], c[2])
    BY <1>2, <1>3, <2>1, <2>2
  <2>5. item.m = c[1] /\ (item.now = c[2] \/ (item.now.state = "deleted" /\ c[2].state = "deleted"))
    BY <1>2, <1>3, <2>3, <2>4, IdentityFact
  <2>6. c[2].state = "deleted" => c[2] = truth[c[1]]
    BY DEF LiveInv, DeletedOnce
  <2>7. item.now = c[2]
    BY <2>5, <2>6
  <2>8. QED
    BY <2>3, <2>5, <2>7
<1>5. ASSUME NEW k \in 1 .. j - 1, Identity(frame[k]) = Identity(item)
      PROVE  FALSE
  <2>1. k \in DOMAIN frame
    BY <1>1
  <2>2. IdentityOf(frame[k].m, frame[k].now) = IdentityOf(item.m, item.now)
    BY <1>2, <1>3, <1>5, <2>1
  <2>3. frame[k].m = item.m
        /\ (frame[k].now = item.now \/ (frame[k].now.state = "deleted" /\ item.now.state = "deleted"))
    BY <1>2, <1>3, <2>1, <2>2, IdentityFact
  <2>4. frame[k].now.state = "deleted" => frame[k].now = truth[frame[k].m]
    BY <1>1, <2>1 DEF LiveInv, DeletedOnce
  <2>5. QED
    BY <2>3, <2>4
<1>6. QED
  BY <1>4, <1>5 DEF Unseen

LEMMA IngestStep == LiveInv /\ Ingest => LiveInv'
<1> SUFFICES ASSUME LiveInv, Ingest PROVE LiveInv'
  OBVIOUS
<1> DEFINE frame == stream[1]
           adapted == Adapt(frame)
           news == IF adapted.broken THEN <<>> ELSE adapted.events
           about == {news[i].m : i \in DOMAIN news}
           passed == {j \in DOMAIN frame :
                        /\ \/ adapted.broken \/ <<frame[j].m, frame[j].now>> \in came
                           \/ \E k \in 1..j-1 : frame[k].m = frame[j].m /\ frame[k].now = frame[j].now
                        /\ frame[j].now # announced'[frame[j].m]}
           told == FoldLeft(LAMBDA r, item : [r EXCEPT ![item.m] = item.now], announced, news)
           merged == FoldLeft(Merge, held, news)
<1>1. Head(stream) = frame /\ stream # <<>>
  <2>1. stream # <<>>
    BY Zenon DEF Ingest
  <2>2. QED
    BY <2>1 DEF LiveInv, LiveTypes
<1>2. /\ stream # <<>> /\ stream' = Tail(stream) /\ last' = frame
      /\ seen' = adapted.seen /\ number' = number + Len(adapted.events)
      /\ announced' = told /\ held' = merged
      /\ came' = came \cup {<<frame[i].m, frame[i].now>> : i \in DOMAIN frame}
      /\ missed' = (missed \ about) \cup {frame[i].m : i \in passed}
      /\ UNCHANGED <<truth, selected, answer>>
  BY <1>1, Zenon DEF Ingest
<1>3. LiveTypes /\ Len(seen) <= MaxSeen /\ IsInjective(seen)
  BY DEF LiveInv
<1>4. stream \in Seq(Seq(Items)) /\ 1 \in DOMAIN stream /\ frame \in Seq(Items)
  BY <1>1, <1>3 DEF LiveTypes
<1>5. adapted \in Accs /\ AdaptInv(frame, Len(frame), adapted)
  BY <1>3, <1>4, AdaptFact
<1> HIDE DEF adapted
<1>6. news \in Seq(Items)
  BY <1>5 DEF Accs
<1>7. PICK f \in Reports, h \in Holdings : f = told /\ h = merged /\ NewsInv(news, Len(news), f, h)
  BY <1>3, <1>6, NewsFact, Zenon
<1> HIDE DEF told, merged
<1>8. announced' = f /\ held' = h
  BY <1>2, <1>7
<1>9. \A i \in DOMAIN frame : frame[i] \in Items /\ frame[i].m \in LiveMessages /\ frame[i].now \in Told
  <2>1. \A i \in DOMAIN frame : frame[i] \in Items
    BY <1>4
  <2>2. QED
    BY <2>1 DEF Items
<1>10. Len(frame) \in Nat /\ DOMAIN frame = 1 .. Len(frame) /\ Len(news) \in Nat
       /\ DOMAIN news = 1 .. Len(news)
  BY <1>4, <1>6
<1>11. /\ Len(stream') = Len(stream) - 1 /\ Len(stream) \in Nat \ {0} /\ stream' \in Seq(Seq(Items))
       /\ \A g \in DOMAIN stream' : g + 1 \in DOMAIN stream /\ stream'[g] = stream[g + 1]
       /\ \A g \in DOMAIN stream : g = 1 \/ (g - 1 \in DOMAIN stream' /\ stream'[g - 1] = stream[g])
  BY <1>2, <1>4
<1>12. \A i \in DOMAIN news : \E k \in DOMAIN frame : news[i] = frame[k]
  <2>1. \A i \in DOMAIN adapted.events : \E k \in 1 .. Len(frame) : adapted.events[i] = frame[k]
    BY <1>5 DEF AdaptInv
  <2>2. QED
    BY <1>10, <2>1
<1> HIDE DEF news
<1>13. LiveTypes'
  <2>1. announced' \in [LiveMessages -> States]
    BY <1>8 DEF Reports
  <2>2. seen' \in Seq(Identities) /\ number' \in Nat /\ Len(adapted.events) \in Nat
    BY <1>2, <1>3, <1>5 DEF Accs, LiveTypes
  <2>3. (Messages(held, selected) /\ Len(held) <= MaxOpen)'
    BY <1>2, <1>8 DEF Holdings, Messages
  <2>4. came' \subseteq LiveMessages \X Told
    BY <1>2, <1>3, <1>9 DEF LiveTypes
  <2>5. missed' \subseteq LiveMessages
    BY <1>2, <1>3, <1>9 DEF LiveTypes
  <2>6. (answer.chat \in Chats \cup {NoChat} /\ Messages(answer.messages, answer.chat))'
    BY <1>2, <1>3 DEF LiveTypes, Messages, Chats
  <2>7. (selected \in Chats \cup {NoChat})'
    BY <1>2, <1>3 DEF LiveTypes, Chats
  <2>8. truth' \in [LiveMessages -> States] /\ last' \in Seq(Items)
    BY <1>2, <1>3, <1>4 DEF LiveTypes
  <2>9. QED
    BY <1>11, <2>1, <2>2, <2>3, <2>4, <2>5, <2>6, <2>7, <2>8 DEF LiveTypes
<1>14. Len(seen)' <= MaxSeen /\ IsInjective(seen)'
  BY <1>2, <1>5 DEF AdaptInv
<1>15. DeletedOnce'
  <2>1. \A g \in DOMAIN stream' : \A i \in DOMAIN stream'[g] :
          stream'[g][i].now.state = "deleted" => stream'[g][i].now = truth[stream'[g][i].m]
    BY <1>11 DEF LiveInv, DeletedOnce
  <2>2. \A i \in DOMAIN frame : frame[i].now.state = "deleted" => frame[i].now = truth[frame[i].m]
    BY <1>4 DEF LiveInv, DeletedOnce
  <2>3. \A c \in came' : c[2].state = "deleted" => c[2] = truth[c[1]]
    BY <1>2, <2>2 DEF LiveInv, DeletedOnce
  <2>4. QED
    BY <1>2, <2>1, <2>2, <2>3 DEF DeletedOnce
<1>16. SeenCame'
  <2>1. SUFFICES ASSUME NEW i \in DOMAIN adapted.seen
                 PROVE  \E c \in came' : adapted.seen[i] = IdentityOf(c[1], c[2])
    BY <1>2 DEF SeenCame, IdentityOf, Identity
  <2>2. CASE Contains(seen, adapted.seen[i])
    <3>1. PICK k \in DOMAIN seen : seen[k] = adapted.seen[i]
      BY <1>3, <2>2 DEF Contains, LiveTypes
    <3>2. QED
      BY <1>2, <3>1 DEF LiveInv, SeenCame
  <2>3. ASSUME NEW k \in 1 .. Len(frame), adapted.seen[i] = Identity(frame[k])
        PROVE  \E c \in came' : adapted.seen[i] = IdentityOf(c[1], c[2])
    <3> DEFINE c == <<frame[k].m, frame[k].now>>
    <3>1. c \in came'
      BY <1>2, <1>10
    <3>2. adapted.seen[i] = IdentityOf(frame[k].m, frame[k].now)
      BY <1>9, <1>10, <2>3, IdentityFact
    <3>3. QED
      BY <3>1, <3>2
  <2>4. QED
    BY <1>5, <2>2, <2>3 DEF AdaptInv
<1>17. StreamInv'
  <2>1. ASSUME NEW g \in DOMAIN stream', NEW i \in DOMAIN stream'[g],
               LastOf(stream'[g], i, stream'[g][i].m),
               \A k \in DOMAIN stream' : k > g => ~About(stream'[k], stream'[g][i].m)
        PROVE  stream'[g][i].now = truth[stream'[g][i].m]
    <3>1. \A k \in DOMAIN stream : k > g + 1 => ~About(stream[k], stream'[g][i].m)
      <4>1. SUFFICES ASSUME NEW k \in DOMAIN stream, k > g + 1
                     PROVE  ~About(stream[k], stream'[g][i].m)
        OBVIOUS
      <4>2. k - 1 \in DOMAIN stream' /\ k - 1 > g /\ stream'[k - 1] = stream[k]
        BY <1>11, <2>1, <4>1
      <4>3. QED
        BY <2>1, <4>2
    <3>2. g + 1 \in DOMAIN stream /\ stream'[g] = stream[g + 1]
      BY <1>11
    <3>3. QED
      BY <2>1, <3>1, <3>2 DEF LiveInv, StreamInv
  <2>2. ASSUME stream' = <<>>, NEW i \in DOMAIN frame, LastOf(frame, i, frame[i].m)
        PROVE  frame[i].now = truth[frame[i].m]
    <3>1. \A k \in DOMAIN stream : ~(k > 1)
      BY <1>11, <2>2
    <3>2. QED
      BY <1>4, <2>2, <3>1 DEF LiveInv, StreamInv
  <2>3. QED
    BY <1>2, <2>1, <2>2 DEF StreamInv
<1>18. Announced'
  <2>1. SUFFICES ASSUME NEW m \in LiveMessages \ missed', ~Pending(m)' PROVE f[m] = truth[m]
    BY <1>2, <1>8 DEF Announced
  <2>2. \A g \in DOMAIN stream : g # 1 => ~About(stream[g], m)
    BY <1>11, <2>1 DEF Pending, About
  <2>3. CASE ~About(frame, m)
    <3>1. ~Pending(m)
      BY <2>2, <2>3 DEF Pending
    <3>2. \A k \in 1 .. Len(news) : news[k].m # m
      BY <1>10, <1>12, <2>3 DEF About
    <3>3. m \notin missed
      BY <1>2, <1>10, <2>1, <3>2
    <3>4. f[m] = announced[m]
      BY <1>7, <3>2 DEF NewsInv
    <3>5. QED
      BY <2>1, <3>1, <3>3, <3>4 DEF LiveInv, Announced
  <2>4. CASE About(frame, m)
    <3>1. PICK j \in DOMAIN frame : LastOf(frame, j, m)
      BY <1>4, <2>4, LastExists
    <3>2. frame[j].m = m /\ frame[j].now = truth[m]
      <4>1. frame[j].m = m
        BY <3>1 DEF LastOf
      <4>2. \A g \in DOMAIN stream : g > 1 => ~About(stream[g], m)
        BY <2>2
      <4>3. QED
        BY <1>4, <3>1, <4>1, <4>2 DEF LiveInv, StreamInv
    <3>3. SUFFICES ASSUME f[m] # truth[m] PROVE FALSE
      OBVIOUS
    <3>4. j \notin passed
      BY <1>2, <2>1, <3>2
    <3>5. /\ ~adapted.broken /\ <<frame[j].m, frame[j].now>> \notin came
          /\ ~ \E k \in 1 .. j - 1 : frame[k].m = frame[j].m /\ frame[k].now = frame[j].now
      BY <1>8, <3>2, <3>3, <3>4
    <3>6. Unseen(frame, j)
      BY <1>2, <3>2, <3>5, UnseenFact
    <3>7. \A k \in j + 1 .. Len(frame) : frame[k].m # frame[j].m
      BY <1>10, <3>1, <3>2 DEF LastOf
    <3>8. PICK e \in DOMAIN adapted.events :
            adapted.events[e] = frame[j] /\ LastOf(adapted.events, e, frame[j].m)
      BY <1>5, <1>10, <3>5, <3>6, <3>7 DEF AdaptInv
    <3>9. news = adapted.events
      BY <3>5 DEF news
    <3>10. e \in 1 .. Len(news) /\ news[e].m = m /\ \A k \in e + 1 .. Len(news) : news[k].m # m
      BY <1>10, <3>2, <3>8, <3>9 DEF LastOf
    <3>11. f[m] = news[e].now
      BY <1>7, <3>10 DEF NewsInv
    <3>12. QED
      BY <3>2, <3>3, <3>8, <3>9, <3>11
  <2>5. QED
    BY <2>3, <2>4
<1>19. HeldInv'
  <2>1. SUFFICES ASSUME NEW m \in LiveMessages \ missed' PROVE Agrees(f, h, selected, m)
    BY <1>2, <1>8 DEF HeldInv, Agrees, Of
  <2>2. CASE m \in about
    BY <1>7, <1>10, <2>2 DEF NewsInv
  <2>3. CASE m \notin about
    <3>1. m \notin missed
      BY <1>2, <2>1, <2>3
    <3>2. Agrees(announced, held, selected, m)
      BY <2>1, <3>1 DEF LiveInv, HeldInv
    <3>3. QED
      BY <1>7, <3>2 DEF NewsInv
  <2>4. QED
    BY <2>2, <2>3
<1>20. QED
  BY <1>13, <1>14, <1>15, <1>16, <1>17, <1>18, <1>19 DEF LiveInv

LEMMA LiveStep == LiveInv /\ [LiveNext]_liveVars => LiveInv'
<1> SUFFICES ASSUME LiveInv, [LiveNext]_liveVars PROVE LiveInv'
  OBVIOUS
<1> USE DEF LiveNext
<1>1. ASSUME NEW m \in LiveMessages, Post(m) \/ Edit(m) \/ React(m) \/ Delete(m)
      PROVE  LiveInv'
  <2>1. truth[m] \in States
    BY DEF LiveInv, LiveTypes
  <2>2. PICK now : Push(m, now) /\ now \in Told /\ truth[m].state # "deleted"
    <3>1. CASE Post(m)
      <4>1. [Unsent EXCEPT !.state = "sent"] \in Told
        BY DEF Unsent, Told, States
      <4>2. QED
        BY <3>1, <4>1 DEF Post
    <3>2. CASE Edit(m)
      <4>1. truth[m].state = "sent" => [truth[m] EXCEPT !.edits = @ + 1] \in Told
        BY <2>1 DEF Told, States
      <4>2. QED
        BY <3>2, <4>1 DEF Edit
    <3>3. CASE React(m)
      <4>1. truth[m].state = "sent" => [truth[m] EXCEPT !.reacted = ~@] \in Told
        BY <2>1 DEF Told, States
      <4>2. QED
        BY <3>3, <4>1 DEF React
    <3>4. CASE Delete(m)
      <4>1. [truth[m] EXCEPT !.state = "deleted"] \in Told
        BY <2>1 DEF Told, States
      <4>2. QED
        BY <3>4, <4>1 DEF Delete
    <3>5. QED
      BY <1>1, <3>1, <3>2, <3>3, <3>4
  <2>3. QED
    BY <2>2, PushStep
<1>2. CASE Repeat
  BY <1>2, RepeatStep
<1>3. CASE Ingest
  BY <1>3, IngestStep
<1>4. ASSUME NEW c \in Chats, HistoryAnswered(c)
      PROVE  LiveInv'
  BY <1>4, HistoryStep
<1>5. CASE ReplaceOpenHistory \/ LeaveChat
  BY <1>5, ReplaceStep, LeaveStep
<1>6. CASE UNCHANGED liveVars
  <2>1. /\ UNCHANGED <<truth, stream, last, seen, number, announced, came>>
        /\ UNCHANGED <<missed, selected, held, answer>>
    BY <1>6 DEF liveVars, adapting
  <2>2. HeldInv'
    BY <2>1 DEF LiveInv, HeldInv, Agrees, Of
  <2>3. (/\ missed \subseteq LiveMessages
         /\ selected \in Chats \cup {NoChat} /\ Messages(held, selected) /\ Len(held) <= MaxOpen
         /\ answer.chat \in Chats \cup {NoChat} /\ Messages(answer.messages, answer.chat))'
    BY <2>1 DEF LiveInv, LiveTypes, Messages, Chats
  <2>4. QED
    BY <2>1, <2>2, <2>3, OpenStep
<1>7. QED
  BY <1>1, <1>2, <1>3, <1>4, <1>5, <1>6

\* What is on its way, what the adapter remembers and what the API was told fit together.
THEOREM LiveInvariant == LiveSpec => []LiveInv
BY LiveStart, LiveStep, PTL DEF LiveSpec

LEMMA LiveInvTypes == LiveInv => LiveTypeOK
<1> SUFFICES ASSUME LiveInv PROVE LiveTypeOK
  OBVIOUS
<1>1. Messages(held, selected) /\ Len(held) <= MaxOpen /\ number \in Nat
      /\ selected \in Chats \cup {NoChat} /\ missed \subseteq LiveMessages
  BY DEF LiveInv, LiveTypes
<1>2. QED
  BY <1>1 DEF LiveInv, LiveTypeOK, Messages

\* The adapter remembers no identity twice and not more of them than it may, and what MaxSession
\* keeps are different messages of the open chat (markSeen, ingestLive).
THEOREM AlwaysLiveTypeOK == LiveSpec => []LiveTypeOK
BY LiveInvariant, LiveInvTypes, PTL

LEMMA LiveInvNews == LiveInv => NewsComplete
<1> SUFFICES ASSUME LiveInv, stream = <<>>, NEW m \in LiveMessages \ missed
             PROVE  /\ announced[m] = truth[m]
                    /\ ChatOf[m] = selected /\ Cardinality(Of(selected)) <= MaxOpen =>
                         (truth[m].state = "sent" <=> Contains(held, [m |-> m, now |-> truth[m]]))
  BY DEF NewsComplete, Of
<1>1. ~Pending(m)
  BY DEF Pending
<1>2. announced[m] = truth[m]
  BY <1>1 DEF LiveInv, Announced
<1>3. Agrees(announced, held, selected, m)
  BY DEF LiveInv, HeldInv
<1>4. QED
  BY <1>2, <1>3 DEF Agrees

\* When nothing is under way the API has been told of every message as it is, and the open chat
\* shows it so, but for the messages passed over (adapt, observeSocket, ingestLive, wireHistory).
THEOREM AlwaysNewsComplete == LiveSpec => []NewsComplete
BY LiveInvariant, LiveInvNews, PTL

-----------------------------------------------------------------------------
(* All parts together, one of which moves.                                 *)

BridgeInv == PageInv /\ LiveInv /\ SendInv /\ LinkInv /\ ConnectionInv

\* What moves one part is a step of that part and leaves the others alone.
LEMMA BridgeMoves ==
  [BridgeNext]_bridgeVars =>
    /\ [PageNext]_pageVars /\ [LiveNext]_liveVars /\ [SendNext]_sendVars
    /\ [LinkNext]_linkVars /\ [Next]_vars
<1> USE DEF BridgeNext, bridgeVars, OnlyPage, OnlyLive, OnlySend, OnlyLink, OnlyApp
<1>1. [BridgeNext]_bridgeVars => [PageNext]_pageVars
  BY DEF PageNext, Operate, Timers, Around
<1>2. [BridgeNext]_bridgeVars => [LiveNext]_liveVars
  BY DEF LiveNext
<1>3. [BridgeNext]_bridgeVars => [SendNext]_sendVars
  BY DEF SendNext
<1>4. [BridgeNext]_bridgeVars => [LinkNext]_linkVars
  BY DEF LinkNext
<1>5. [BridgeNext]_bridgeVars => [Next]_vars
  BY DEF Next, Page, Wire, ReauthEnds, ResumeEnds
<1>6. QED
  BY <1>1, <1>2, <1>3, <1>4, <1>5

\* The invariants of the parts hold together: their steps do not meet.
THEOREM BridgeInvariant == BridgeSpec => []BridgeInv
<1>1. BridgeInit => BridgeInv
  BY PageInitially, LiveStart, SendInitially, LinkInitially, ConnectionInit DEF BridgeInit, BridgeInv
<1>2. BridgeInv /\ [BridgeNext]_bridgeVars => BridgeInv'
  BY BridgeMoves, PageInvStep, LiveStep, SendStep, LinkInvStep, ConnectionInvStep DEF BridgeInv
<1>3. QED
  BY <1>1, <1>2, PTL DEF BridgeSpec

\* The variables of every part between MAX's page and the Mini App hold what they should.
THEOREM AlwaysBridgeTypeOK == BridgeSpec => []BridgeTypeOK
<1>1. SendInv => SendTypeOK
  BY DEF SendInv
<1>2. LinkInv => LinkTypeOK
  BY DEF LinkInv
<1>3. ConnectionInv => TypeOK
  BY DEF ConnectionInv
<1>4. BridgeInv => BridgeTypeOK
  BY <1>1, <1>2, <1>3, PageInvTypes, LiveInvTypes DEF BridgeInv, BridgeTypeOK
<1>5. QED
  BY <1>4, BridgeInvariant, PTL

\* Every other invariant the run checks, of all parts at once.
THEOREM AlwaysBridgeSafe ==
  BridgeSpec => [](/\ SendSlotOwned /\ ConfirmedOwn /\ NewsComplete /\ WrittenOnce
                   /\ OneConnection /\ Driven /\ OneLiveSocket /\ ResumeKept)
<1>1. BridgeInit => ResumeKept
  BY ResumeInitially DEF BridgeInit
<1>2. BridgeInv /\ ResumeKept /\ [BridgeNext]_bridgeVars => ResumeKept'
  BY BridgeMoves, ResumeStep DEF BridgeInv
<1>3. BridgeSpec => []ResumeKept
  BY <1>1, <1>2, BridgeInvariant, PTL DEF BridgeSpec
<1>4. SendInv /\ LinkInv => WrittenOnce /\ OneConnection
  BY DEF SendInv, LinkInv
<1>5. BridgeInv => /\ SendSlotOwned /\ ConfirmedOwn /\ NewsComplete /\ WrittenOnce
                   /\ OneConnection /\ Driven /\ OneLiveSocket
  BY <1>4, PageInvSends, LiveInvNews, ConnectionInvDrives DEF BridgeInv
<1>6. QED
  BY <1>3, <1>5, BridgeInvariant, PTL

\* The two action properties of the run: text goes to its own chat and answers to their own
\* calls, whatever the other parts do between two steps of the page.
THEOREM AlwaysBridgeSteps == BridgeSpec => TypedInOwnChat /\ AnswersOwn
<1>1. BridgeInit => WireInv
  BY WireInitially DEF BridgeInit
<1>2. BridgeInv /\ WireInv /\ [BridgeNext]_bridgeVars => WireInv'
  BY BridgeMoves, WireInvStep DEF BridgeInv
<1>3. BridgeSpec => []WireInv
  BY <1>1, <1>2, BridgeInvariant, PTL DEF BridgeSpec
<1>4. BridgeInv /\ WireInv /\ [BridgeNext]_bridgeVars
        => /\ [typed' \ typed # {} => page.at = chat]_pageVars
           /\ [\A f \in atMax, c \in calls : OwnAnswer(f, c)]_pageVars
  BY BridgeMoves, TypedStep, AnswerStep DEF BridgeInv
<1>5. QED
  BY <1>3, <1>4, BridgeInvariant, PTL DEF BridgeSpec, TypedInOwnChat, AnswersOwn, OwnAnswer

=============================================================================
