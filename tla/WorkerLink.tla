------------------------------ MODULE WorkerLink ------------------------------
(***************************************************************************)
(* The Unix socket between the API and the worker: WorkerClient            *)
(* (apps/api/src/worker/worker-client.ts) with its reconnection, pending   *)
(* requests and frame decoder, and WorkerProtocolServer                    *)
(* (apps/worker/src/server.ts), which hands the requests of one chunk to   *)
(* the request handler one after the other while chunks overlap.           *)
(*                                                                         *)
(* A request is sent once and has an id of its own.  A socket number is    *)
(* used again when both ends have forgotten the connection it stood for.   *)
(***************************************************************************)
EXTENDS Integers, Sequences, FiniteSets, SequencesExt

CONSTANTS
  Requests,   \* calls of WorkerClient.request
  LinkCount,\* bound: connections that exist at the same time
  MaxFaults   \* bound: worker crashes, frames that cannot be made or read, timeouts

ASSUME LinkBounds == LinkCount \in Nat \ {0} /\ MaxFaults \in Nat

NoLink == 0
Links == 1 .. LinkCount

VARIABLES
  current,  \* client.socket
  attempt,  \* the socket client.connecting waits for
  retrying, \* does a callback of the reconnect timer wait for that attempt?
  reconnectTimer,    \* the timer is set
  clientStopped,  \* client.stopped
  partial,  \* the connection whose unfinished frame the decoder holds
  waiting,  \* requests waiting for an attempt, in order
  request,  \* progress of each request: idle, waiting, pending, or how it ended
  writtenTo,  \* the connection a request was written to
  client,   \* client end of a connection
  served,   \* server end of a connection
  uplink,   \* requests written and not read by the server
  downlink, \* responses written and not read by the client
  chunks,   \* chunks the server is working on: connection and remaining requests
  up,       \* does the worker listen?
  faults    \* faults so far

linkVars == <<current, attempt, retrying, reconnectTimer, clientStopped, partial, waiting, request, writtenTo,
          client, served, uplink, downlink, chunks, up, faults>>

clientVars == <<current, attempt, retrying, reconnectTimer, clientStopped, partial, waiting, request,
                writtenTo, client>>

server == <<served, uplink, downlink, chunks, up>>

LinkInit ==
  /\ current = 1 /\ attempt = NoLink
  /\ retrying = FALSE /\ reconnectTimer = FALSE /\ clientStopped = FALSE
  /\ partial = NoLink
  /\ waiting = <<>>
  /\ request = [r \in Requests |-> "idle"]
  /\ writtenTo = [r \in Requests |-> NoLink]
  /\ client = [s \in Links |-> IF s = 1 THEN "open" ELSE "unused"]
  /\ served = [s \in Links |-> s = 1]
  /\ uplink = [s \in Links |-> <<>>]
  /\ downlink = [s \in Links |-> <<>>]
  /\ chunks = {}
  /\ up = TRUE
  /\ faults = 0

Fault == faults < MaxFaults /\ faults' = faults + 1

-----------------------------------------------------------------------------
(* Connecting                                                              *)

Unused(s) ==
  /\ client[s] = "unused" /\ ~served[s]
  /\ \A c \in chunks : c.socket # s

\* (mutant: the decoder is not reset)
StartAttemptKeepingFrame(s) ==
  /\ Unused(s)
  /\ attempt' = s
  /\ client' = [client EXCEPT ![s] = "connecting"]
  /\ UNCHANGED partial

\* openSocket up to its await: the decoder drops what an earlier connection left.
StartAttempt(s) ==
  /\ Unused(s)
  /\ attempt' = s
  /\ client' = [client EXCEPT ![s] = "connecting"]
  /\ partial' = NoLink

\* connect(): nothing to do with a socket, one attempt for all callers without.
ConnectLink ==
  IF current # NoLink \/ attempt # NoLink
  THEN UNCHANGED <<attempt, client, partial>>
  ELSE \E s \in Links : StartAttempt(s)

\* Node delivers the close of a destroyed socket before a connection started later is up.
ClosesDelivered == \A s \in Links : client[s] # "destroyed"

\* The requests that waited write to the new socket.
Connected ==
  LET s == attempt IN
  /\ s # NoLink /\ up /\ ClosesDelivered
  /\ current' = s
  /\ attempt' = NoLink
  /\ retrying' = FALSE
  /\ client' = [client EXCEPT ![s] = "open"]
  /\ served' = [served EXCEPT ![s] = TRUE]
  /\ downlink' = [downlink EXCEPT ![s] = <<>>]
  /\ uplink' = [uplink EXCEPT ![s] = waiting]
  /\ request' = [r \in Requests |-> IF r \in Range(waiting) THEN "pending" ELSE request[r]]
  /\ writtenTo' = [r \in Requests |-> IF r \in Range(waiting) THEN s ELSE writtenTo[r]]
  /\ waiting' = <<>>
  /\ UNCHANGED <<reconnectTimer, clientStopped, partial, chunks, up, faults>>

\* (mutant: a failed attempt of the timer schedules no other)
ConnectFailedForGood ==
  /\ attempt # NoLink /\ ~up
  /\ attempt' = NoLink
  /\ client' = [client EXCEPT ![attempt] = "unused"]
  /\ retrying' = FALSE
  /\ request' = [r \in Requests |-> IF r \in Range(waiting) THEN "unavailable" ELSE request[r]]
  /\ waiting' = <<>>
  /\ UNCHANGED <<current, reconnectTimer, clientStopped, partial, writtenTo, server, faults>>

\* Nobody listens: the waiting requests end, and the timer's callback schedules another.
ConnectFailed ==
  /\ attempt # NoLink /\ ~up
  /\ attempt' = NoLink
  /\ client' = [client EXCEPT ![attempt] = "unused"]
  /\ retrying' = FALSE
  /\ reconnectTimer' = (reconnectTimer \/ (retrying /\ ~clientStopped))
  /\ request' = [r \in Requests |-> IF r \in Range(waiting) THEN "unavailable" ELSE request[r]]
  /\ waiting' = <<>>
  /\ UNCHANGED <<current, clientStopped, partial, writtenTo, server, faults>>

LinkTimerFires ==
  /\ reconnectTimer
  /\ reconnectTimer' = FALSE
  /\ retrying' = (current = NoLink)
  /\ ConnectLink
  /\ UNCHANGED <<current, clientStopped, waiting, request, writtenTo, server, faults>>

-----------------------------------------------------------------------------
(* Requests and responses                                                  *)

Alive(s) == s # NoLink /\ client[s] # "destroyed"

Send(r) ==
  /\ request[r] = "idle"
  /\ Alive(current)
  /\ request' = [request EXCEPT ![r] = "pending"]
  /\ writtenTo' = [writtenTo EXCEPT ![r] = current]
  /\ uplink' = [uplink EXCEPT ![current] = Append(@, r)]
  /\ UNCHANGED <<current, attempt, retrying, reconnectTimer, clientStopped, partial, waiting, client,
                 served, downlink, chunks, up, faults>>

\* The socket is destroyed and its close not yet seen: connect() returns at once, and
\* there is no usable socket.
SendRefused(r) ==
  /\ request[r] = "idle"
  /\ current # NoLink /\ ~Alive(current)
  /\ request' = [request EXCEPT ![r] = "unavailable"]
  /\ UNCHANGED <<current, attempt, retrying, reconnectTimer, clientStopped, partial, waiting, writtenTo,
                 client, server, faults>>

SendWaits(r) ==
  /\ request[r] = "idle"
  /\ current = NoLink
  /\ ConnectLink
  /\ request' = [request EXCEPT ![r] = "waiting"]
  /\ waiting' = Append(waiting, r)
  /\ UNCHANGED <<current, retrying, reconnectTimer, clientStopped, writtenTo, server, faults>>

\* The request's own timeout; nothing says that the worker will not run it.
RequestTimeout(r) ==
  /\ request[r] = "pending"
  /\ Fault
  /\ request' = [request EXCEPT ![r] = "timeout"]
  /\ UNCHANGED <<current, attempt, retrying, reconnectTimer, clientStopped, partial, waiting, writtenTo,
                 client, server>>

\* (mutant: a disconnection leaves the pending requests to their timeouts)
DisconnectedKeepingPending ==
  /\ current' = NoLink
  /\ reconnectTimer' = (reconnectTimer \/ ~clientStopped)
  /\ UNCHANGED request

\* handleDisconnect
Disconnected ==
  /\ current' = NoLink
  /\ request' = [r \in Requests |-> IF request[r] = "pending" THEN "unavailable" ELSE request[r]]
  /\ reconnectTimer' = (reconnectTimer \/ ~clientStopped)

\* The beginning of a frame arrives.
ReadPart(s) ==
  /\ client[s] = "open" /\ downlink[s] # <<>> /\ partial = NoLink
  /\ partial' = s
  /\ UNCHANGED <<current, attempt, retrying, reconnectTimer, clientStopped, waiting, request, writtenTo,
                 client, server, faults>>

\* A frame is complete: resolveResponse, which ignores a request that is not pending.
ReadResponse(s) ==
  LET r == Head(downlink[s]) IN
  /\ client[s] = "open" /\ downlink[s] # <<>> /\ partial \in {NoLink, s}
  /\ partial' = NoLink
  /\ downlink' = [downlink EXCEPT ![s] = Tail(@)]
  /\ request' = [request EXCEPT ![r] = IF @ = "pending" THEN "answered" ELSE @]
  /\ UNCHANGED <<current, attempt, retrying, reconnectTimer, clientStopped, waiting, writtenTo, client,
                 served, uplink, chunks, up, faults>>

\* handleChunk fails: an oversized frame or a throwing listener.
ReadFailed(s) ==
  /\ client[s] = "open" /\ downlink[s] # <<>> /\ s = current
  /\ Fault
  /\ client' = [client EXCEPT ![s] = "destroyed"]
  /\ partial' = NoLink
  /\ Disconnected
  /\ UNCHANGED <<attempt, retrying, clientStopped, waiting, writtenTo, server>>

\* The server's end is gone: the client's socket is destroyed, its close follows.
PeerGone(s) ==
  /\ client[s] = "open" /\ ~served[s]
  /\ client' = [client EXCEPT ![s] = "destroyed"]
  /\ UNCHANGED <<current, attempt, retrying, reconnectTimer, clientStopped, partial, waiting, request,
                 writtenTo, server, faults>>

\* The close event of any socket that was ever connected.
CloseEvent(s) ==
  /\ client[s] = "destroyed"
  /\ client' = [client EXCEPT ![s] = "unused"]
  /\ Disconnected
  /\ UNCHANGED <<attempt, retrying, clientStopped, partial, waiting, writtenTo, server, faults>>

\* WorkerClient.close; an attempt under way goes on.
Close ==
  /\ ~clientStopped
  /\ clientStopped' = TRUE
  /\ current' = NoLink
  /\ reconnectTimer' = FALSE
  /\ client' = IF current = NoLink THEN client ELSE [client EXCEPT ![current] = "destroyed"]
  /\ request' = [r \in Requests |-> IF request[r] = "pending" THEN "unavailable" ELSE request[r]]
  /\ UNCHANGED <<attempt, retrying, partial, waiting, writtenTo, server, faults>>

-----------------------------------------------------------------------------
(* The worker                                                              *)

\* (mutant: a chunk without a complete frame is handed over too)
TakeChunkEmpty(s) ==
  /\ served[s]
  /\ \E n \in 0 .. Len(uplink[s]) :
       /\ chunks' = chunks \union {[socket |-> s, requests |-> SubSeq(uplink[s], 1, n)]}
       /\ uplink' = [uplink EXCEPT ![s] = SubSeq(@, n + 1, Len(@))]
  /\ UNCHANGED <<clientVars, served, downlink, up, faults>>

\* A chunk arrives with some of the frames written so far.
TakeChunk(s) ==
  /\ served[s]
  /\ \E n \in 1 .. Len(uplink[s]) :
       /\ chunks' = chunks \union {[socket |-> s, requests |-> SubSeq(uplink[s], 1, n)]}
       /\ uplink' = [uplink EXCEPT ![s] = SubSeq(@, n + 1, Len(@))]
  /\ UNCHANGED <<clientVars, served, downlink, up, faults>>

\* The handler answers the first request of a chunk; a closed socket takes no response.
Execute(c) ==
  LET r == Head(c.requests) rest == Tail(c.requests) IN
  /\ chunks' = (chunks \ {c}) \union
       IF rest = <<>> THEN {} ELSE {[socket |-> c.socket, requests |-> rest]}
  /\ downlink' = [downlink EXCEPT ![c.socket] = IF served[c.socket] THEN Append(@, r) ELSE @]
  /\ UNCHANGED <<clientVars, served, uplink, up, faults>>

\* handleChunk fails: the handler has run, but its response is larger than a frame may be or
\* unknown to the protocol.  The rest of the chunk is not run, and the socket is destroyed.
ResponseFails(c) ==
  /\ Fault
  /\ chunks' = chunks \ {c}
  /\ served' = [served EXCEPT ![c.socket] = FALSE]
  /\ uplink' = [uplink EXCEPT ![c.socket] = <<>>]
  /\ UNCHANGED <<clientVars, downlink, up>>

\* The server has read everything and sees the end of a connection.
ServerSeesClose(s) ==
  /\ client[s] = "unused" /\ served[s] /\ uplink[s] = <<>>
  /\ served' = [served EXCEPT ![s] = FALSE]
  /\ downlink' = [downlink EXCEPT ![s] = <<>>]
  /\ UNCHANGED <<clientVars, uplink, chunks, up, faults>>

WorkerStops ==
  /\ up /\ Fault
  /\ up' = FALSE
  /\ served' = [s \in Links |-> FALSE]
  /\ uplink' = [s \in Links |-> <<>>]
  /\ chunks' = {}
  /\ UNCHANGED <<clientVars, downlink>>

WorkerStarts ==
  /\ ~up
  /\ up' = TRUE
  /\ UNCHANGED <<clientVars, served, uplink, downlink, chunks, faults>>

-----------------------------------------------------------------------------

LinkNext ==
  \/ Connected
  \/ ConnectFailed
  \/ LinkTimerFires
  \/ \E r \in Requests : Send(r) \/ SendRefused(r) \/ SendWaits(r) \/ RequestTimeout(r)
  \/ \E s \in Links : ReadPart(s) \/ ReadResponse(s) \/ ReadFailed(s)
  \/ \E s \in Links : PeerGone(s) \/ CloseEvent(s)
  \/ Close
  \/ \E s \in Links : TakeChunk(s) \/ ServerSeesClose(s)
  \/ \E c \in chunks : Execute(c) \/ ResponseFails(c)
  \/ WorkerStops
  \/ WorkerStarts

\* The event loops of both processes run, timers fire, systemd starts the worker again.
\* Request timeouts get no fairness: a request must not depend on its timeout to end.
LinkFairness ==
  /\ WF_linkVars(Connected) /\ WF_linkVars(ConnectFailed) /\ WF_linkVars(LinkTimerFires)
  /\ WF_linkVars(WorkerStarts)
  /\ \A s \in Links :
       /\ WF_linkVars(ReadResponse(s)) /\ WF_linkVars(PeerGone(s)) /\ WF_linkVars(CloseEvent(s))
       /\ WF_linkVars(TakeChunk(s)) /\ WF_linkVars(ServerSeesClose(s))
  /\ WF_linkVars(\E c \in chunks : Execute(c))

LinkSpec == LinkInit /\ [][LinkNext]_linkVars /\ LinkFairness

-----------------------------------------------------------------------------
(* Properties                                                              *)

Settled == {"answered", "unavailable", "timeout"}
ChunkType == [socket : Links, requests : Seq(Requests) \ {<<>>}]

LinkTypeOK ==
  /\ current \in Links \union {NoLink}
  /\ attempt \in Links \union {NoLink}
  /\ retrying \in BOOLEAN /\ reconnectTimer \in BOOLEAN /\ clientStopped \in BOOLEAN
  /\ partial \in Links \union {NoLink}
  /\ waiting \in Seq(Requests)
  /\ request \in [Requests -> {"idle", "waiting", "pending"} \union Settled]
  /\ writtenTo \in [Requests -> Links \union {NoLink}]
  /\ client \in [Links -> {"unused", "connecting", "open", "destroyed"}]
  /\ served \in [Links -> BOOLEAN]
  /\ uplink \in [Links -> Seq(Requests)]
  /\ downlink \in [Links -> Seq(Requests)]
  /\ \A c \in chunks : c \in ChunkType
  /\ up \in BOOLEAN
  /\ faults \in 0 .. MaxFaults

\* There is one connection: a second one would deliver every event twice and share the
\* decoder with the first; "the new socket must not inherit" a partial frame of the old one.
\* A pending request was written to the one in use: an earlier one would neither answer it
\* nor, closing, reject it.
OneConnection ==
  /\ \A s \in Links : client[s] = "open" => s = current
  /\ \A s \in Links : client[s] = "connecting" <=> s = attempt
  /\ attempt = NoLink \/ current = NoLink
  /\ current # NoLink /\ client[current] = "open" /\ partial # NoLink => partial = current
  /\ \A r \in Requests : request[r] = "pending" => current # NoLink /\ writtenTo[r] = current

\* Every request ends without the help of its timeout: as each is made once, none is left
\* under way for good.
RequestsSettle == []<>(\A r \in Requests : request[r] \in {"idle"} \union Settled)

\* After any restart of the worker the API is connected again.
Reconnects == []<>(current # NoLink \/ clientStopped)

=============================================================================
