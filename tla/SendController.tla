--------------------------- MODULE SendController ---------------------------
(***************************************************************************)
(* send-controller.ts: messages under the request ids of the client.  An   *)
(* id that has a result gets it again; a message is handed to the          *)
(* transport a second time only when the first time wrote nothing.         *)
(***************************************************************************)
EXTENDS Integers, Sequences, SequencesExt

CONSTANTS
    RequestId,      \* clientRequestIds
    MaxOperations,  \* results the controller remembers
    MaxSends        \* bound: calls of the controller

ASSUME SendAssumption == MaxOperations \in Nat \ {0} /\ MaxSends \in Nat

VARIABLES
    operations,  \* results by request id, the oldest first
    underWay,    \* calls whose transport has not answered
    written,     \* how often a message of each id went to MAX
    since,       \* (history) results that came from the first of each id on; 0 before it
    excused,     \* (history) ids of which the code lets a second message through
    called_      \* calls so far

sendVars == <<operations, underWay, written, since, excused, called_>>

SendInit ==
    /\ operations = <<>> /\ underWay = {} /\ called_ = 0
    /\ written = [id \in RequestId |-> 0] /\ since = written /\ excused = {}

Known(id)  == \E i \in DOMAIN operations : operations[i].id = id
Result(id) == operations[CHOOSE i \in DOMAIN operations : operations[i].id = id].state

\* A defect: the limit takes one result too many.
RememberOneLess(id, state) ==
    LET new == Append(operations, [id |-> id, state |-> state])
    IN  operations' = IF Len(new) >= MaxOperations THEN Tail(new) ELSE new

\* A Map keeps the place of a key it has; over the limit the oldest goes.
Remember(id, state) ==
    LET new == IF Known(id)
               THEN [i \in DOMAIN operations |->
                        IF operations[i].id = id THEN [id |-> id, state |-> state] ELSE operations[i]]
               ELSE Append(operations, [id |-> id, state |-> state])
    IN  operations' = IF Len(new) > MaxOperations THEN Tail(new) ELSE new

\* sendText and sendMedia: the map is asked before the transport, and written after it.  So a
\* call that overlaps another of its id transmits, and so does one that comes when as many
\* results as the map holds have come after the one of its id.
SendMessage(id) ==
    /\ called_ < MaxSends /\ called_' = called_ + 1
    /\ IF Known(id) THEN UNCHANGED <<underWay, excused>>
       ELSE /\ underWay' = underWay \cup {[n |-> called_, id |-> id, again |-> FALSE]}
            /\ excused' = IF since[id] > MaxOperations \/ \E call \in underWay : call.id = id
                          THEN excused \cup {id} ELSE excused
    /\ UNCHANGED <<operations, written, since>>

\* retryText, which the user has confirmed: of an ambiguous send, under another id.
RetryText(id, retryOf) ==
    /\ id # retryOf /\ Known(retryOf) /\ Result(retryOf) = "ambiguous"
    /\ SendMessage(id)

Return(call, n) ==
    underWay' = underWay \ {call} /\ written' = [written EXCEPT ![call.id] = @ + n]

\* The call has a result, which is remembered.
Settle(call, n, state) ==
    /\ Return(call, n) /\ Remember(call.id, state)
    /\ since' = [id \in RequestId |->
                    IF id = call.id \/ since[id] > 0 THEN since[id] + 1 ELSE 0]
    /\ UNCHANGED <<excused, called_>>

Confirmed(call) == Settle(call, 1, "confirmed")

\* after_write, before_confirmation: nobody knows whether MAX has it.
Ambiguous(call) == \E n \in 0..1 : Settle(call, n, "ambiguous")

\* before_write: once more, and then the call fails and leaves nothing behind.
NotWritten(call) ==
    /\ underWay' = (underWay \ {call}) \cup IF call.again THEN {} ELSE {[call EXCEPT !.again = TRUE]}
    /\ UNCHANGED <<operations, written, since, excused, called_>>

\* Any other error of the transport fails the call at once and leaves nothing behind, although
\* MAX may have the message.
Unclassified(call) ==
    /\ \E n \in 0..1 : Return(call, n) /\ excused' = excused \cup IF n = 1 THEN {call.id} ELSE {}
    /\ UNCHANGED <<operations, since, called_>>

SendNext ==
    \/ \E id \in RequestId : SendMessage(id)
    \/ \E id, retryOf \in RequestId : RetryText(id, retryOf)
    \/ \E call \in underWay :
         Confirmed(call) \/ Ambiguous(call) \/ NotWritten(call) \/ Unclassified(call)

SendSpec == SendInit /\ [][SendNext]_sendVars

SendTypeOK ==
    /\ Len(operations) <= MaxOperations /\ called_ \in 0..MaxSends
    /\ \A i, j \in DOMAIN operations : operations[i].id = operations[j].id => i = j
    /\ \A call \in underWay : call.id \in RequestId /\ call.n < called_

(* A request id puts one message in the chat at most, however often it is  *)
(* called and whatever the transport answers.  The code lets a second one  *)
(* through in three cases only: calls of the id overlap, its result is     *)
(* older than the MaxOperations newest, or the transport threw an error    *)
(* that does not say whether it wrote.  A controller that forgets sooner,  *)
(* forgets the wrong result or tries again by itself does not keep this.   *)
WrittenOnce == \A id \in RequestId \ excused : written[id] <= 1
=============================================================================
