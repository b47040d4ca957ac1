-------------------------------- MODULE Pipe --------------------------------
(***************************************************************************)
(* What the upload of a connection promises to its two ends, whatever the  *)
(* queues and buffers between them do: the remote gets the units of the    *)
(* relay, each once and in order.  Once the relay has shut the stream down *)
(* nothing more is sent, and as long as both ends are there the remote     *)
(* sees the end of the stream after the last unit.  Nothing arrives after  *)
(* the end.                                                                *)
(***************************************************************************)
EXTENDS Naturals, Sequences

CONSTANT Conns

VARIABLES
    stage,      \* "idle", "open", "shut" by the relay, "over" (an end has gone)
    sent,       \* units the relay has sent
    sunk,       \* units the remote has received
    eof         \* the remote has seen the end of the stream

Init ==
    /\ stage = [i \in Conns |-> "idle"]
    /\ sent = [i \in Conns |-> 0] /\ sunk = [i \in Conns |-> <<>>]
    /\ eof = [i \in Conns |-> FALSE]

Enter(i, from, to) ==
    /\ stage[i] = from /\ stage' = [stage EXCEPT ![i] = to]
    /\ UNCHANGED <<sent, sunk, eof>>

Open(i) == Enter(i, "idle", "open")
Shut(i) == Enter(i, "open", "shut")

\* Connections lose an end, several at once when the task does.
Leave ==
    /\ \E S \in SUBSET Conns :
          stage' = [i \in Conns |-> IF i \in S THEN "over" ELSE stage[i]]
    /\ UNCHANGED <<sent, sunk, eof>>

\* The relay of a connection whose remote has gone may not know it yet.
Send(i) ==
    /\ stage[i] \in {"open", "over"}
    /\ sent'[i] \in Nat /\ sent'[i] >= sent[i]
    /\ sent' = [sent EXCEPT ![i] = sent'[i]]
    /\ UNCHANGED <<stage, sunk, eof>>

Deliver(i) ==
    /\ ~eof[i] /\ Len(sunk[i]) < sent[i]
    /\ sunk' = [sunk EXCEPT ![i] = Append(@, Len(@) + 1)]
    /\ UNCHANGED <<stage, sent, eof>>

\* The remote sees the end of the stream.
End(i) ==
    /\ ~eof[i] /\ (stage[i] # "over" => Len(sunk[i]) = sent[i])
    /\ eof' = [eof EXCEPT ![i] = TRUE]
    /\ UNCHANGED <<stage, sent, sunk>>

Next ==
    \/ Leave
    \/ \E i \in Conns : Open(i) \/ Shut(i) \/ Send(i) \/ Deliver(i) \/ End(i)

Spec == Init /\ [][Next]_<<stage, sent, sunk, eof>>

=============================================================================
