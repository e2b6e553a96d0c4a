------------------------------ MODULE RunEvents ------------------------------
(* The events of one run (SqlAlchemyWorkflowRunEventStore) and the streams   *)
(* that follow them (stream_workflow_run_events).  The worker, the API and   *)
(* the scheduler record events in sessions of their own: each reads the      *)
(* highest sequence and inserts the next, which a unique constraint guards.  *)
(* A client that loses its stream asks again after the last event it got.    *)
EXTENDS Naturals, Sequences, FiniteSets, FiniteSetsExt

CONSTANTS Recorders,   \* the sessions that may record an event together
          Followers,   \* the clients that follow the run
          PageSize,    \* how many events one query returns
          MaxEvents    \* bound: the highest sequence

ASSUME PageIsPositive == PageSize \in Nat \ {0}

VARIABLES events,     \* the sequences of the committed rows
          recording,  \* per recorder, the sequence it is about to insert
          stream      \* per follower, its cursor, its page and what it got

eventVars == <<events, recording, stream>>

EventInit ==
    /\ events = {}
    /\ recording = [w \in Recorders |-> 0]
    /\ stream = [f \in Followers |-> [cursor |-> 0, page |-> <<>>, got |-> {}]]

HighestOf(S) == IF S = {} THEN 0 ELSE Max(S)

\* Mutant: numbers are reserved, so a lower one may be committed later.
NextSequence_Reserved(w) == HighestOf(events \cup {recording[v] : v \in Recorders}) + 1

NextSequence(w) == HighestOf(events) + 1

ReadHighest(w) ==
    /\ recording[w] = 0
    /\ NextSequence(w) <= MaxEvents
    /\ recording' = [recording EXCEPT ![w] = NextSequence(w)]
    /\ UNCHANGED <<events, stream>>

\* The rows are unique by run and sequence.
Taken(sequence) == sequence \in events

\* A sequence another session has inserted is refused: the caller gets an
\* error and the event is lost.
InsertEvent(w) ==
    /\ recording[w] # 0 /\ ~Taken(recording[w])
    /\ events' = events \cup {recording[w]}
    /\ recording' = [recording EXCEPT ![w] = 0]
    /\ UNCHANGED stream

LoseEvent(w) == /\ recording[w] # 0
                /\ recording' = [recording EXCEPT ![w] = 0]
                /\ UNCHANGED <<events, stream>>

\* list_events: the first events after the cursor, in order.
PagesAfter(n) ==
    LET after == {e \in events : e > n}
        size  == IF Cardinality(after) < PageSize THEN Cardinality(after) ELSE PageSize
    IN  {q \in [1 .. size -> after] :
            /\ \A i, j \in 1 .. size : i < j => q[i] < q[j]
            /\ \A e \in after : (\E i \in 1 .. size : q[i] = e) \/ \A i \in 1 .. size : q[i] < e}

Poll(f) == /\ stream[f].page = <<>>
           /\ \E q \in PagesAfter(stream[f].cursor) :
                 q # <<>> /\ stream' = [stream EXCEPT ![f].page = q]
           /\ UNCHANGED <<events, recording>>

Deliver(f) ==
    /\ stream[f].page # <<>>
    /\ stream' = [stream EXCEPT ![f] = [cursor |-> Head(@.page), page |-> Tail(@.page),
                                        got |-> @.got \cup {Head(@.page)}]]
    /\ UNCHANGED <<events, recording>>

\* The connection breaks, or the stream ends after its idle time.
Reconnect(f) == /\ stream[f].page # <<>>
                /\ stream' = [stream EXCEPT ![f].page = <<>>]
                /\ UNCHANGED <<events, recording>>

EventNext ==
    \/ \E w \in Recorders : ReadHighest(w) \/ InsertEvent(w) \/ LoseEvent(w)
    \/ \E f \in Followers : Poll(f) \/ Deliver(f) \/ Reconnect(f)

EventSpec == EventInit /\ [][EventNext]_eventVars

\* A stream never passes an event by: every event up to its cursor, those
\* that are committed after the cursor moved included, has been delivered,
\* whatever recorders overtake each other or fail.
NothingIsSkipped == \A f \in Followers : {e \in events : e <= stream[f].cursor} \subseteq stream[f].got
=============================================================================
