---------------------------- MODULE EventStream -----------------------------
(***************************************************************************)
(* The events of one run or conversation and the clients that stream them: *)
(* events/bus.py, the event buses of conversations/stores.py, and the      *)
(* forwarding of text in conversations/streaming.py.                       *)
(*                                                                         *)
(* The durable bus is modelled: a writer asks for the next number and then *)
(* inserts the event under it; the table refuses a number twice; the event *)
(* is then put on the queues of the subscribers in the same process.  A    *)
(* subscriber reads the history, then its queue, and polls the history     *)
(* when the queue stays empty.                                             *)
(***************************************************************************)
EXTENDS OrderedTable

CONSTANTS Writers,      \* tasks that publish
          Readers,      \* subscribers
          HomeOf,       \* [Writers \cup Readers -> process]
          QueueSize,    \* subscriber_queue_size
          MaxEvents,    \* events in a behaviour
          MaxChars      \* DeltaCoalescer.max_chars, a delta being one character

ASSUME StreamAssumption == QueueSize \in Nat \ {0} /\ MaxEvents \in Nat /\ MaxChars \in Nat \ {0}

VARIABLES history,      \* numbers in the table, in the order of the inserts
          writer,       \* per writer: what it is doing and the number it was given
          queue,        \* per reader: numbers put on its queue
          cursor,       \* per reader: the last number it yielded
          reading,      \* per reader: "off", "catchup", "live" or "ended"
          yielded,      \* per reader: everything it yielded
          buffer,       \* per reader: text not yet sent (DeltaCoalescer._parts)
          sent,         \* per reader: the text of the delta events it emitted
          disturbed     \* per reader, not in the code: its queue lost, missed or may get late an event
streamVars == <<history, writer, queue, cursor, reading, yielded, buffer, sent, disturbed>>

Numbers == 1..MaxEvents
Published == {history[i] : i \in DOMAIN history}
MaxOf(S) == IF S = {} THEN 0 ELSE CHOOSE n \in S : \A k \in S : k <= n

StreamTypeOK ==
    /\ Len(history) <= MaxEvents /\ Published \subseteq Numbers
    /\ writer \in [Writers -> [at : {"idle", "insert", "fanout"}, number : 0..MaxEvents]]
    /\ reading \in [Readers -> {"off", "catchup", "live", "ended"}]
    /\ cursor \in [Readers -> 0..MaxEvents] /\ disturbed \subseteq Readers
    /\ \A r \in Readers : Len(queue[r]) <= QueueSize /\ Len(buffer[r]) < MaxChars

StreamInit ==
    /\ history = <<>> /\ writer = [w \in Writers |-> [at |-> "idle", number |-> 0]]
    /\ queue = [r \in Readers |-> <<>>] /\ cursor = [r \in Readers |-> 0]
    /\ reading = [r \in Readers |-> "off"] /\ yielded = [r \in Readers |-> <<>>]
    /\ buffer = [r \in Readers |-> <<>>] /\ sent = [r \in Readers |-> <<>>]
    /\ disturbed = {}

\* next_sequence
NextSequence(w) ==
    /\ writer[w].at = "idle" /\ Len(history) < MaxEvents
    /\ writer' = [writer EXCEPT ![w] = [at |-> "insert", number |-> MaxOf(Published) + 1]]
    /\ UNCHANGED <<history, queue, cursor, reading, yielded, buffer, sent, disturbed>>

\* publish, first half: the insert.  A number that is taken raises in the writer.
Insert(w) ==
    /\ writer[w].at = "insert"
    /\ IF writer[w].number \in Published
       THEN writer' = [writer EXCEPT ![w] = [at |-> "idle", number |-> 0]] /\ history' = history
       ELSE /\ history' = Append(history, writer[w].number)
            /\ writer' = [writer EXCEPT ![w].at = "fanout"]
    /\ disturbed' = disturbed \cup {r \in Readers : \/ HomeOf[r] # HomeOf[w]
                                                   \/ \E v \in Writers \ {w} : writer[v].at = "fanout"}
    /\ UNCHANGED <<queue, cursor, reading, yielded, buffer, sent>>

\* publish, second half: a full queue loses its oldest event.
Put(q, n) == Append(IF Len(q) = QueueSize THEN Tail(q) ELSE q, n)
Listening(r) == reading[r] \in {"catchup", "live"}
FanOut(w) ==
    /\ writer[w].at = "fanout"
    /\ LET near == {r \in Readers : Listening(r) /\ HomeOf[r] = HomeOf[w]}
       IN  /\ queue' = [r \in Readers |-> IF r \in near THEN Put(queue[r], writer[w].number) ELSE queue[r]]
           /\ disturbed' = disturbed \cup {r \in near : Len(queue[r]) = QueueSize}
    /\ writer' = [writer EXCEPT ![w] = [at |-> "idle", number |-> 0]]
    /\ UNCHANGED <<history, cursor, reading, yielded, buffer, sent>>

-----------------------------------------------------------------------------
AddTextLate(r, new) ==
    LET text == buffer[r] \o new IN
    IF Len(text) > MaxChars
    THEN sent' = [sent EXCEPT ![r] = @ \o text] /\ buffer' = [buffer EXCEPT ![r] = <<>>]
    ELSE buffer' = [buffer EXCEPT ![r] = text] /\ sent' = sent

\* DeltaCoalescer.add: text that fills the buffer is sent at once.
AddText(r, new) ==
    LET text == buffer[r] \o new IN
    IF Len(text) >= MaxChars
    THEN sent' = [sent EXCEPT ![r] = @ \o text] /\ buffer' = [buffer EXCEPT ![r] = <<>>]
    ELSE buffer' = [buffer EXCEPT ![r] = text] /\ sent' = sent
\* follow_run's forward: every event after the cursor, once.
Yield(r, new) ==
    /\ yielded' = [yielded EXCEPT ![r] = @ \o new]
    /\ cursor' = [cursor EXCEPT ![r] = MaxOf({@} \cup {new[i] : i \in DOMAIN new})]
    /\ AddText(r, new)
\* What is forwarded of a queue that is drained: an event that is not newer than the last is dropped.
Rising(q, c) == Ordered({q[i] : i \in {k \in DOMAIN q : q[k] > c /\ \A j \in 1..(k - 1) : q[j] < q[k]}})
\* history(after): the events with a greater number, by number.
History(after) == Ordered({n \in Published : n > after})

\* subscribe: the queue is registered first, then the history is read.
Subscribe(r) ==
    /\ reading[r] = "off"
    /\ reading' = [reading EXCEPT ![r] = "catchup"]
    /\ UNCHANGED <<history, writer, queue, cursor, yielded, buffer, sent, disturbed>>

\* Mutant: the history is read from its start again.
CatchUpFromStart(r) ==
    /\ reading[r] = "catchup"
    /\ yielded' = [yielded EXCEPT ![r] = @ \o History(cursor[r])]
    /\ AddText(r, History(cursor[r]))
    /\ reading' = [reading EXCEPT ![r] = "live"]
    /\ UNCHANGED <<history, writer, queue, cursor, disturbed>>

CatchUp(r) ==
    /\ reading[r] = "catchup"
    /\ Yield(r, History(cursor[r]))
    /\ reading' = [reading EXCEPT ![r] = "live"]
    /\ UNCHANGED <<history, writer, queue, disturbed>>
\* The next event of the queue, unless it was read from the history already.
Receive(r) ==
    /\ reading[r] = "live" /\ queue[r] # <<>>
    /\ queue' = [queue EXCEPT ![r] = Tail(@)]
    /\ IF Head(queue[r]) > cursor[r] THEN Yield(r, <<Head(queue[r])>>)
       ELSE UNCHANGED <<yielded, cursor, buffer, sent>>
    /\ UNCHANGED <<history, writer, reading, disturbed>>
\* The queue stayed empty: events of other processes are found in the history.
Poll(r) ==
    /\ reading[r] = "live" /\ queue[r] = <<>> /\ History(cursor[r]) # <<>>
    /\ Yield(r, History(cursor[r]))
    /\ UNCHANGED <<history, writer, queue, reading, disturbed>>
\* The interval has passed: DeltaCoalescer.flush.
Flush(r) ==
    /\ reading[r] = "live" /\ buffer[r] # <<>>
    /\ sent' = [sent EXCEPT ![r] = @ \o buffer[r]] /\ buffer' = [buffer EXCEPT ![r] = <<>>]
    /\ UNCHANGED <<history, writer, queue, cursor, reading, yielded, disturbed>>
\* The run has stopped: the queue, then the history, then the buffer are drained.
Finish(r) ==
    /\ reading[r] = "live"
    /\ LET fresh == Rising(queue[r], cursor[r])
           seen == MaxOf({cursor[r]} \cup {fresh[i] : i \in DOMAIN fresh})
           rest == fresh \o History(seen)
       IN  /\ yielded' = [yielded EXCEPT ![r] = @ \o rest]
           /\ cursor' = [cursor EXCEPT ![r] = MaxOf({seen} \cup Published)]
           /\ sent' = [sent EXCEPT ![r] = @ \o buffer[r] \o rest]
           /\ buffer' = [buffer EXCEPT ![r] = <<>>]
    /\ queue' = [queue EXCEPT ![r] = <<>>]
    /\ reading' = [reading EXCEPT ![r] = "ended"]
    /\ UNCHANGED <<history, writer, disturbed>>

StreamNext ==
    \/ \E w \in Writers : NextSequence(w) \/ Insert(w) \/ FanOut(w)
    \/ \E r \in Readers : \/ Subscribe(r) \/ CatchUp(r) \/ Receive(r) \/ Poll(r)
                          \/ Flush(r) \/ Finish(r)
StreamSpec == StreamInit /\ [][StreamNext]_streamVars

-----------------------------------------------------------------------------
(* The durable history is numbered from one without gaps or repetitions,
   although a number is asked for and used in two steps. *)
GapFree == Published = 1..Len(history)

(* A subscriber yields each event at most once and in the order of the
   numbers, whichever of history and queue it came from. *)
InOrderOnce ==
    \A r \in Readers : \A i, j \in DOMAIN yielded[r] : i < j => yielded[r][i] < yielded[r][j]

(* Nothing is skipped while the events of a subscriber come one after the
   other from its own process and fit its queue. *)
NothingSkipped ==
    \A r \in Readers \ disturbed : \A n \in Published :
        (n < cursor[r]) => \E i \in DOMAIN yielded[r] : yielded[r][i] = n

(* The text sent and the text held back are the text received, in order. *)
TextIsWhole == \A r \in Readers : sent[r] \o buffer[r] = yielded[r]

\* The history has no gaps, a subscriber follows it once and in order, and the text forwarded is the
\* text received, whichever writers, queues and polls meet.
StreamSafe == StreamTypeOK /\ GapFree /\ InOrderOnce /\ NothingSkipped /\ TextIsWhole
=============================================================================
