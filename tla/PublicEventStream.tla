--------------------------- MODULE PublicEventStream ---------------------------
(***************************************************************************)
(* The public events of one Run and the clients that follow them: durable  *)
(* rows with a sequence number, wake-ups that may be lost on their way     *)
(* through Redis, the recovery sweep of an API instance, and its streams.  *)
(*                                                                         *)
(* A wake-up carries no event: a woken stream reads the rows after its     *)
(* cursor.  One worker instance only publishes, one API instance           *)
(* subscribes.  Other Runs appear as a publish queue that may be full and  *)
(* as bystanders, whose streams are swept together with those of the Run;  *)
(* their Runs come first in the order of the sweep.                        *)
(*                                                                         *)
(* Abstractions: an event is its sequence number and whether its status is *)
(* final; a repeated append with the same key changes nothing; admission   *)
(* and renewal of a connection only end it.                                *)
(***************************************************************************)
EXTENDS Integers, Sequences, FiniteSets

CONSTANTS
  Clients,          \* who follows the Run
  Bystanders,       \* who follows another Run at the same API instance
  PageSize,         \* events of one page
  RecoveryBatch,    \* subscribers that one recovery tick wakes
  MaxEvents,        \* bound: events of the Run
  MaxConnects       \* bound: connections of a client or a bystander

ASSUME StreamAssumption ==
  PageSize \in Nat \ {0} /\ RecoveryBatch \in Nat \ {0} /\ MaxEvents \in Nat /\ MaxConnects \in Nat

\* A stream is of one Run.
ASSUME ClientsAssumption == Clients \cap Bystanders = {}

VARIABLES
  retained,         \* runtime_run_events: the sequence numbers that are kept
  final,            \* those whose event is terminal
  owed,             \* writers past their commit and before the notification
  publishing,       \* the worker's publish queue has the Run
  inFlight,         \* a wake-up in Redis
  connected,        \* the API's subscription to Redis stands
  sweep,            \* recovery of the API: triggered, subscribers left, cursor
  subscribers,      \* its streams, in the order of the sweep
  comings,          \* connections of the bystanders so far
  stream            \* the connection of each client

eventVars == <<retained, final, owed, publishing, inFlight, connected, sweep, subscribers, comings, stream>>

Sequences == 1..MaxEvents
NoPage == [items |-> {}, more |-> FALSE, latest |-> 0, terminal |-> 0, gap |-> FALSE, oldest |-> 0]

EventTypeOK ==
  /\ retained \subseteq Sequences /\ final \subseteq Sequences
  /\ owed \subseteq {"worker", "api"}
  /\ publishing \in BOOLEAN /\ inFlight \in BOOLEAN /\ connected \in BOOLEAN
  /\ sweep \in [triggered : BOOLEAN, left : Nat, cursor : Nat]
  /\ subscribers \in Seq(Clients \cup Bystanders)
  /\ comings \in [Bystanders -> 0..MaxConnects]
  /\ \A c \in Clients :
       /\ stream[c].pc \in {"off", "subscribed", "listed", "waiting", "closed"}
       /\ stream[c].cursor \in 0..MaxEvents
       /\ stream[c].seen \subseteq Sequences
       /\ stream[c].connects \in 0..MaxConnects

EventInit ==
  /\ retained = {} /\ final = {}
  /\ owed = {} /\ publishing = FALSE /\ inFlight = FALSE /\ connected = TRUE
  /\ sweep = [triggered |-> FALSE, left |-> 0, cursor |-> 0]
  /\ subscribers = <<>> /\ comings = [b \in Bystanders |-> 0]
  /\ stream = [c \in Clients |-> [pc |-> "off", cursor |-> 0, page |-> NoPage, woken |-> FALSE,
                                  seen |-> {}, skipped |-> 0, connects |-> 0]]

Largest(s) == IF s = {} THEN 0 ELSE CHOOSE x \in s : \A y \in s : y <= x
Smallest(s) == IF s = {} THEN 0 ELSE CHOOSE x \in s : \A y \in s : x <= y

-------------------------------------------------------------------------------
(* Writers *)

\* Under an advisory lock of the Run, one number after the last row.
AppendPublicEvent(writer, terminal) ==
  LET n == Largest(retained) + 1 IN
  /\ n \in Sequences /\ writer \notin owed
  /\ retained' = retained \cup {n}
  /\ final' = IF terminal THEN final \cup {n} ELSE final
  /\ owed' = owed \cup {writer}
  /\ UNCHANGED <<publishing, inFlight, connected, sweep, subscribers, comings, stream>>

\* A writer that stops after its commit notifies nobody.
WriterStops(writer) ==
  /\ writer \in owed
  /\ owed' = owed \ {writer}
  /\ UNCHANGED <<retained, final, publishing, inFlight, connected, sweep, subscribers, comings, stream>>

\* Rows below the given one go.  Nothing in the repository calls it: whoever
\* does keeps the last row, or the numbers would start again.
PrunePublicEventsBefore(n) ==
  /\ n \in retained /\ \E k \in retained : k < n
  /\ retained' = {k \in retained : k >= n}
  /\ owed' = owed \cup {"api"}
  /\ UNCHANGED <<final, publishing, inFlight, connected, sweep, subscribers, comings, stream>>

-------------------------------------------------------------------------------
(* Wake-ups *)

Subscribed(c) == \E i \in 1..Len(subscribers) : subscribers[i] = c

\* A stream holds at most one wake-up.
WakeAll == stream' = [c \in Clients |-> IF Subscribed(c) THEN [stream[c] EXCEPT !.woken = TRUE]
                                                         ELSE stream[c]]

\* The worker queues the Run unless it is queued or the queue is full; the API
\* wakes its own streams at once.
Notify(writer) ==
  /\ writer \in owed
  /\ owed' = owed \ {writer}
  /\ IF writer = "api"
     THEN WakeAll /\ UNCHANGED publishing
     ELSE publishing' \in {publishing, TRUE} /\ UNCHANGED stream
  /\ UNCHANGED <<retained, final, inFlight, connected, sweep, subscribers, comings>>

\* A publisher that has no subscription has no recovery either: what fails is lost.
PublishLoop ==
  /\ publishing
  /\ publishing' = FALSE
  /\ inFlight' \in {inFlight, connected}
  /\ UNCHANGED <<retained, final, owed, connected, sweep, subscribers, comings, stream>>

ReceiveWakeup ==
  /\ inFlight
  /\ inFlight' = FALSE
  /\ WakeAll
  /\ UNCHANGED <<retained, final, owed, publishing, connected, sweep, subscribers, comings>>

\* The subscription breaks and comes back, each time with a recovery.
SubscribeLoop ==
  /\ connected' = ~connected
  /\ inFlight' = FALSE
  /\ sweep' = [sweep EXCEPT !.triggered = TRUE]
  /\ UNCHANGED <<retained, final, owed, publishing, subscribers, comings, stream>>

BeginRecovery ==
  sweep' = [sweep EXCEPT !.triggered = FALSE,
                         !.left = IF Len(subscribers) > @ THEN Len(subscribers) ELSE @]

RecoveryTriggered ==
  /\ sweep.triggered
  /\ BeginRecovery
  /\ UNCHANGED <<retained, final, owed, publishing, inFlight, connected, subscribers, comings, stream>>

SafetyTick ==
  /\ sweep.left < Len(subscribers)
  /\ sweep' = [sweep EXCEPT !.left = Len(subscribers)]
  /\ UNCHANGED <<retained, final, owed, publishing, inFlight, connected, subscribers, comings, stream>>

\* Mutant: every batch starts at the first subscriber.
BatchFromFirst(n) == {subscribers[i + 1] : i \in 0..(n - 1)}

\* The subscribers from the cursor on, around the end.
BatchFrom(n) ==
  {subscribers[((sweep.cursor + i) % Len(subscribers)) + 1] : i \in 0..(n - 1)}

Lesser(a, b) == IF a < b THEN a ELSE b

\* Without a subscription to Redis the sweep goes on and on.
RecoverBatch ==
  LET total == Len(subscribers)
      left  == IF sweep.left > 0 THEN sweep.left ELSE total
      n     == Lesser(Lesser(RecoveryBatch, left), total)
  IN
  /\ sweep.left > 0 \/ (~connected /\ total > 0)
  /\ IF total = 0
     THEN sweep' = [sweep EXCEPT !.left = 0] /\ UNCHANGED stream
     ELSE /\ sweep' = [sweep EXCEPT !.left = left - n, !.cursor = (@ + n) % total]
          /\ stream' = [c \in Clients |-> IF c \in BatchFrom(n) THEN [stream[c] EXCEPT !.woken = TRUE]
                                                                ELSE stream[c]]
  /\ UNCHANGED <<retained, final, owed, publishing, inFlight, connected, subscribers, comings>>

-------------------------------------------------------------------------------
(* Streams *)

\* One statement reads the bounds and the page.
PageAfter(cursor) ==
  LET after == {n \in retained : n > cursor}
      items == {n \in after : Cardinality({k \in after : k <= n}) <= PageSize}
      gap   == Smallest(retained) > 1 /\ cursor < Smallest(retained) - 1
  IN [items |-> items, latest |-> Largest(retained), oldest |-> Smallest(retained), gap |-> gap,
      more |-> items # after \/ (~gap /\ Largest(items \cup {cursor}) < Largest(retained)),
      terminal |-> Largest(retained \cap final)]

\* The subscription of a stream is cancelled, once; the others keep their order.
Unsubscribed(c) ==
  LET place == CHOOSE i \in 1..Len(subscribers) : subscribers[i] = c
  IN  SubSeq(subscribers, 1, place - 1) \o SubSeq(subscribers, place + 1, Len(subscribers))

\* Behind the other bystanders and before the Run.
BystanderConnects(b) ==
  /\ ~Subscribed(b) /\ comings[b] < MaxConnects
  /\ comings' = [comings EXCEPT ![b] = @ + 1]
  /\ \E n \in 0..Len(subscribers) :
       /\ \A i \in 1..Len(subscribers) : i <= n <=> subscribers[i] \in Bystanders
       /\ subscribers' = SubSeq(subscribers, 1, n) \o <<b>> \o SubSeq(subscribers, n + 1, Len(subscribers))
  /\ UNCHANGED <<retained, final, owed, publishing, inFlight, connected, sweep, stream>>

BystanderLeaves(b) ==
  /\ Subscribed(b)
  /\ subscribers' = Unsubscribed(b)
  /\ UNCHANGED <<retained, final, owed, publishing, inFlight, connected, sweep, comings, stream>>

\* First the subscription, then the first page: what comes in between wakes it.
Connect(c) ==
  /\ stream[c].pc = "off" /\ stream[c].connects < MaxConnects
  /\ subscribers' = Append(subscribers, c)
  /\ stream' = [stream EXCEPT ![c].pc = "subscribed", ![c].woken = FALSE, ![c].connects = @ + 1]
  /\ UNCHANGED <<retained, final, owed, publishing, inFlight, connected, sweep, comings>>

ListPublicEvents(c) ==
  /\ \/ stream[c].pc = "subscribed" /\ stream' = [stream EXCEPT ![c].page = PageAfter(stream[c].cursor),
                                                               ![c].pc = "listed"]
     \/ stream[c].pc = "waiting" /\ stream[c].woken
        /\ stream' = [stream EXCEPT ![c].page = PageAfter(stream[c].cursor), ![c].pc = "listed",
                                    ![c].woken = FALSE]
  /\ UNCHANGED <<retained, final, owed, publishing, inFlight, connected, sweep, subscribers, comings>>

\* A page that ends with a final event, or reaches the last row when one is final.
EndsStream(p, cursor) ==
  \/ p.items # {} /\ ~p.more /\ Largest(p.items) \in final
  \/ p.terminal > 0 /\ cursor >= p.terminal /\ cursor >= p.latest

\* Mutant: the cursor goes to the end of the log.
CursorAtLatest(p, cursor) == p.latest

CursorAfter(p, cursor) == Largest(p.items \cup {cursor})

\* The page is written; a gap ends the stream and tells the client where to go on.
WritePage(c) ==
  LET p == stream[c].page
      cursor == CursorAfter(p, stream[c].cursor)
  IN
  /\ stream[c].pc = "listed"
  /\ IF p.gap
     THEN /\ stream' = [stream EXCEPT ![c].pc = "off", ![c].cursor = p.oldest - 1,
                                      ![c].skipped = p.oldest - 1, ![c].page = NoPage, ![c].woken = FALSE]
          /\ subscribers' = Unsubscribed(c)
     ELSE IF EndsStream(p, cursor)
     THEN /\ stream' = [stream EXCEPT ![c].pc = "closed", ![c].cursor = cursor, ![c].page = NoPage,
                                      ![c].seen = @ \cup p.items, ![c].woken = FALSE]
          /\ subscribers' = Unsubscribed(c)
     ELSE /\ stream' = [stream EXCEPT ![c].cursor = cursor, ![c].seen = @ \cup p.items,
                                      ![c].pc = IF p.more THEN "subscribed" ELSE "waiting"]
          /\ UNCHANGED subscribers
  /\ UNCHANGED <<retained, final, owed, publishing, inFlight, connected, sweep, comings>>

\* After a heartbeat or a renewal the loop goes round and writes the page it has
\* once more.
Heartbeat(c) ==
  /\ stream[c].pc = "waiting"
  /\ stream' = [stream EXCEPT ![c].pc = "listed"]
  /\ UNCHANGED <<retained, final, owed, publishing, inFlight, connected, sweep, subscribers, comings>>

\* The client goes, a write or a renewal fails: it may come back with its cursor.
Disconnect(c) ==
  /\ stream[c].pc \in {"subscribed", "listed", "waiting"}
  /\ stream[c].connects < MaxConnects
  /\ stream' = [stream EXCEPT ![c].pc = "off", ![c].page = NoPage, ![c].woken = FALSE]
  /\ subscribers' = Unsubscribed(c)
  /\ UNCHANGED <<retained, final, owed, publishing, inFlight, connected, sweep, comings>>

-------------------------------------------------------------------------------
EventNext ==
  \/ \E w \in {"worker", "api"} :
       Notify(w) \/ WriterStops(w) \/ \E t \in BOOLEAN : AppendPublicEvent(w, t)
  \/ \E n \in Sequences : PrunePublicEventsBefore(n)
  \/ PublishLoop \/ ReceiveWakeup \/ SubscribeLoop
  \/ RecoveryTriggered \/ SafetyTick \/ RecoverBatch
  \/ \E c \in Clients :
       Connect(c) \/ ListPublicEvents(c) \/ WritePage(c) \/ Heartbeat(c) \/ Disconnect(c)
  \/ \E b \in Bystanders : BystanderConnects(b) \/ BystanderLeaves(b)

-------------------------------------------------------------------------------
(* Properties *)

\* A cursor never runs ahead of what its client was sent: every row up to it that
\* is still kept was delivered, except below a gap the client was told of, across
\* lost connections, gaps and heartbeats.
NoEventIsSkipped ==
  \A c \in Clients : \A n \in retained :
    (stream[c].skipped < n /\ n <= stream[c].cursor) => n \in stream[c].seen

\* The connection of a client stands and the final event has not been written to it.
AwaitsFinal(c) ==
  /\ stream[c].pc \in {"subscribed", "listed", "waiting"}
  /\ \E n \in retained \cap final : n > stream[c].cursor

\* No stream stands for ever without the final event, though wake-ups are lost,
\* queues are full and writers die: the safety sweep comes to every subscriber,
\* a batch at a time, though other streams come and go.
FinalEventIsStreamed == \A c \in Clients : AwaitsFinal(c) ~> ~AwaitsFinal(c)
===============================================================================
