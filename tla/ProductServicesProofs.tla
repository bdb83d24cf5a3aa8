------------------------ MODULE ProductServicesProofs -------------------------
(***************************************************************************)
(* Proofs of the properties of PublicEventStream, ThreadBinding and        *)
(* Planning for every number of replicas, streams and events, of keys,     *)
(* workspaces and Runs, for every catalogue, request and Host.             *)
(***************************************************************************)
EXTENDS PublicEventStream, ThreadBinding, Planning, FiniteSetTheorems, TLAPS

-------------------------------------------------------------------------------
(* Public events *)

\* In a finite, nonempty set some element is given the greatest number.
LEMMA GreatestExists ==
  ASSUME NEW s, IsFiniteSet(s), s # {}, NEW f \in [s -> Int]
  PROVE  \E x \in s : \A y \in s : f[y] <= f[x]
<1> DEFINE Above(x) == {y \in s : f[y] > f[x]}
           T == {Above(x) : x \in s}
<1>1. T \subseteq FiniteSubsetsOf(s) /\ T # {}
  <2>1. \A x \in s : Above(x) \subseteq s /\ IsFiniteSet(Above(x))
    BY FS_Subset
  <2>2. \A x \in s : Above(x) \in FiniteSubsetsOf(s)
    <3> HIDE DEF Above
    <3> QED BY <2>1 DEF FiniteSubsetsOf
  <2> HIDE DEF Above
  <2> QED BY <2>2
<1>2. PICK t \in T : \A u \in T : <<u, t>> \notin StrictSubsetOrdering(s)
  <2>1. IsWellFoundedOn(StrictSubsetOrdering(s), FiniteSubsetsOf(s))
    BY FS_StrictSubsetOrderingWellFounded
  <2> HIDE DEF T
  <2> QED BY <1>1, <2>1, WFMin
<1>3. PICK x \in s : t = Above(x)
  OBVIOUS
<1>4. ASSUME NEW y \in s, f[y] > f[x] PROVE FALSE
  <2>1. Above(y) \subseteq Above(x) /\ y \in Above(x) /\ y \notin Above(y) /\ Above(y) \in T
    BY <1>4
  <2>2. <<Above(y), Above(x)>> \in StrictSubsetOrdering(s)
    BY <2>1 DEF StrictSubsetOrdering
  <2> QED BY <1>2, <1>3, <2>1, <2>2
<1>5. \A y \in s : f[y] <= f[x]
  BY <1>4
<1> QED BY <1>5

\* Largest and Smallest are what their names say.
LEMMA LargestIs ==
  ASSUME NEW s \in SUBSET Int, IsFiniteSet(s), s # {}
  PROVE  Largest(s) \in s /\ \A y \in s : y <= Largest(s)
<1> DEFINE f == [z \in s |-> z]
<1>1. f \in [s -> Int] /\ \A y \in s : f[y] = y
  OBVIOUS
<1> HIDE DEF f
<1>2. \E x \in s : \A y \in s : f[y] <= f[x]
  BY <1>1, GreatestExists
<1>3. \E x \in s : \A y \in s : y <= x
  BY <1>1, <1>2
<1> QED BY <1>3 DEF Largest

LEMMA SmallestIs ==
  ASSUME NEW s \in SUBSET Int, IsFiniteSet(s), s # {}
  PROVE  Smallest(s) \in s /\ \A y \in s : Smallest(s) <= y
<1> DEFINE f == [z \in s |-> -z]
<1>1. f \in [s -> Int] /\ \A y \in s : f[y] = -y
  OBVIOUS
<1> HIDE DEF f
<1>2. \E x \in s : \A y \in s : f[y] <= f[x]
  BY <1>1, GreatestExists
<1>3. \E x \in s : \A y \in s : x <= y
  BY <1>1, <1>2
<1> QED BY <1>3 DEF Smallest

Page == [items : SUBSET Sequences, more : BOOLEAN, latest : Int, terminal : Int, gap : BOOLEAN,
         oldest : Int]
Stream == [pc : {"off", "subscribed", "listed", "waiting", "closed"}, cursor : 0..MaxEvents,
           page : Page, woken : BOOLEAN, seen : SUBSET Sequences, skipped : Int, connects : Nat]

\* A cursor and a page lie within the log; what the log has between them is on
\* the page; the end of a gap lies within the log.
Sound(s, log) ==
  /\ s.cursor = 0 \/ \E k \in log : s.cursor <= k
  /\ s.pc \in {"listed", "waiting"} =>
       /\ \A i \in s.page.items : \E k \in log : i <= k
       /\ \A n \in log, i \in s.page.items : s.cursor < n /\ n <= i => n \in s.page.items
       /\ s.page.gap => s.page.oldest > 1 /\ s.page.oldest <= MaxEvents /\ \E k \in log : s.page.oldest <= k
  /\ \A n \in log : s.skipped < n /\ n <= s.cursor => n \in s.seen

EventInv ==
  /\ retained \subseteq Sequences /\ stream \in [Clients -> Stream]
  /\ \A c \in Clients : Sound(stream[c], retained)

\* The numbers of a log are finitely many.
LEMMA LogFinite == \A s \in SUBSET (0..MaxEvents) : IsFiniteSet(s) /\ s \subseteq Int
<1>1. IsFiniteSet(0..MaxEvents)
  BY FS_Interval, StreamAssumption
<1>2. \A s \in SUBSET (0..MaxEvents) : IsFiniteSet(s)
  BY <1>1, FS_Subset
<1>3. 0..MaxEvents \subseteq Int
  OBVIOUS
<1> QED BY <1>2, <1>3

\* A page is a stretch of the log from the cursor on.
LEMMA PageIsWhole ==
  ASSUME NEW cursor \in 0..MaxEvents, retained \subseteq Sequences
  PROVE  /\ PageAfter(cursor) \in Page
         /\ PageAfter(cursor).items \subseteq retained
         /\ \A n \in retained, i \in PageAfter(cursor).items :
              cursor < n /\ n <= i => n \in PageAfter(cursor).items
         /\ PageAfter(cursor).gap => PageAfter(cursor).oldest \in retained /\ PageAfter(cursor).oldest > 1
<1> DEFINE after == {n \in retained : n > cursor}
           upTo(n) == {k \in after : k <= n}
           items == {n \in after : Cardinality(upTo(n)) <= PageSize}
           gap == Smallest(retained) > 1 /\ cursor < Smallest(retained) - 1
           more == items # after \/ (~gap /\ Largest(items \cup {cursor}) < Largest(retained))
           page == [items |-> items, latest |-> Largest(retained), oldest |-> Smallest(retained), gap |-> gap,
                    more |-> more, terminal |-> Largest(retained \cap final)]
<1>1. PageAfter(cursor) = page
  BY DEF PageAfter
<1>2. retained \subseteq 0..MaxEvents /\ retained \subseteq Nat
  BY StreamAssumption DEF Sequences
<1>3. \A s \in SUBSET retained : IsFiniteSet(s) /\ s \subseteq Int
  BY <1>2, LogFinite
<1>4. \A s \in SUBSET retained : Largest(s) \in Int
  <2>1. \A s \in SUBSET retained : s # {} => Largest(s) \in Int
    BY <1>3, LargestIs
  <2> QED BY <2>1 DEF Largest
<1>5. Smallest(retained) \in Int /\ (gap => Smallest(retained) \in retained /\ Smallest(retained) > 1)
  <2>1. CASE retained = {}
    BY <2>1 DEF Smallest
  <2>2. CASE retained # {}
    BY <1>3, <2>2, SmallestIs
  <2> QED BY <2>1, <2>2
<1>6. items \subseteq retained /\ gap \in BOOLEAN /\ more \in BOOLEAN
  OBVIOUS
<1>7. page \in Page
  <2>1. items \in SUBSET Sequences
    BY <1>6
  <2>2. Largest(retained) \in Int /\ Largest(retained \cap final) \in Int
    BY <1>4
  <2> HIDE DEF items, gap, more
  <2> QED BY <1>5, <1>6, <2>1, <2>2 DEF Page
<1>8. ASSUME NEW n \in retained, NEW i \in items, cursor < n, n <= i PROVE n \in items
  <2>1. upTo(n) \subseteq upTo(i) /\ n \in after /\ upTo(i) \subseteq retained
    <3>1. n \in Int /\ i \in Int /\ cursor \in Int /\ retained \subseteq Int
      BY <1>2, <1>6, <1>8
    <3> HIDE DEF items, gap, more, page
    <3>2. n \in after /\ after \subseteq Int /\ after \subseteq retained
      BY <1>8, <3>1
    <3> HIDE DEF after
    <3>3. \A k \in upTo(n) : k \in upTo(i)
      BY <1>8, <3>1, <3>2
    <3> QED BY <3>2, <3>3
  <2>2. IsFiniteSet(upTo(i)) /\ IsFiniteSet(upTo(n))
    BY <1>3, <2>1
  <2>3. Cardinality(upTo(n)) <= Cardinality(upTo(i)) /\ Cardinality(upTo(n)) \in Nat /\ Cardinality(upTo(i)) \in Nat
    <3> HIDE DEF upTo
    <3> QED BY <2>1, <2>2, FS_Subset, FS_CardinalityType
  <2>4. Cardinality(upTo(i)) <= PageSize /\ PageSize \in Nat
    BY <1>8, StreamAssumption
  <2>5. Cardinality(upTo(n)) <= PageSize
    <3> HIDE DEF upTo
    <3> QED BY <2>3, <2>4
  <2> QED BY <2>1, <2>5
<1>9. page.items = items /\ page.gap = gap /\ page.oldest = Smallest(retained)
  OBVIOUS
<1> HIDE DEF items, gap, more, page
<1> QED BY <1>1, <1>5, <1>6, <1>7, <1>8, <1>9

\* The invariant holds before the first event.
LEMMA EventsStart == EventInit => EventInv
BY StreamAssumption DEF EventInit, EventInv, Sound, Stream, Page, NoPage

\* An event is appended behind all others.
LEMMA AppendSafe ==
  ASSUME EventInv, NEW w, NEW t \in BOOLEAN, AppendPublicEvent(w, t)
  PROVE  EventInv'
<1> DEFINE n == Largest(retained) + 1
<1>1. n \in Sequences /\ retained' = retained \cup {n} /\ stream' = stream
  BY DEF AppendPublicEvent
<1>2. \A k \in retained : k < n
  <2>1. IsFiniteSet(retained) /\ retained \in SUBSET Int
    BY LogFinite, StreamAssumption DEF EventInv, Sequences
  <2>2. \A k \in retained : k <= Largest(retained) /\ Largest(retained) \in Int
    BY <2>1, LargestIs
  <2> QED BY <2>1, <2>2
<1> HIDE DEF n
<1>3. ASSUME NEW c \in Clients PROVE Sound(stream[c], retained')
  <2>1. Sound(stream[c], retained) /\ stream[c] \in Stream /\ retained \subseteq Int /\ n \in 1..MaxEvents
    BY <1>1, StreamAssumption DEF EventInv, Sequences
  <2>2. stream[c].cursor \in Int /\ stream[c].cursor < n
    BY <1>1, <1>2, <2>1, StreamAssumption DEF Sound, Stream, Sequences
  <2>3. stream[c].page.items \subseteq Int
    BY <2>1, StreamAssumption DEF Stream, Page, Sequences
  <2>4. stream[c].pc \in {"listed", "waiting"} => \A i \in stream[c].page.items : i < n
    BY <1>1, <1>2, <2>1, <2>3 DEF Sound, Sequences
  <2>5. \A k \in retained' : k = n \/ k \in retained
    BY <1>1
  <2>6. \A x \in Int : (\E k \in retained : x <= k) => \E k \in retained' : x <= k
    BY <1>1
  <2>7. \A k \in retained' : stream[c].skipped < k /\ k <= stream[c].cursor => k \in stream[c].seen
    <3>1. \A k \in retained : stream[c].skipped < k /\ k <= stream[c].cursor => k \in stream[c].seen
      BY <2>1 DEF Sound
    <3>2. n \in Int
      BY <2>1
    <3> QED BY <2>2, <2>5, <3>1, <3>2
  <2>8. stream[c].cursor = 0 \/ \E k \in retained' : stream[c].cursor <= k
    BY <2>1, <2>2, <2>6 DEF Sound
  <2>9. CASE stream[c].pc \in {"listed", "waiting"}
    <3>1. \A i \in stream[c].page.items : \E k \in retained' : i <= k
      BY <2>1, <2>3, <2>6, <2>9 DEF Sound
    <3>2. \A k \in retained', i \in stream[c].page.items :
            stream[c].cursor < k /\ k <= i => k \in stream[c].page.items
      <4>1. \A k \in retained, i \in stream[c].page.items :
              stream[c].cursor < k /\ k <= i => k \in stream[c].page.items
        BY <2>1, <2>9 DEF Sound
      <4>2. n \in Int /\ \A i \in stream[c].page.items : i \in Int /\ i < n
        BY <2>1, <2>3, <2>4, <2>9
      <4> QED BY <2>5, <4>1, <4>2
    <3>3. stream[c].page.gap => /\ stream[c].page.oldest > 1 /\ stream[c].page.oldest <= MaxEvents
                                /\ \E k \in retained' : stream[c].page.oldest <= k
      BY <1>1, <2>1, <2>9 DEF Sound
    <3> QED BY <2>7, <2>8, <3>1, <3>2, <3>3 DEF Sound
  <2> QED BY <2>7, <2>8, <2>9 DEF Sound
<1> QED BY <1>1, <1>3 DEF EventInv

\* The last event is never pruned.
LEMMA PruneSafe ==
  ASSUME EventInv, NEW n \in Sequences, PrunePublicEventsBefore(n)
  PROVE  EventInv'
<1>1. n \in retained /\ retained' = {k \in retained : k >= n} /\ stream' = stream
  BY DEF PrunePublicEventsBefore
<1>2. retained \subseteq Int
  BY StreamAssumption DEF EventInv, Sequences
<1>3. \A x \in Int : (\E k \in retained : x <= k) => \E k \in retained' : x <= k
  BY <1>1, <1>2
<1>4. ASSUME NEW c \in Clients PROVE Sound(stream[c], retained')
  <2>1. Sound(stream[c], retained) /\ stream[c] \in Stream /\ retained' \subseteq retained
    BY <1>1 DEF EventInv
  <2>2. stream[c].cursor \in Int /\ stream[c].page.items \subseteq Int /\ stream[c].page.oldest \in Int
    BY <2>1, StreamAssumption DEF Stream, Page, Sequences
  <2> QED BY <1>3, <2>1, <2>2 DEF Sound
<1> QED BY <1>1, <1>4 DEF EventInv

\* A wake-up changes nothing of a stream but that it is woken.
LEMMA WokenSafe ==
  ASSUME EventInv, UNCHANGED retained, NEW woken,
         stream' = [c \in Clients |-> IF c \in woken THEN [stream[c] EXCEPT !.woken = TRUE] ELSE stream[c]]
  PROVE  EventInv'
<1>1. ASSUME NEW c \in Clients PROVE stream'[c] \in Stream /\ Sound(stream'[c], retained)
  <2>1. stream[c] \in Stream /\ Sound(stream[c], retained)
    BY DEF EventInv
  <2>2. CASE stream'[c] = [stream[c] EXCEPT !.woken = TRUE]
    BY <2>1, <2>2 DEF Stream, Sound
  <2>3. CASE stream'[c] = stream[c]
    BY <2>1, <2>3
  <2> QED BY <2>2, <2>3
<1> QED BY <1>1 DEF EventInv

\* What happens around the streams leaves their invariant.
LEMMA AroundSafe ==
  ASSUME EventInv,
         \/ \E w \in {"worker", "api"} : Notify(w) \/ WriterStops(w)
         \/ PublishLoop \/ ReceiveWakeup \/ SubscribeLoop \/ RecoveryTriggered \/ SafetyTick \/ RecoverBatch
         \/ \E b \in Bystanders : BystanderConnects(b) \/ BystanderLeaves(b)
  PROVE  EventInv'
<1>1. CASE UNCHANGED <<retained, stream>>
  BY <1>1 DEF EventInv
<1>2. CASE UNCHANGED retained /\ WakeAll
  <2>1. stream' = [c \in Clients |-> IF c \in {d \in Clients : Subscribed(d)}
                                     THEN [stream[c] EXCEPT !.woken = TRUE] ELSE stream[c]]
    BY <1>2 DEF WakeAll
  <2> QED BY <1>2, <2>1, WokenSafe
<1>3. CASE RecoverBatch
  <2>1. UNCHANGED retained
    BY <1>3 DEF RecoverBatch
  <2> DEFINE total == Len(subscribers)
             n == Lesser(Lesser(RecoveryBatch, IF sweep.left > 0 THEN sweep.left ELSE total), total)
  <2>2. \/ UNCHANGED stream
        \/ stream' = [c \in Clients |-> IF c \in BatchFrom(n) THEN [stream[c] EXCEPT !.woken = TRUE]
                                                               ELSE stream[c]]
    BY <1>3 DEF RecoverBatch
  <2> HIDE DEF n
  <2> QED BY <1>1, <2>1, <2>2, WokenSafe
<1> QED BY <1>1, <1>2, <1>3 DEF Notify, WriterStops, PublishLoop, ReceiveWakeup, SubscribeLoop,
     RecoveryTriggered, SafetyTick, BystanderConnects, BystanderLeaves

\* A stream that neither has a page nor a new cursor is as sound as before.
LEMMA RestingSound ==
  ASSUME NEW s, NEW x, NEW log, Sound(s, log), x.cursor = s.cursor, x.seen = s.seen, x.skipped = s.skipped,
         x.pc \notin {"listed", "waiting"}
  PROVE  Sound(x, log)
BY DEF Sound

LEMMA NoPageTyped == NoPage \in Page
BY DEF NoPage, Page

\* A stream reads, writes, leaves and comes back without losing an event.
LEMMA StreamSafe ==
  ASSUME EventInv, NEW c \in Clients,
         Connect(c) \/ ListPublicEvents(c) \/ WritePage(c) \/ Heartbeat(c) \/ Disconnect(c)
  PROVE  EventInv'
<1> DEFINE s == stream[c]
<1>t. s \in Stream /\ Sound(s, retained) /\ retained \subseteq Int
  BY StreamAssumption DEF EventInv, Sequences
<1>r. UNCHANGED retained
  BY DEF Connect, ListPublicEvents, WritePage, Heartbeat, Disconnect
<1>w. SUFFICES \E x \in Stream : stream' = [stream EXCEPT ![c] = x] /\ Sound(x, retained)
  BY <1>r DEF EventInv
<1>1. CASE Connect(c)
  <2> DEFINE x == [s EXCEPT !.pc = "subscribed", !.woken = FALSE, !.connects = s.connects + 1]
  <2>1. stream' = [stream EXCEPT ![c] = x]
    BY <1>1 DEF Connect
  <2>2. /\ x \in Stream /\ x.pc = "subscribed"
        /\ x.cursor = s.cursor /\ x.seen = s.seen /\ x.skipped = s.skipped
    <3> DEFINE connects == s.connects + 1
    <3>1. connects \in Nat /\ x = [s EXCEPT !.pc = "subscribed", !.woken = FALSE, !.connects = connects]
      BY <1>t DEF Stream
    <3> HIDE DEF connects, x
    <3> QED BY <1>t, <3>1 DEF Stream
  <2> HIDE DEF x
  <2> QED BY <1>t, <2>1, <2>2, RestingSound
<1>2. CASE ListPublicEvents(c)
  <2> DEFINE p == PageAfter(s.cursor)
  <2>1. /\ p \in Page /\ p.items \subseteq retained
        /\ \A n \in retained, i \in p.items : s.cursor < n /\ n <= i => n \in p.items
        /\ p.gap => p.oldest \in retained /\ p.oldest > 1
    BY <1>t, PageIsWhole DEF EventInv, Stream
  <2>2. p.gap => p.oldest <= MaxEvents
    <3> HIDE DEF p
    <3>1. \A k \in retained : k <= MaxEvents
      BY StreamAssumption DEF EventInv, Sequences
    <3> QED BY <2>1, <3>1
  <2>3. \A i \in p.items \cup {p.oldest} : i \in retained => \E k \in retained : i <= k
    BY <1>t
  <2> DEFINE Listed(woken) == [s EXCEPT !.page = p, !.pc = "listed", !.woken = woken]
  <2>4. PICK woken \in BOOLEAN : stream' = [stream EXCEPT ![c] = Listed(woken)]
    <3>1. s = [s EXCEPT !.woken = s.woken] /\ s.woken \in BOOLEAN
      BY <1>t DEF Stream
    <3>2. Listed(s.woken) = [s EXCEPT !.page = p, !.pc = "listed"]
      <4> HIDE DEF p
      <4> QED BY <1>t DEF Stream
    <3>3. \/ stream' = [stream EXCEPT ![c] = [s EXCEPT !.page = p, !.pc = "listed"]]
          \/ stream' = [stream EXCEPT ![c] = Listed(FALSE)]
      BY <1>2 DEF ListPublicEvents
    <3> HIDE DEF Listed
    <3> QED BY <3>1, <3>2, <3>3
  <2> DEFINE x == Listed(woken)
  <2> HIDE DEF p
  <2>5. x \in Stream
    BY <1>t, <2>1 DEF Stream
  <2>6. x.page = p /\ x.cursor = s.cursor /\ x.seen = s.seen /\ x.skipped = s.skipped
    BY <1>t DEF Stream
  <2> HIDE DEF x
  <2>7. Sound(x, retained)
    BY <1>t, <2>1, <2>2, <2>3, <2>6 DEF Sound
  <2>8. stream' = [stream EXCEPT ![c] = x]
    BY <2>4 DEF x
  <2> QED BY <2>5, <2>7, <2>8
<1>3. CASE WritePage(c)
  <2> DEFINE p == s.page
             cursor == Largest(p.items \cup {s.cursor})
  <2>1. s.pc = "listed" /\ p \in Page
    BY <1>3, <1>t DEF WritePage, Stream
  <2>2. /\ cursor \in p.items \cup {s.cursor} /\ (\A i \in p.items \cup {s.cursor} : i <= cursor)
        /\ cursor \in 0..MaxEvents /\ p.items \subseteq Int /\ s.cursor \in Int
    <3>1. p.items \cup {s.cursor} \subseteq 0..MaxEvents
      BY <1>t, <2>1, StreamAssumption DEF Page, Stream, Sequences
    <3>2. IsFiniteSet(p.items \cup {s.cursor}) /\ p.items \cup {s.cursor} \subseteq Int
      BY <3>1, LogFinite
    <3>3. /\ cursor \in p.items \cup {s.cursor}
          /\ \A i \in p.items \cup {s.cursor} : i <= cursor
      BY <3>2, LargestIs
    <3> HIDE DEF cursor
    <3> QED BY <3>1, <3>2, <3>3
  <2> HIDE DEF cursor
  <2>3. CASE p.gap
    <3> DEFINE x == [s EXCEPT !.pc = "off", !.cursor = p.oldest - 1, !.skipped = p.oldest - 1,
                              !.page = NoPage, !.woken = FALSE]
    <3>1. stream' = [stream EXCEPT ![c] = x]
      BY <1>3, <2>3 DEF WritePage
    <3>2. p.oldest > 1 /\ p.oldest <= MaxEvents /\ p.oldest \in Int /\ \E k \in retained : p.oldest <= k
      BY <1>t, <2>1, <2>3 DEF Sound, Page
    <3>3. x \in Stream
      <4> DEFINE o == p.oldest - 1
      <4>1. o \in 0..MaxEvents /\ o \in Int
        BY <3>2, StreamAssumption
      <4>2. x = [s EXCEPT !.pc = "off", !.cursor = o, !.skipped = o, !.page = NoPage, !.woken = FALSE]
        OBVIOUS
      <4> HIDE DEF o, x
      <4> QED BY <1>t, <4>1, <4>2, NoPageTyped DEF Stream
    <3>4. x.cursor = p.oldest - 1 /\ x.skipped = p.oldest - 1 /\ x.pc = "off"
      BY <1>t DEF Stream
    <3> HIDE DEF x
    <3>5. \E k \in retained : x.cursor <= k
      BY <1>t, <3>2, <3>4
    <3>6. \A n \in retained : ~(x.skipped < n /\ n <= x.cursor)
      BY <1>t, <3>2, <3>4
    <3>7. Sound(x, retained)
      BY <3>4, <3>5, <3>6 DEF Sound
    <3> QED BY <3>1, <3>3, <3>7
  <2>4. CASE ~p.gap
    <3>1. PICK x \in Stream :
             /\ stream' = [stream EXCEPT ![c] = x]
             /\ x.cursor = cursor /\ x.seen = s.seen \cup p.items /\ x.skipped = s.skipped
             /\ x.pc \in {"closed", "subscribed"} \/ (x.pc = "waiting" /\ x.page = p)
      <4>1. CASE EndsStream(p, cursor)
        <5> DEFINE x == [s EXCEPT !.pc = "closed", !.cursor = cursor, !.page = NoPage,
                                  !.seen = s.seen \cup p.items, !.woken = FALSE]
        <5>1. stream' = [stream EXCEPT ![c] = x]
          BY <1>3, <2>4, <4>1 DEF WritePage, CursorAfter, cursor
        <5>2. x \in Stream
          <6>1. s.seen \cup p.items \in SUBSET Sequences
            BY <1>t, <2>1 DEF Stream, Page
          <6> QED BY <1>t, <2>2, <6>1, NoPageTyped DEF Stream
        <5>3. x.cursor = cursor /\ x.seen = s.seen \cup p.items /\ x.skipped = s.skipped /\ x.pc = "closed"
          BY <1>t DEF Stream
        <5> HIDE DEF x
        <5> QED BY <5>1, <5>2, <5>3
      <4>2. CASE ~EndsStream(p, cursor)
        <5> DEFINE pc == IF p.more THEN "subscribed" ELSE "waiting"
                   x == [s EXCEPT !.cursor = cursor, !.seen = s.seen \cup p.items, !.pc = pc]
        <5>1. stream' = [stream EXCEPT ![c] = x]
          BY <1>3, <2>4, <4>2 DEF WritePage, CursorAfter, cursor
        <5>2. pc \in {"subscribed", "waiting"}
          OBVIOUS
        <5> HIDE DEF pc
        <5>3. x \in Stream
          <6>1. s.seen \cup p.items \in SUBSET Sequences
            BY <1>t, <2>1 DEF Stream, Page
          <6> QED BY <1>t, <2>2, <5>2, <6>1 DEF Stream
        <5>4. x.cursor = cursor /\ x.seen = s.seen \cup p.items /\ x.skipped = s.skipped /\ x.pc = pc /\ x.page = p
          BY <1>t DEF Stream
        <5> HIDE DEF x
        <5> QED BY <5>1, <5>2, <5>3, <5>4
      <4> QED BY <4>1, <4>2
    <3>2. /\ \A i \in p.items : \E k \in retained : i <= k
          /\ \A n \in retained, i \in p.items : s.cursor < n /\ n <= i => n \in p.items
          /\ s.cursor = 0 \/ \E k \in retained : s.cursor <= k
          /\ \A n \in retained : s.skipped < n /\ n <= s.cursor => n \in s.seen
      BY <1>t, <2>1 DEF Sound
    <3>3. cursor = 0 \/ \E k \in retained : cursor <= k
      BY <2>2, <3>2
    <3>4. \A n \in retained : s.skipped < n /\ n <= cursor => n \in s.seen \cup p.items
      BY <1>t, <2>2, <3>2
    <3>5. \A n \in retained, i \in p.items : ~(cursor < n /\ n <= i)
      BY <1>t, <2>2
    <3>6. Sound(x, retained)
      BY <2>4, <3>1, <3>2, <3>3, <3>4, <3>5 DEF Sound
    <3> QED BY <3>1, <3>6
  <2> QED BY <2>3, <2>4
<1>4. CASE Heartbeat(c)
  <2> DEFINE x == [s EXCEPT !.pc = "listed"]
  <2>1. stream' = [stream EXCEPT ![c] = x] /\ s.pc = "waiting"
    BY <1>4 DEF Heartbeat
  <2>2. x \in Stream /\ Sound(x, retained)
    BY <1>t, <2>1 DEF Stream, Sound
  <2> HIDE DEF x
  <2> QED BY <2>1, <2>2
<1>5. CASE Disconnect(c)
  <2> DEFINE x == [s EXCEPT !.pc = "off", !.page = NoPage, !.woken = FALSE]
  <2>1. stream' = [stream EXCEPT ![c] = x]
    BY <1>5 DEF Disconnect
  <2>2. /\ x \in Stream /\ x.pc = "off"
        /\ x.cursor = s.cursor /\ x.seen = s.seen /\ x.skipped = s.skipped
    BY <1>t, NoPageTyped DEF Stream
  <2> HIDE DEF x
  <2> QED BY <1>t, <2>1, <2>2, RestingSound
<1> QED BY <1>1, <1>2, <1>3, <1>4, <1>5

\* Every step keeps the invariant.
LEMMA EventsStay == EventInv /\ [EventNext]_eventVars => EventInv'
<1> SUFFICES ASSUME EventInv, [EventNext]_eventVars PROVE EventInv'
  OBVIOUS
<1>1. CASE UNCHANGED eventVars
  BY <1>1 DEF EventInv, eventVars
<1>2. CASE EventNext
  BY <1>2, AppendSafe, PruneSafe, AroundSafe, StreamSafe DEF EventNext
<1> QED BY <1>1, <1>2

\* For every page size, every number of events, clients and connections: a cursor
\* never passes a kept event that was not delivered, but below a gap its client
\* was told of.
THEOREM EventsAreNotSkipped ==
  EventInit /\ [][EventNext]_eventVars => []NoEventIsSkipped
<1>1. EventInv => NoEventIsSkipped
  BY DEF EventInv, Sound, NoEventIsSkipped
<1> QED BY EventsStart, EventsStay, <1>1, PTL

\* A stream that is open has its subscription.
OpenIsSubscribed ==
  \A c \in Clients : stream[c].pc \in {"subscribed", "listed", "waiting"} => Subscribed(c)

EventTyped == EventTypeOK /\ OpenIsSubscribed

Has(s, d) == \E i \in 1..Len(s) : s[i] = d

\* What two lists hold one after the other.
LEMMA Joined ==
  ASSUME NEW S, NEW s \in Seq(S), NEW t \in Seq(S)
  PROVE  /\ s \o t \in Seq(S) /\ Len(s \o t) = Len(s) + Len(t)
         /\ \A n \in 1 .. Len(s) : (s \o t)[n] = s[n]
         /\ \A n \in 1 .. Len(t) : (s \o t)[Len(s) + n] = t[n]
OBVIOUS

\* A cancelled subscription leaves the others.
LEMMA OthersStay ==
  ASSUME subscribers \in Seq(Clients \cup Bystanders), NEW c, Subscribed(c)
  PROVE  /\ Unsubscribed(c) \in Seq(Clients \cup Bystanders)
         /\ \A d : Subscribed(d) /\ d # c => Has(Unsubscribed(c), d)
<1> DEFINE S == Clients \cup Bystanders
           place == CHOOSE i \in 1..Len(subscribers) : subscribers[i] = c
           before == SubSeq(subscribers, 1, place - 1)
           after == SubSeq(subscribers, place + 1, Len(subscribers))
<1>1. place \in 1..Len(subscribers) /\ subscribers[place] = c
  BY DEF Subscribed
<1> HIDE DEF place, S
<1>2. Len(subscribers) \in Nat /\ \A i \in 1..Len(subscribers) : subscribers[i] \in S
  BY DEF S
<1>3. /\ before \in Seq(S) /\ Len(before) = place - 1
      /\ \A i \in 1..(place - 1) : before[i] = subscribers[i]
  BY <1>1, <1>2
<1>4. /\ after \in Seq(S) /\ Len(after) = Len(subscribers) - place
      /\ \A i \in 1..(Len(subscribers) - place) : after[i] = subscribers[place + i]
  BY <1>1, <1>2
<1> HIDE DEF before, after
<1>5. /\ before \o after \in Seq(S) /\ Len(before \o after) = Len(before) + Len(after)
      /\ \A i \in 1..Len(before) : (before \o after)[i] = before[i]
      /\ \A i \in 1..Len(after) : (before \o after)[Len(before) + i] = after[i]
  <2>1. before \in Seq(S) /\ after \in Seq(S)
    BY <1>3, <1>4
  <2> QED BY <2>1, Joined
<1>6. Unsubscribed(c) = before \o after
  BY DEF Unsubscribed, before, after, place
<1>7. ASSUME NEW d, Subscribed(d), d # c PROVE Has(before \o after, d)
  <2>1. PICK i \in 1..Len(subscribers) : subscribers[i] = d
    BY <1>7 DEF Subscribed
  <2>2. CASE i < place
    <3>1. i \in 1..Len(before) /\ before[i] = d /\ i \in 1..Len(before \o after)
      BY <1>1, <1>2, <1>3, <1>4, <1>5, <2>1, <2>2
    <3> QED BY <1>5, <3>1 DEF Has
  <2>3. CASE i > place
    <3>1. i - place \in 1..Len(after) /\ place + (i - place) = i
      BY <1>1, <1>2, <1>4, <2>1, <2>3
    <3>2. after[i - place] = d
      BY <1>4, <2>1, <3>1
    <3>3. (before \o after)[Len(before) + (i - place)] = d /\ Len(before) + (i - place) \in 1..Len(before \o after)
      BY <1>1, <1>3, <1>4, <1>5, <3>1, <3>2
    <3> QED BY <3>3 DEF Has
  <2>4. i # place
    BY <1>1, <1>7, <2>1
  <2> QED BY <1>1, <2>1, <2>2, <2>3, <2>4
<1> QED BY <1>5, <1>6, <1>7 DEF S

\* One that is put among them leaves the others too.
LEMMA OthersStayBeside ==
  ASSUME subscribers \in Seq(Clients \cup Bystanders), NEW b \in Clients \cup Bystanders, NEW n \in 0..Len(subscribers)
  PROVE  LET all == SubSeq(subscribers, 1, n) \o <<b>> \o SubSeq(subscribers, n + 1, Len(subscribers)) IN
         /\ all \in Seq(Clients \cup Bystanders)
         /\ \A d : Subscribed(d) => Has(all, d)
<1> DEFINE S == Clients \cup Bystanders
           before == SubSeq(subscribers, 1, n)
           one == before \o <<b>>
           after == SubSeq(subscribers, n + 1, Len(subscribers))
<1> HIDE DEF S
<1>2. Len(subscribers) \in Nat /\ (\A i \in 1..Len(subscribers) : subscribers[i] \in S) /\ b \in S
  BY DEF S
<1>3. /\ before \in Seq(S) /\ Len(before) = n
      /\ \A i \in 1..n : before[i] = subscribers[i]
  BY <1>2
<1> HIDE DEF before
<1>4. /\ one \in Seq(S) /\ Len(one) = n + 1
      /\ \A i \in 1..n : one[i] = subscribers[i]
  BY <1>2, <1>3
<1>5. /\ after \in Seq(S) /\ Len(after) = Len(subscribers) - n
      /\ \A i \in 1..(Len(subscribers) - n) : after[i] = subscribers[n + i]
  BY <1>2
<1> HIDE DEF one, after
<1>6. /\ one \o after \in Seq(S) /\ Len(one \o after) = Len(one) + Len(after)
      /\ \A i \in 1..Len(one) : (one \o after)[i] = one[i]
      /\ \A i \in 1..Len(after) : (one \o after)[Len(one) + i] = after[i]
  <2>1. one \in Seq(S) /\ after \in Seq(S)
    BY <1>4, <1>5
  <2> QED BY <2>1, Joined
<1>7. ASSUME NEW d, Subscribed(d) PROVE Has(one \o after, d)
  <2>1. PICK i \in 1..Len(subscribers) : subscribers[i] = d
    BY <1>7 DEF Subscribed
  <2>2. CASE i <= n
    <3>1. i \in 1..Len(one) /\ one[i] = d /\ i \in 1..Len(one \o after)
      BY <1>2, <1>4, <1>5, <1>6, <2>1, <2>2
    <3> QED BY <1>6, <3>1 DEF Has
  <2>3. CASE i > n
    <3>1. i - n \in 1..Len(after) /\ n + (i - n) = i
      BY <1>2, <1>5, <2>1, <2>3
    <3>2. after[i - n] = d
      BY <1>5, <2>1, <3>1
    <3>3. (one \o after)[Len(one) + (i - n)] = d /\ Len(one) + (i - n) \in 1..Len(one \o after)
      BY <1>4, <1>5, <1>6, <3>1, <3>2
    <3> QED BY <3>3 DEF Has
  <2> QED BY <1>2, <2>1, <2>2, <2>3
<1> QED BY <1>6, <1>7 DEF S, one, before, after

\* Steps that leave the subscriptions alone and open no stream.
LEMMA QuietTyped ==
  ASSUME EventTyped, UNCHANGED <<subscribers, comings>>,
         retained' \subseteq Sequences, final' \subseteq Sequences, owed' \subseteq {"worker", "api"},
         publishing' \in BOOLEAN, inFlight' \in BOOLEAN, connected' \in BOOLEAN,
         sweep' \in [triggered : BOOLEAN, left : Nat, cursor : Nat], stream' \in [Clients -> Stream],
         \A c \in Clients : /\ stream'[c].connects = stream[c].connects
                            /\ stream'[c].pc \in {"subscribed", "listed", "waiting"} =>
                                 stream[c].pc \in {"subscribed", "listed", "waiting"}
  PROVE  EventTyped'
<1>1. OpenIsSubscribed'
  BY DEF EventTyped, OpenIsSubscribed, Subscribed
<1>2. \A c \in Clients : stream'[c] \in Stream
  OBVIOUS
<1>3. EventTypeOK'
  BY <1>2 DEF EventTyped, EventTypeOK, Stream
<1> QED BY <1>1, <1>3 DEF EventTyped

\* What a wake-up changes of the streams.
LEMMA WokenTyped ==
  ASSUME stream \in [Clients -> Stream], NEW woken,
         stream' = [c \in Clients |-> IF c \in woken THEN [stream[c] EXCEPT !.woken = TRUE] ELSE stream[c]]
  PROVE  \A c \in Clients : stream'[c].connects = stream[c].connects /\ stream'[c].pc = stream[c].pc
<1> SUFFICES ASSUME NEW c \in Clients PROVE stream'[c].connects = stream[c].connects /\ stream'[c].pc = stream[c].pc
  OBVIOUS
<1>1. stream[c] \in Stream
  OBVIOUS
<1>2. stream'[c] = [stream[c] EXCEPT !.woken = TRUE] \/ stream'[c] = stream[c]
  OBVIOUS
<1> QED BY <1>1, <1>2 DEF Stream

\* The cursor of the sweep and what is left of it are numbers.
LEMMA RecoveryScanTyped ==
  ASSUME EventTyped, SubscribeLoop \/ RecoveryTriggered \/ SafetyTick \/ RecoverBatch
  PROVE  sweep' \in [triggered : BOOLEAN, left : Nat, cursor : Nat]
<1>1. sweep \in [triggered : BOOLEAN, left : Nat, cursor : Nat] /\ Len(subscribers) \in Nat
  BY DEF EventTyped, EventTypeOK
<1>2. CASE SubscribeLoop \/ RecoveryTriggered \/ SafetyTick
  BY <1>1, <1>2 DEF SubscribeLoop, RecoveryTriggered, BeginRecovery, SafetyTick
<1>3. CASE RecoverBatch
  <2> DEFINE total == Len(subscribers)
             left  == IF sweep.left > 0 THEN sweep.left ELSE total
             n     == Lesser(Lesser(RecoveryBatch, left), total)
  <2>1. \/ sweep' = [sweep EXCEPT !.left = 0]
        \/ total # 0 /\ sweep' = [sweep EXCEPT !.left = left - n, !.cursor = (@ + n) % total]
    BY <1>3 DEF RecoverBatch
  <2>2. n \in Nat /\ n <= left /\ left \in Nat
    BY <1>1, StreamAssumption DEF Lesser
  <2> HIDE DEF n, left
  <2>3. CASE total # 0
    <3>1. (sweep.cursor + n) % total \in Nat /\ left - n \in Nat
      <4>1. sweep.cursor + n \in Nat /\ total \in Nat \ {0}
        BY <1>1, <2>2, <2>3
      <4> HIDE DEF total
      <4> QED BY <2>2, <4>1
    <3>2. ASSUME NEW x \in Nat, NEW y \in Nat
          PROVE  /\ [sweep EXCEPT !.left = x, !.cursor = y] \in [triggered : BOOLEAN, left : Nat, cursor : Nat]
                 /\ [sweep EXCEPT !.left = 0] \in [triggered : BOOLEAN, left : Nat, cursor : Nat]
      BY <1>1
    <3> QED BY <2>1, <3>1, <3>2
  <2> QED BY <1>1, <2>1, <2>3
<1> QED BY <1>2, <1>3

\* What goes on around the streams keeps the types.
LEMMA AroundTyped ==
  ASSUME EventInv, EventInv', EventTyped,
         \/ \E w \in {"worker", "api"} :
              Notify(w) \/ WriterStops(w) \/ \E t \in BOOLEAN : AppendPublicEvent(w, t)
         \/ \E n \in Sequences : PrunePublicEventsBefore(n)
         \/ PublishLoop \/ ReceiveWakeup \/ SubscribeLoop \/ RecoveryTriggered \/ SafetyTick \/ RecoverBatch
  PROVE  EventTyped'
<1>i. /\ retained' \subseteq Sequences /\ stream \in [Clients -> Stream] /\ stream' \in [Clients -> Stream]
      /\ EventTypeOK
  BY DEF EventInv, EventTyped
<1>a. UNCHANGED <<subscribers, comings>>
  BY DEF Notify, WriterStops, AppendPublicEvent, PrunePublicEventsBefore, PublishLoop, ReceiveWakeup, SubscribeLoop,
         RecoveryTriggered, SafetyTick, RecoverBatch
<1>s. \A c \in Clients : stream'[c].connects = stream[c].connects /\ stream'[c].pc = stream[c].pc
  <2>1. CASE UNCHANGED stream
    BY <2>1
  <2>2. ASSUME NEW woken,
          stream' = [c \in Clients |-> IF c \in woken THEN [stream[c] EXCEPT !.woken = TRUE] ELSE stream[c]]
        PROVE  \A c \in Clients : stream'[c].connects = stream[c].connects /\ stream'[c].pc = stream[c].pc
    BY <1>i, <2>2, WokenTyped
  <2>3. CASE WakeAll
    <3>1. stream' = [c \in Clients |-> IF c \in {d \in Clients : Subscribed(d)}
                                       THEN [stream[c] EXCEPT !.woken = TRUE] ELSE stream[c]]
      BY <2>3 DEF WakeAll
    <3> QED BY <2>2, <3>1
  <2>4. CASE RecoverBatch
    <3>1. \/ UNCHANGED stream
          \/ \E woken : stream' = [c \in Clients |-> IF c \in woken THEN [stream[c] EXCEPT !.woken = TRUE]
                                                                    ELSE stream[c]]
      BY <2>4 DEF RecoverBatch
    <3> QED BY <2>1, <2>2, <3>1
  <2> QED BY <2>1, <2>3, <2>4 DEF Notify, WriterStops, AppendPublicEvent, PrunePublicEventsBefore, PublishLoop,
       ReceiveWakeup, SubscribeLoop, RecoveryTriggered, SafetyTick
<1>f. final' \subseteq Sequences /\ owed' \subseteq {"worker", "api"}
  BY <1>i DEF EventTypeOK, Notify, WriterStops, AppendPublicEvent, PrunePublicEventsBefore, PublishLoop,
     ReceiveWakeup, SubscribeLoop, RecoveryTriggered, SafetyTick, RecoverBatch
<1>b. publishing' \in BOOLEAN /\ inFlight' \in BOOLEAN /\ connected' \in BOOLEAN
  BY <1>i DEF EventTypeOK, Notify, WriterStops, AppendPublicEvent, PrunePublicEventsBefore, PublishLoop,
     ReceiveWakeup, SubscribeLoop, RecoveryTriggered, SafetyTick, RecoverBatch
<1>w. sweep' \in [triggered : BOOLEAN, left : Nat, cursor : Nat]
  BY <1>i, RecoveryScanTyped DEF EventTypeOK, Notify, WriterStops, AppendPublicEvent, PrunePublicEventsBefore, PublishLoop,
     ReceiveWakeup
<1> QED BY <1>i, <1>a, <1>s, <1>f, <1>b, <1>w, QuietTyped

\* A bystander comes and goes beside the streams of the Run.
LEMMA BystanderTyped ==
  ASSUME EventInv, EventInv', EventTyped, NEW b \in Bystanders, BystanderConnects(b) \/ BystanderLeaves(b)
  PROVE  EventTyped'
<1>i. EventTypeOK /\ subscribers \in Seq(Clients \cup Bystanders) /\ comings \in [Bystanders -> 0..MaxConnects]
  BY DEF EventTyped, EventTypeOK
<1>u. UNCHANGED <<retained, final, owed, publishing, inFlight, connected, sweep, stream>>
  BY DEF BystanderConnects, BystanderLeaves
<1>1. /\ subscribers' \in Seq(Clients \cup Bystanders)
      /\ \A c \in Clients : Subscribed(c) => Has(subscribers', c)
  <2>1. CASE BystanderConnects(b)
    <3>1. PICK n \in 0..Len(subscribers) :
            subscribers' = SubSeq(subscribers, 1, n) \o <<b>> \o SubSeq(subscribers, n + 1, Len(subscribers))
      BY <2>1 DEF BystanderConnects
    <3> QED BY <1>i, <3>1, OthersStayBeside
  <2>2. CASE BystanderLeaves(b)
    <3>1. Subscribed(b) /\ subscribers' = Unsubscribed(b)
      BY <2>2 DEF BystanderLeaves
    <3> QED BY <1>i, <3>1, OthersStay, ClientsAssumption
  <2> QED BY <2>1, <2>2
<1>2. comings' \in [Bystanders -> 0..MaxConnects]
  <2>1. CASE BystanderConnects(b)
    <3>1. comings[b] < MaxConnects /\ comings' = [comings EXCEPT ![b] = @ + 1]
      BY <2>1 DEF BystanderConnects
    <3>2. comings[b] + 1 \in 0..MaxConnects
      BY <1>i, <3>1, StreamAssumption
    <3> QED BY <1>i, <3>1, <3>2
  <2>2. CASE BystanderLeaves(b)
    BY <1>i, <2>2 DEF BystanderLeaves
  <2> QED BY <2>1, <2>2
<1>3. OpenIsSubscribed'
  BY <1>1, <1>u DEF EventTyped, OpenIsSubscribed, Subscribed, Has
<1> QED BY <1>i, <1>u, <1>1, <1>2, <1>3 DEF EventTyped, EventTypeOK

\* A stream subscribes before its first page and cancels when it ends.
LEMMA StreamTyped ==
  ASSUME EventInv, EventInv', EventTyped, NEW c \in Clients,
         Connect(c) \/ ListPublicEvents(c) \/ WritePage(c) \/ Heartbeat(c) \/ Disconnect(c)
  PROVE  EventTyped'
<1> DEFINE Open == {"subscribed", "listed", "waiting"}
<1>i. /\ EventTypeOK /\ subscribers \in Seq(Clients \cup Bystanders) /\ stream[c].connects \in 0..MaxConnects
      /\ stream \in [Clients -> Stream] /\ stream' \in [Clients -> Stream] /\ retained' \subseteq Sequences
  BY DEF EventInv, EventTyped, EventTypeOK
<1>u. UNCHANGED <<retained, final, owed, publishing, inFlight, connected, sweep, comings>>
  BY DEF Connect, ListPublicEvents, WritePage, Heartbeat, Disconnect
<1>o. \A d \in Clients : d # c => stream'[d] = stream[d]
  BY <1>i DEF Connect, ListPublicEvents, WritePage, Heartbeat, Disconnect
<1>s. stream[c] \in Stream /\ stream'[c] \in Stream
  BY <1>i
\* The three things that happen to a subscription.
<1>1. ASSUME stream'[c].connects \in 0..MaxConnects,
             subscribers' \in Seq(Clients \cup Bystanders),
             \A d \in Clients : d # c /\ Subscribed(d) => Has(subscribers', d),
             stream'[c].pc \in Open => Has(subscribers', c)
      PROVE  EventTyped'
  <2>1. OpenIsSubscribed'
    <3> SUFFICES ASSUME NEW d \in Clients, stream'[d].pc \in Open PROVE Has(subscribers', d)
      BY DEF OpenIsSubscribed, Subscribed, Has
    <3>1. d # c => Subscribed(d)
      BY <1>o DEF EventTyped, OpenIsSubscribed
    <3> QED BY <1>1, <3>1
  <2>2. ASSUME NEW d \in Clients PROVE stream'[d] \in Stream /\ stream'[d].connects \in 0..MaxConnects
    <3>1. d # c => stream'[d].connects = stream[d].connects /\ stream[d].connects \in 0..MaxConnects
      BY <1>i, <1>o DEF EventTypeOK
    <3> QED BY <1>i, <1>1, <3>1
  <2>3. EventTypeOK'
    BY <1>i, <1>u, <1>1, <2>2 DEF EventTypeOK, Stream
  <2> QED BY <2>1, <2>3 DEF EventTyped
<1>2. ASSUME stream'[c].connects = stream[c].connects, UNCHANGED subscribers, stream[c].pc \in Open
      PROVE  EventTyped'
  <2>1. \A d : Subscribed(d) => Has(subscribers', d)
    BY <1>2 DEF Subscribed, Has
  <2>2. Subscribed(c)
    BY <1>2 DEF EventTyped, OpenIsSubscribed
  <2> QED BY <1>i, <1>1, <1>2, <2>1, <2>2
<1>3. ASSUME stream'[c].connects = stream[c].connects, stream[c].pc \in Open,
             subscribers' = Unsubscribed(c), stream'[c].pc \notin Open
      PROVE  EventTyped'
  <2>1. Subscribed(c)
    BY <1>3 DEF EventTyped, OpenIsSubscribed
  <2>2. subscribers' \in Seq(Clients \cup Bystanders) /\ \A d : Subscribed(d) /\ d # c => Has(subscribers', d)
    BY <1>i, <1>3, <2>1, OthersStay
  <2> QED BY <1>i, <1>1, <1>3, <2>2
<1>4. CASE Connect(c)
  <2>1. /\ stream[c].connects < MaxConnects /\ subscribers' = Append(subscribers, c)
        /\ stream' = [stream EXCEPT ![c].pc = "subscribed", ![c].woken = FALSE, ![c].connects = @ + 1]
    BY <1>4 DEF Connect
  <2>2. stream'[c].connects = stream[c].connects + 1
    BY <1>i, <1>s, <2>1 DEF Stream
  <2>3. stream'[c].connects \in 0..MaxConnects
    BY <1>i, <2>1, <2>2, StreamAssumption
  <2>4. /\ subscribers' \in Seq(Clients \cup Bystanders) /\ Len(subscribers') = Len(subscribers) + 1
        /\ Len(subscribers) \in Nat /\ subscribers'[Len(subscribers) + 1] = c
        /\ \A i \in 1..Len(subscribers) : subscribers'[i] = subscribers[i]
    BY <1>i, <2>1
  <2>5. Has(subscribers', c) /\ \A d : Subscribed(d) => Has(subscribers', d)
    BY <2>4 DEF Subscribed, Has
  <2> QED BY <1>1, <2>3, <2>4, <2>5
<1>5. CASE ListPublicEvents(c) \/ Heartbeat(c)
  <2>1. stream'[c].connects = stream[c].connects /\ UNCHANGED subscribers /\ stream[c].pc \in Open
    BY <1>i, <1>s, <1>5 DEF ListPublicEvents, Heartbeat, Stream
  <2> QED BY <1>2, <2>1
<1>6. CASE Disconnect(c)
  <2>1. /\ stream'[c].connects = stream[c].connects /\ stream[c].pc \in Open
        /\ subscribers' = Unsubscribed(c) /\ stream'[c].pc \notin Open
    BY <1>i, <1>s, <1>6 DEF Disconnect, Stream
  <2> QED BY <1>3, <2>1
<1>7. CASE WritePage(c)
  <2>1. stream[c].pc \in Open /\ stream'[c].connects = stream[c].connects
        /\ \/ UNCHANGED subscribers
           \/ subscribers' = Unsubscribed(c) /\ stream'[c].pc \notin Open
    <3> DEFINE p == stream[c].page
               cursor == CursorAfter(p, stream[c].cursor)
    <3>1. /\ stream[c].pc = "listed"
          /\ \/ /\ stream' = [stream EXCEPT ![c].pc = "off", ![c].cursor = p.oldest - 1,
                                      ![c].skipped = p.oldest - 1, ![c].page = NoPage, ![c].woken = FALSE]
                /\ subscribers' = Unsubscribed(c)
             \/ /\ stream' = [stream EXCEPT ![c].pc = "closed", ![c].cursor = cursor, ![c].page = NoPage,
                                      ![c].seen = @ \cup p.items, ![c].woken = FALSE]
                /\ subscribers' = Unsubscribed(c)
             \/ /\ stream' = [stream EXCEPT ![c].cursor = cursor, ![c].seen = @ \cup p.items,
                                      ![c].pc = IF p.more THEN "subscribed" ELSE "waiting"]
                /\ UNCHANGED subscribers
      BY <1>7 DEF WritePage
    <3> HIDE DEF p, cursor
    <3> QED BY <1>i, <1>s, <3>1 DEF Stream
  <2> QED BY <1>2, <1>3, <2>1
<1> QED BY <1>4, <1>5, <1>6, <1>7

\* The types of the log, the sweep and the streams hold of every behaviour: no
\* stream is open without its subscription, whoever else comes and goes.
THEOREM EventTypeCorrect ==
  EventInit /\ [][EventNext]_eventVars => []EventTypeOK
<1>1. EventInit => EventTyped
  <2> SUFFICES ASSUME EventInit PROVE EventTyped
    OBVIOUS
  <2>1. \A c \in Clients : /\ stream[c].pc = "off" /\ stream[c].cursor = 0 /\ stream[c].seen = {}
                           /\ stream[c].connects = 0
    BY DEF EventInit
  <2>2. OpenIsSubscribed
    BY <2>1 DEF OpenIsSubscribed
  <2>3. 0 \in 0..MaxConnects /\ 0 \in 0..MaxEvents
    BY StreamAssumption
  <2>4. subscribers \in Seq(Clients \cup Bystanders) /\ comings \in [Bystanders -> 0..MaxConnects]
    BY <2>3 DEF EventInit
  <2>5. /\ retained = {} /\ final = {} /\ owed = {} /\ publishing = FALSE /\ inFlight = FALSE /\ connected = TRUE
        /\ sweep \in [triggered : BOOLEAN, left : Nat, cursor : Nat]
    BY DEF EventInit
  <2>6. EventTypeOK
    BY <2>1, <2>3, <2>4, <2>5 DEF EventTypeOK
  <2> QED BY <2>2, <2>6 DEF EventTyped
<1>2. EventInv /\ EventInv' /\ EventTyped /\ [EventNext]_eventVars => EventTyped'
  <2> SUFFICES ASSUME EventInv, EventInv', EventTyped, [EventNext]_eventVars PROVE EventTyped'
    OBVIOUS
  <2>1. CASE UNCHANGED eventVars
    BY <2>1 DEF EventTyped, EventTypeOK, OpenIsSubscribed, Subscribed, eventVars
  <2>2. CASE EventNext
    BY <2>2, AroundTyped, StreamTyped, BystanderTyped DEF EventNext
  <2> QED BY <2>1, <2>2
<1>3. EventTyped => EventTypeOK
  BY DEF EventTyped
<1> QED BY EventsStart, EventsStay, <1>1, <1>2, <1>3, PTL

-------------------------------------------------------------------------------
(* Thread binding *)

SwitchCall == [command : Commands, replayed : BOOLEAN]
PastBinding == [previous : Workspaces, workspace : Workspaces, version : Nat, key : SwitchKeys]

\* The history leads to the present binding, one row for a version.
HistoryInv ==
  /\ thread \in [workspace : Workspaces, version : Nat \ {0}]
  /\ history \in Seq(PastBinding) /\ Len(history) = thread.version - 1
  /\ thread.workspace = WorkspaceAt(thread.version)
  /\ \A n \in 1..Len(history) : history[n].version = n + 1

\* A key has the answer of its record, and a row of the history only with a record.
KeyInv ==
  /\ switches \in [SwitchKeys -> SwitchCall \cup {Absent}]
  /\ switchRecords \in [SwitchKeys -> SwitchRecord \cup {Absent}]
  /\ switchAnswers \in [SwitchKeys -> SUBSET Bindings]
  /\ \A key \in SwitchKeys :
       /\ switchRecords[key] = Absent =>
            switchAnswers[key] = {} /\ \A n \in 1..Len(history) : history[n].key # key
       /\ switchRecords[key] # Absent => switchAnswers[key] \subseteq {switchRecords[key].binding}
  /\ \A m, n \in 1..Len(history) : history[m].key = history[n].key => m = n

\* A Run that was created keeps the snapshot it was created with.
Ordered(list) ==
  /\ list \in Seq(ThreadRuns)
  /\ \A m, n \in 1..Len(list) : m <= n => snapshots[list[m]].version <= snapshots[list[n]].version
  /\ \A n \in 1..Len(list) :
       /\ runStages[list[n]] \notin {"new", "resolved", "read"}
       /\ snapshots[list[n]].version \in 1..thread.version

OrderInv ==
  /\ runStages \in [ThreadRuns -> RunStages] /\ DOMAIN snapshots = ThreadRuns
  /\ Ordered(created) /\ Ordered(planned)
  /\ \A n \in 1..Len(created) : snapshots[created[n]].workspace = WorkspaceAt(snapshots[created[n]].version)

ThreadInv == HistoryInv /\ KeyInv /\ OrderInv

\* What the reader has seen leads from the newest version it found to its cursor.
ReaderInv ==
  /\ reader \in [cursor : Nat, done : BOOLEAN, seen : Seq(Nat)]
  /\ \A n \in 1 .. Len(reader.seen) : reader.seen[n] \in 2 .. Len(history) + 1
  /\ reader.done => reader.cursor = 0
  /\ \A n \in 1 .. Len(reader.seen) - 1 : reader.seen[n] = reader.seen[n + 1] + 1
  /\ ~reader.done => \/ Len(reader.seen) = 0 /\ reader.cursor = 0
                     \/ /\ Len(reader.seen) > 0 /\ reader.cursor = reader.seen[Len(reader.seen)]
                        /\ reader.cursor \in 3 .. Len(history) + 1
  /\ reader.done /\ Len(reader.seen) > 0 => reader.seen[Len(reader.seen)] = 2

\* The invariant holds before the first switch and the first Run.
LEMMA ThreadStarts == ThreadInit => ThreadInv
<1> SUFFICES ASSUME ThreadInit PROVE ThreadInv
  OBVIOUS
<1>1. history = << >> /\ Len(history) = 0 /\ created = << >> /\ planned = << >> /\ Len(created) = 0 /\ Len(planned) = 0
  BY DEF ThreadInit
<1>2. HistoryInv
  BY <1>1, ThreadAssumption DEF ThreadInit, HistoryInv, WorkspaceAt
<1>3. KeyInv
  BY <1>1 DEF ThreadInit, KeyInv
<1>4. OrderInv
  BY <1>1 DEF ThreadInit, OrderInv, Ordered, RunStages
<1> QED BY <1>2, <1>3, <1>4 DEF ThreadInv

\* Runs do not touch the binding, nor switches the Runs.
LEMMA HistoryKept == HistoryInv /\ UNCHANGED <<thread, history>> => HistoryInv'
BY DEF HistoryInv, WorkspaceAt

LEMMA KeysKept == KeyInv /\ UNCHANGED <<history, switches, switchRecords, switchAnswers>> => KeyInv'
BY DEF KeyInv

LEMMA OrderKept ==
  OrderInv /\ UNCHANGED <<thread, history, snapshots, runStages, created, planned>> => OrderInv'
BY DEF OrderInv, Ordered, WorkspaceAt

\* A key that is put aside leaves its record as it is.
LEMMA ReplaySafe ==
  ASSUME KeyInv, NEW key \in SwitchKeys, switches[key] # Absent, Replay(key)
  PROVE  KeyInv'
<1>1. switches' \in [SwitchKeys -> SwitchCall \cup {Absent}]
  BY DEF Replay, EndCall, KeyInv
<1>2. switchAnswers' \in [SwitchKeys -> SUBSET Bindings]
      /\ \A other \in SwitchKeys : switchAnswers'[other] \subseteq switchAnswers[other] \cup
           (IF other = key THEN {switchRecords[key].binding} ELSE {})
  <2>1. switchRecords[key] \in SwitchRecord
    BY DEF KeyInv, Replay
  <2>2. switchRecords[key].binding \in Bindings
    BY <2>1 DEF SwitchRecord
  <2>3. PICK answers \in {switchAnswers[key], switchAnswers[key] \cup {switchRecords[key].binding}} :
          switchAnswers' = [switchAnswers EXCEPT ![key] = answers]
    BY DEF Replay
  <2> QED BY <2>2, <2>3 DEF KeyInv
<1>3. UNCHANGED <<history, switchRecords>> /\ switchRecords[key] # Absent
  BY DEF Replay
<1> QED BY <1>1, <1>2, <1>3 DEF KeyInv

\* The record of a key is written once, with its answer.
LEMMA RecordSafe ==
  ASSUME KeyInv, NEW key \in SwitchKeys, switches[key] # Absent, switchRecords[key] = Absent,
         NEW binding \in Bindings, InsertIdempotency(key, binding), EndCall(key),
         \/ history' = history
         \/ /\ history' \in Seq(PastBinding) /\ history \in Seq(PastBinding) /\ Len(history') = Len(history) + 1
            /\ \A n \in 1..Len(history) : history'[n] = history[n]
            /\ history'[Len(history) + 1].key = key
  PROVE  KeyInv'
<1>1. switches' \in [SwitchKeys -> SwitchCall \cup {Absent}]
  BY DEF EndCall, KeyInv
<1> DEFINE record == [command |-> switches[key].command, binding |-> binding]
<1>2. record \in SwitchRecord /\ record.binding = binding
  <2>1. switches[key] \in SwitchCall
    BY DEF KeyInv
  <2>2. switches[key].command \in Commands
    BY <2>1 DEF SwitchCall
  <2> QED BY <2>2 DEF SwitchRecord
<1>3. switchRecords' = [switchRecords EXCEPT ![key] = record]
  BY DEF InsertIdempotency
<1> HIDE DEF record
<1>4. record # Absent
  BY <1>2, AbsentAssumption
<1>5. switchRecords' \in [SwitchKeys -> SwitchRecord \cup {Absent}]
  BY <1>2, <1>3 DEF KeyInv
<1>6. switchAnswers[key] = {} /\ switchAnswers' = [switchAnswers EXCEPT ![key] = {binding}]
  BY DEF InsertIdempotency, KeyInv
<1>7. switchAnswers' \in [SwitchKeys -> SUBSET Bindings]
  BY <1>6 DEF KeyInv
<1>8. ASSUME NEW other \in SwitchKeys
      PROVE  /\ switchRecords'[other] = Absent =>
                  switchAnswers'[other] = {} /\ \A n \in 1..Len(history') : history'[n].key # other
             /\ switchRecords'[other] # Absent => switchAnswers'[other] \subseteq {switchRecords'[other].binding}
  <2>1. CASE other = key
    <3>1. switchRecords'[other] = record /\ switchAnswers'[other] = {binding}
      BY <1>3, <1>6, <2>1 DEF KeyInv
    <3> QED BY <1>2, <1>4, <3>1
  <2>2. CASE other # key
    <3>1. switchRecords'[other] = switchRecords[other] /\ switchAnswers'[other] = switchAnswers[other]
      BY <1>3, <1>6, <2>2 DEF KeyInv
    <3>2. (\A n \in 1..Len(history) : history[n].key # other) => \A n \in 1..Len(history') : history'[n].key # other
      BY <2>2
    <3> QED BY <3>1, <3>2 DEF KeyInv
  <2> QED BY <2>1, <2>2
<1>9. \A m, n \in 1..Len(history') : history'[m].key = history'[n].key => m = n
  <2>1. \A n \in 1..Len(history) : history[n].key # key
    BY DEF KeyInv
  <2>2. \A m, n \in 1..Len(history) : history[m].key = history[n].key => m = n
    BY DEF KeyInv
  <2> QED BY <2>1, <2>2
<1> QED BY <1>1, <1>5, <1>7, <1>8, <1>9 DEF KeyInv

\* A switch appends to the history and leaves the Runs of the bindings before it.
LEMMA ApplySafe ==
  ASSUME ThreadInv, NEW key \in SwitchKeys, switches[key] # Absent, switchRecords[key] = Absent,
         ApplySwitch(key), EndCall(key), UNCHANGED threadRunVars
  PROVE  ThreadInv'
<1>t. HistoryInv /\ KeyInv /\ OrderInv
  BY DEF ThreadInv
<1> DEFINE target == switches[key].command.target
           version == thread.version + 1
           row == [previous |-> thread.workspace, workspace |-> target, version |-> version, key |-> key]
           binding == [previous |-> thread.workspace, workspace |-> target, version |-> version]
<1>1. target \in Workspaces /\ thread.workspace \in Workspaces /\ thread.version \in Nat \ {0}
      /\ version \in Nat \ {0}
  <2>1. switches[key] \in SwitchCall
    BY <1>t DEF KeyInv
  <2>2. switches[key].command \in Commands
    BY <2>1 DEF SwitchCall
  <2>3. target \in Workspaces
    BY <2>2 DEF Commands
  <2> HIDE DEF target
  <2> QED BY <1>t, <2>3 DEF HistoryInv
<1>2. thread' = [workspace |-> target, version |-> version] /\ history' = Append(history, row)
      /\ InsertIdempotency(key, binding)
  BY DEF ApplySwitch
<1>3. row \in PastBinding /\ row.key = key /\ row.workspace = target /\ binding \in Bindings
  BY <1>1 DEF PastBinding, Bindings
<1> HIDE DEF row, binding, target
<1>4. /\ history' \in Seq(PastBinding) /\ history \in Seq(PastBinding)
      /\ Len(history') = Len(history) + 1 /\ Len(history) \in Nat
      /\ \A n \in 1..Len(history) : history'[n] = history[n]
      /\ history'[Len(history) + 1] = row
  BY <1>t, <1>2, <1>3 DEF HistoryInv
<1>5. HistoryInv'
  <2>1. thread' \in [workspace : Workspaces, version : Nat \ {0}] /\ thread'.version = version
        /\ thread'.workspace = target
    BY <1>1, <1>2
  <2>2. Len(history) = thread.version - 1
    BY <1>t DEF HistoryInv
  <2>3. WorkspaceAt(thread.version)' = history'[Len(history) + 1].workspace
    BY <1>1, <2>1, <2>2 DEF WorkspaceAt
  <2>4. row.version = version /\ \A n \in 1..Len(history') : history'[n].version = n + 1
    <3>1. row.version = version
      BY DEF row
    <3>2. \A n \in 1..Len(history) : history[n].version = n + 1
      BY <1>t DEF HistoryInv
    <3>3. row.version = Len(history) + 2 /\ Len(history') = Len(history) + 1
      BY <1>1, <1>4, <2>2, <3>1
    <3>4. ASSUME NEW n \in 1..Len(history') PROVE history'[n].version = n + 1
      <4>1. CASE n = Len(history) + 1
        BY <1>4, <3>3, <4>1
      <4>2. CASE n # Len(history) + 1
        <5>1. n \in 1..Len(history)
          BY <1>4, <4>2
        <5> QED BY <1>4, <3>2, <5>1
      <4> QED BY <4>1, <4>2
    <3> QED BY <3>1, <3>4
  <2> QED BY <1>1, <1>3, <1>4, <2>1, <2>2, <2>3, <2>4 DEF HistoryInv
<1>6. KeyInv'
  BY <1>t, <1>2, <1>3, <1>4, RecordSafe
<1>7. OrderInv'
  <2>1. UNCHANGED <<snapshots, runStages, created, planned>>
    BY DEF threadRunVars
  <2>2. \A v \in 1..thread.version : WorkspaceAt(v)' = WorkspaceAt(v) /\ v \in 1..thread'.version
    <3>1. Len(history) = thread.version - 1 /\ thread'.version = thread.version + 1
      BY <1>t, <1>2 DEF HistoryInv
    <3> QED BY <1>1, <1>4, <3>1 DEF WorkspaceAt
  <2>3. Ordered(created)' /\ Ordered(planned)'
    BY <1>t, <2>1, <2>2 DEF OrderInv, Ordered
  <2> QED BY <1>t, <2>1, <2>2, <2>3 DEF OrderInv, Ordered
<1> QED BY <1>5, <1>6, <1>7 DEF ThreadInv

\* Every call of the app keeps the invariant.
LEMMA SwitchSafe == ThreadInv /\ SwitchStep => ThreadInv'
<1> SUFFICES ASSUME ThreadInv, SwitchStep PROVE ThreadInv'
  OBVIOUS
<1>t. HistoryInv /\ KeyInv /\ OrderInv
  BY DEF ThreadInv
<1>r. UNCHANGED <<snapshots, runStages, created, planned>> /\ UNCHANGED threadRunVars
  BY DEF SwitchStep, AskSwitch, FindThreadWorkspaceSwitchReplay, SwitchThreadWorkspace, SwitchFails, threadRunVars
<1>1. ASSUME NEW key \in SwitchKeys, NEW command \in SwitchCommand, AskSwitch(key, command) PROVE ThreadInv'
  <2>1. /\ switches' = [switches EXCEPT ![key] = [command |-> command, replayed |-> FALSE]]
        /\ UNCHANGED <<thread, history, switchRecords, switchAnswers>>
    BY <1>1 DEF AskSwitch
  <2>2. [command |-> command, replayed |-> FALSE] \in SwitchCall
    BY ThreadAssumption DEF SwitchCommand, SwitchCall, Commands, Versions
  <2>3. KeyInv'
    BY <1>t, <2>1, <2>2 DEF KeyInv
  <2> QED BY <1>t, <1>r, <2>1, <2>3, HistoryKept, OrderKept DEF ThreadInv
<1>2. ASSUME NEW key \in SwitchKeys, FindThreadWorkspaceSwitchReplay(key) PROVE ThreadInv'
  <2>1. UNCHANGED <<thread, history>> /\ switches[key] # Absent
    BY <1>2 DEF FindThreadWorkspaceSwitchReplay, Replay
  <2>2. CASE Replay(key)
    BY <1>t, <1>r, <2>1, <2>2, ReplaySafe, HistoryKept, OrderKept DEF ThreadInv
  <2>3. CASE switches' = [switches EXCEPT ![key].replayed = TRUE] /\ UNCHANGED <<switchRecords, switchAnswers>>
    <3>1. switches[key] \in SwitchCall
      BY <1>t, <2>1 DEF KeyInv
    <3>2. [switches[key] EXCEPT !.replayed = TRUE] \in SwitchCall
      BY <3>1 DEF SwitchCall
    <3>3. switches' = [switches EXCEPT ![key] = [switches[key] EXCEPT !.replayed = TRUE]]
      BY <2>3
    <3>4. KeyInv'
      BY <1>t, <2>1, <2>3, <3>2, <3>3 DEF KeyInv
    <3> QED BY <1>t, <1>r, <2>1, <3>4, HistoryKept, OrderKept DEF ThreadInv
  <2> QED BY <1>2, <2>2, <2>3 DEF FindThreadWorkspaceSwitchReplay
<1>3. ASSUME NEW key \in SwitchKeys, SwitchThreadWorkspace(key) PROVE ThreadInv'
  <2>1. switches[key] # Absent
    BY <1>3 DEF SwitchThreadWorkspace
  <2>2. CASE Replay(key)
    <3>1. UNCHANGED <<thread, history>>
      BY <2>2 DEF Replay
    <3> QED BY <1>t, <1>r, <2>1, <2>2, <3>1, ReplaySafe, HistoryKept, OrderKept DEF ThreadInv
  <2>3. CASE switchRecords[key] = Absent /\ NoSwitch(key) /\ EndCall(key)
    <3> DEFINE binding == [previous |-> Absent, workspace |-> thread.workspace, version |-> thread.version]
    <3>1. UNCHANGED <<thread, history>> /\ InsertIdempotency(key, binding)
      BY <2>3 DEF NoSwitch
    <3>2. binding \in Bindings
      BY <1>t DEF HistoryInv, Bindings
    <3> HIDE DEF binding
    <3>3. KeyInv'
      BY <1>t, <2>1, <2>3, <3>1, <3>2, RecordSafe
    <3> QED BY <1>t, <1>r, <3>1, <3>3, HistoryKept, OrderKept DEF ThreadInv
  <2>4. CASE switchRecords[key] = Absent /\ ApplySwitch(key) /\ EndCall(key)
    BY <1>r, <2>1, <2>4, ApplySafe
  <2> QED BY <1>3, <2>2, <2>3, <2>4 DEF SwitchThreadWorkspace
<1>4. ASSUME NEW key \in SwitchKeys, SwitchFails(key) PROVE ThreadInv'
  <2>1. UNCHANGED <<thread, history, switchRecords, switchAnswers>> /\ EndCall(key)
    BY <1>4 DEF SwitchFails
  <2>2. KeyInv'
    BY <1>t, <2>1 DEF KeyInv, EndCall
  <2> QED BY <1>t, <1>r, <2>1, <2>2, HistoryKept, OrderKept DEF ThreadInv
<1> QED BY <1>1, <1>2, <1>3, <1>4 DEF SwitchStep

\* A Run joins a list with the binding the thread has now.
LEMMA JoinsInOrder ==
  ASSUME HistoryInv, NEW r \in ThreadRuns, NEW list, Ordered(list), NEW stage \in RunStages,
         DOMAIN snapshots = ThreadRuns, runStages \in [ThreadRuns -> RunStages],
         stage \notin {"new", "resolved", "read"}, snapshots[r].version = thread.version,
         UNCHANGED <<thread, snapshots>>, RunGoes(r, stage)
  PROVE  /\ Append(list, r) \in Seq(ThreadRuns)
         /\ \A m, n \in 1..Len(Append(list, r)) : m <= n =>
              snapshots[Append(list, r)[m]].version <= snapshots[Append(list, r)[n]].version
         /\ \A n \in 1..Len(Append(list, r)) :
              /\ runStages'[Append(list, r)[n]] \notin {"new", "resolved", "read"}
              /\ snapshots[Append(list, r)[n]].version \in 1..thread.version
<1>1. list \in Seq(ThreadRuns) /\ Len(list) \in Nat /\ thread.version \in Nat \ {0}
  BY DEF Ordered, HistoryInv
<1> DEFINE longer == Append(list, r)
<1>2. /\ longer \in Seq(ThreadRuns) /\ Len(longer) = Len(list) + 1 /\ longer[Len(list) + 1] = r
      /\ \A n \in 1..Len(list) : longer[n] = list[n] /\ list[n] \in ThreadRuns
  BY <1>1
<1> HIDE DEF longer
<1>3. \A n \in 1..Len(list) : snapshots[list[n]].version \in 1..thread.version
                              /\ runStages[list[n]] \notin {"new", "resolved", "read"}
  BY DEF Ordered
<1>4. \A m, n \in 1..Len(list) : m <= n => snapshots[list[m]].version <= snapshots[list[n]].version
  BY DEF Ordered
<1>5. \A q \in ThreadRuns : runStages'[q] = IF q = r THEN stage ELSE runStages[q]
  BY DEF RunGoes
<1>6. \A n \in 1..Len(longer) : n = Len(list) + 1 \/ n \in 1..Len(list)
  BY <1>1, <1>2
<1>7. \A n \in 1..Len(longer) : snapshots[longer[n]].version \in 1..thread.version
  BY <1>1, <1>2, <1>3, <1>6
<1>8. \A n \in 1..Len(longer) : runStages'[longer[n]] \notin {"new", "resolved", "read"}
  BY <1>2, <1>3, <1>5, <1>6
<1>9. \A m, n \in 1..Len(longer) : m <= n => snapshots[longer[m]].version <= snapshots[longer[n]].version
  <2> SUFFICES ASSUME NEW m \in 1..Len(longer), NEW n \in 1..Len(longer), m <= n
               PROVE  snapshots[longer[m]].version <= snapshots[longer[n]].version
    OBVIOUS
  <2>1. CASE n = Len(list) + 1
    BY <1>1, <1>2, <1>7, <2>1
  <2>2. CASE n # Len(list) + 1
    <3>1. m \in 1..Len(list) /\ n \in 1..Len(list)
      BY <1>1, <1>2, <2>2
    <3> QED BY <1>2, <1>4, <3>1
  <2> QED BY <2>1, <2>2
<1> QED BY <1>2, <1>7, <1>8, <1>9 DEF longer

\* A list no Run joins stays in order while a Run that is past its reading goes on.
LEMMA StaysInOrder ==
  ASSUME NEW r \in ThreadRuns, NEW list, Ordered(list), runStages \in [ThreadRuns -> RunStages],
         UNCHANGED thread, DOMAIN snapshots = ThreadRuns,
         \E stage : RunGoes(r, stage) /\ (runStages[r] \notin {"new", "resolved", "read"} =>
                                            stage \notin {"new", "resolved", "read"}),
         \A q \in ThreadRuns : runStages[q] \notin {"new", "resolved", "read"} => snapshots'[q] = snapshots[q]
  PROVE  /\ \A m, n \in 1..Len(list) : m <= n => snapshots'[list[m]].version <= snapshots'[list[n]].version
         /\ \A n \in 1..Len(list) : /\ runStages'[list[n]] \notin {"new", "resolved", "read"}
                                    /\ snapshots'[list[n]] = snapshots[list[n]]
                                    /\ snapshots'[list[n]].version \in 1..thread'.version
<1>1. \A n \in 1..Len(list) : /\ list[n] \in ThreadRuns /\ runStages[list[n]] \notin {"new", "resolved", "read"}
                              /\ snapshots[list[n]].version \in 1..thread.version
  BY DEF Ordered
<1>2. \A n \in 1..Len(list) : snapshots'[list[n]] = snapshots[list[n]]
  BY <1>1
<1>3. \A n \in 1..Len(list) : runStages'[list[n]] \notin {"new", "resolved", "read"}
  BY <1>1 DEF RunGoes
<1>4. \A m, n \in 1..Len(list) : m <= n => snapshots[list[m]].version <= snapshots[list[n]].version
  BY DEF Ordered
<1> QED BY <1>1, <1>2, <1>3, <1>4

\* Runs are created and planned in the order of the bindings.
LEMMA ThreadRunSafe == ThreadInv /\ ThreadRunStep => ThreadInv'
<1> SUFFICES ASSUME ThreadInv, ThreadRunStep PROVE ThreadInv'
  OBVIOUS
<1>t. HistoryInv /\ KeyInv /\ OrderInv
  BY DEF ThreadInv
<1>u. UNCHANGED <<thread, history, switches, switchRecords, switchAnswers>>
  BY DEF ThreadRunStep, ResolveThreadBinding, CurrentRunWorkspaceVersion, CreateThreadRun, CreateConflict,
         SaveWorkspaceContext, PublishPlan, PlanningFails, ValidateFrozenWorkspaceContextForPlan, switchVars
<1>s. SUFFICES OrderInv'
  BY <1>t, <1>u, HistoryKept, KeysKept DEF ThreadInv
<1>w. \A v : WorkspaceAt(v)' = WorkspaceAt(v)
  BY <1>u DEF WorkspaceAt
<1>o. /\ runStages \in [ThreadRuns -> RunStages] /\ DOMAIN snapshots = ThreadRuns
      /\ Ordered(created) /\ Ordered(planned)
      /\ \A n \in 1..Len(created) : snapshots[created[n]].workspace = WorkspaceAt(snapshots[created[n]].version)
  BY <1>t DEF OrderInv
\* The lists stay as they are.
<1>q. ASSUME NEW r \in ThreadRuns, NEW stage \in RunStages, RunGoes(r, stage), UNCHANGED <<created, planned>>,
             runStages[r] \notin {"new", "resolved", "read"} => stage \notin {"new", "resolved", "read"},
             DOMAIN snapshots' = ThreadRuns,
             \A p \in ThreadRuns : runStages[p] \notin {"new", "resolved", "read"} => snapshots'[p] = snapshots[p]
      PROVE  OrderInv'
  <2>1. runStages' \in [ThreadRuns -> RunStages]
    BY <1>o, <1>q DEF RunGoes
  <2>2. /\ \A m, n \in 1..Len(created) : m <= n => snapshots'[created[m]].version <= snapshots'[created[n]].version
        /\ \A n \in 1..Len(created) : /\ runStages'[created[n]] \notin {"new", "resolved", "read"}
                                      /\ snapshots'[created[n]] = snapshots[created[n]]
                                      /\ snapshots'[created[n]].version \in 1..thread'.version
    BY <1>o, <1>q, <1>u, StaysInOrder
  <2>3. /\ \A m, n \in 1..Len(planned) : m <= n => snapshots'[planned[m]].version <= snapshots'[planned[n]].version
        /\ \A n \in 1..Len(planned) : /\ runStages'[planned[n]] \notin {"new", "resolved", "read"}
                                      /\ snapshots'[planned[n]].version \in 1..thread'.version
    BY <1>o, <1>q, <1>u, StaysInOrder
  <2>4. created \in Seq(ThreadRuns) /\ planned \in Seq(ThreadRuns)
    BY <1>o DEF Ordered
  <2>5. Ordered(created)' /\ Ordered(planned)'
    BY <1>q, <2>2, <2>3, <2>4 DEF Ordered
  <2> QED BY <1>o, <1>q, <1>w, <2>1, <2>2, <2>5 DEF OrderInv
\* A list is made longer by a Run whose snapshot is the present binding.
<1>j. ASSUME NEW r \in ThreadRuns, NEW stage \in RunStages, RunGoes(r, stage),
             stage \notin {"new", "resolved", "read"}, UNCHANGED snapshots,
             ValidWorkspaceSnapshot(snapshots[r]),
             \/ created' = Append(created, r) /\ planned' = planned
             \/ planned' = Append(planned, r) /\ created' = created
      PROVE  OrderInv'
  <2>1. runStages' \in [ThreadRuns -> RunStages]
    BY <1>o, <1>j DEF RunGoes
  <2>2. snapshots[r].version = thread.version /\ snapshots[r].workspace = thread.workspace
    BY <1>j DEF ValidWorkspaceSnapshot
  <2>3. ASSUME NEW list, Ordered(list), NEW list2, list2 = list \/ list2 = Append(list, r)
        PROVE  /\ list2 \in Seq(ThreadRuns)
               /\ \A m, n \in 1..Len(list2) : m <= n =>
                    snapshots'[list2[m]].version <= snapshots'[list2[n]].version
               /\ \A n \in 1..Len(list2) : /\ runStages'[list2[n]] \notin {"new", "resolved", "read"}
                                           /\ snapshots'[list2[n]].version \in 1..thread'.version
    <3>1. CASE list2 = Append(list, r)
      BY <1>t, <1>o, <1>j, <1>u, <2>2, <2>3, <3>1, JoinsInOrder
    <3>2. CASE list2 = list
      <4>1. list \in Seq(ThreadRuns)
        BY <2>3 DEF Ordered
      <4> QED BY <1>o, <1>j, <1>u, <2>3, <3>2, <4>1, StaysInOrder
    <3> QED BY <2>3, <3>1, <3>2
  <2>4. Ordered(created)' /\ Ordered(planned)'
    <3>1. created' = created \/ created' = Append(created, r)
      BY <1>j
    <3>2. planned' = planned \/ planned' = Append(planned, r)
      BY <1>j
    <3> QED BY <1>o, <2>3, <3>1, <3>2 DEF Ordered
  <2>5. \A n \in 1..Len(created') : snapshots[created'[n]].workspace = WorkspaceAt(snapshots[created'[n]].version)
    <3>1. CASE created' = created
      BY <1>o, <3>1
    <3>2. CASE created' = Append(created, r)
      <4>1. created \in Seq(ThreadRuns)
        BY <1>o DEF Ordered
      <4>2. \A n \in 1..Len(created') : created'[n] = r \/ (n \in 1..Len(created) /\ created'[n] = created[n])
        BY <3>2, <4>1
      <4>3. snapshots[r].workspace = WorkspaceAt(snapshots[r].version)
        BY <1>t, <2>2 DEF HistoryInv
      <4> QED BY <1>o, <4>2, <4>3
    <3> QED BY <1>j, <3>1, <3>2
  <2> QED BY <1>o, <1>j, <1>w, <2>1, <2>4, <2>5 DEF OrderInv
<1> USE DEF RunStages
<1>1. ASSUME NEW r \in ThreadRuns, ResolveThreadBinding(r) PROVE OrderInv'
  <2>1. runStages[r] = "new" /\ RunGoes(r, "resolved") /\ UNCHANGED <<created, planned>>
        /\ \E tuple : snapshots' = [snapshots EXCEPT ![r] = tuple]
    BY <1>1 DEF ResolveThreadBinding
  <2>2. DOMAIN snapshots' = ThreadRuns /\ \A p \in ThreadRuns : p # r => snapshots'[p] = snapshots[p]
    BY <1>o, <2>1
  <2> QED BY <1>q, <2>1, <2>2
<1>2. ASSUME NEW r \in ThreadRuns, CurrentRunWorkspaceVersion(r) PROVE OrderInv'
  <2>1. runStages[r] = "resolved" /\ UNCHANGED <<created, planned>>
        /\ (RunGoes(r, "read") \/ RunGoes(r, "refused"))
        /\ \/ snapshots' = [snapshots EXCEPT ![r].written = workspaces[snapshots[r].workspace].written]
           \/ UNCHANGED snapshots
    BY <1>2 DEF CurrentRunWorkspaceVersion
  <2>2. DOMAIN snapshots' = ThreadRuns /\ \A p \in ThreadRuns : p # r => snapshots'[p] = snapshots[p]
    BY <1>o, <2>1
  <2> QED BY <1>q, <2>1, <2>2
<1>3. ASSUME NEW r \in ThreadRuns, CreateThreadRun(r) \/ PublishPlan(r) PROVE OrderInv'
  <2>1. \/ RunGoes(r, "planning") /\ created' = Append(created, r) /\ planned' = planned
        \/ RunGoes(r, "queued") /\ planned' = Append(planned, r) /\ created' = created
    BY <1>3 DEF CreateThreadRun, PublishPlan
  <2>2. UNCHANGED snapshots /\ ValidWorkspaceSnapshot(snapshots[r])
    BY <1>3 DEF CreateThreadRun, PublishPlan
  <2> QED BY <1>j, <2>1, <2>2
<1>4. ASSUME NEW r \in ThreadRuns,
             CreateConflict(r) \/ PlanningFails(r) \/ ValidateFrozenWorkspaceContextForPlan(r)
      PROVE  OrderInv'
  <2>1. UNCHANGED <<snapshots, created, planned>>
    BY <1>4 DEF CreateConflict, PlanningFails, ValidateFrozenWorkspaceContextForPlan
  <2>2. PICK stage \in RunStages :
          RunGoes(r, stage) /\ (stage \in {"new", "resolved", "read"} => runStages[r] = "read")
    BY <1>4 DEF CreateConflict, PlanningFails, ValidateFrozenWorkspaceContextForPlan
  <2> QED BY <1>o, <1>q, <2>1, <2>2
<1>5. ASSUME NEW r \in ThreadRuns, NEW tuple, SaveWorkspaceContext(r, tuple) PROVE OrderInv'
  BY <1>t, <1>u, <1>5, OrderKept DEF SaveWorkspaceContext
<1> QED BY <1>1, <1>2, <1>3, <1>4, <1>5 DEF ThreadRunStep

\* Of versions without a gap a page holds as many, counted down.
LEMMA NewestAre ==
  ASSUME NEW top \in Nat, NEW size \in Nat, size < top \/ size = 0
  PROVE  NewestFirst(2 .. top, size) = [n \in 1 .. size |-> top - n + 1]
<1> DEFINE V == 2 .. top
           IsPage(page) == /\ \A m, n \in 1 .. size : m < n => page[m] > page[n]
                           /\ \A v \in V : \/ \E n \in 1 .. size : page[n] = v
                                           \/ \A n \in 1 .. size : page[n] > v
           down == [n \in 1 .. size |-> top - n + 1]
<1>1. down \in [1 .. size -> V] /\ IsPage(down)
  <2>1. down \in [1 .. size -> V] /\ \A n \in 1 .. size : down[n] = top - n + 1
    OBVIOUS
  <2>2. ASSUME NEW v \in V
        PROVE  (\E n \in 1 .. size : down[n] = v) \/ \A n \in 1 .. size : down[n] > v
    <3>1. CASE top - v + 1 \in 1 .. size
      BY <2>1, <3>1
    <3>2. CASE top - v + 1 > size
      BY <2>1, <3>2
    <3> QED BY <3>1, <3>2
  <2> HIDE DEF down
  <2> QED BY <2>1, <2>2
<1>2. ASSUME NEW page \in [1 .. size -> V], IsPage(page)
      PROVE  page = down
  <2> DEFINE wrong == {n \in 1 .. size : page[n] # top - n + 1}
  <2>1. ASSUME wrong # {} PROVE FALSE
    <3>1. wrong \in SUBSET Int /\ IsFiniteSet(wrong)
      <4>1. IsFiniteSet(1 .. size) /\ wrong \subseteq 1 .. size
        BY FS_Interval
      <4> QED BY <4>1, FS_Subset
    <3>2. PICK n \in wrong : \A m \in wrong : n <= m
      BY <2>1, <3>1, SmallestIs
    <3>3. \A m \in 1 .. size : m < n => page[m] = top - m + 1
      BY <3>2
    <3> DEFINE v == top - n + 1
    <3>4. n \in 1 .. size /\ page[n] # v /\ v \in V
      BY <3>2
    <3>5. page[n] < v
      <4>1. CASE n = 1
        BY <3>4, <4>1
      <4>2. CASE n > 1
        <5>1. n - 1 \in 1 .. size /\ n - 1 < n /\ page[n - 1] = top - (n - 1) + 1
          BY <3>3, <3>4, <4>2
        <5>2. page[n - 1] > page[n]
          BY <1>2, <3>4, <5>1
        <5>3. page[n] \in Int
          BY <3>4
        <5> QED BY <3>4, <5>1, <5>2, <5>3
      <4> QED BY <3>4, <4>1, <4>2
    <3>6. PICK m \in 1 .. size : page[m] = v
      <4>1. ~(\A m \in 1 .. size : page[m] > v)
        BY <3>4, <3>5
      <4> QED BY <1>2, <3>4, <4>1
    <3>7. CASE m < n
      BY <3>3, <3>4, <3>6, <3>7
    <3>8. CASE m > n
      <4>1. page[n] > page[m]
        BY <1>2, <3>4, <3>8
      <4> QED BY <3>4, <3>5, <3>6, <4>1
    <3> QED BY <3>4, <3>6, <3>7, <3>8
  <2>2. \A n \in 1 .. size : page[n] = down[n]
    BY <2>1
  <2> QED BY <2>2
<1> HIDE DEF down, IsPage
<1>3. (CHOOSE page \in [1 .. size -> V] : IsPage(page)) = down
  BY <1>1, <1>2
<1> QED BY <1>3 DEF NewestFirst, IsPage, down

\* A page goes on where the pages before it ended.
LEMMA ReaderSafe == HistoryInv /\ ReaderInv /\ ListThreadWorkspaceHistory => ReaderInv'
<1> SUFFICES ASSUME HistoryInv, ReaderInv, ListThreadWorkspaceHistory PROVE ReaderInv'
  OBVIOUS
<1> DEFINE versions == {history[n].version : n \in DOMAIN history}
           below == {v \in versions : reader.cursor = 0 \/ v < reader.cursor}
           more == Cardinality(below) > HistoryPage
           size == IF more THEN HistoryPage ELSE Cardinality(below)
           page == NewestFirst(below, size)
           top == IF reader.cursor = 0 THEN Len(history) + 1 ELSE reader.cursor - 1
<1>1. Len(history) \in Nat /\ versions = 2 .. Len(history) + 1
  <2>1. Len(history) \in Nat /\ DOMAIN history = 1 .. Len(history)
    BY DEF HistoryInv
  <2>2. \A n \in 1 .. Len(history) : history[n].version = n + 1
    BY DEF HistoryInv
  <2>3. \A v \in 2 .. Len(history) + 1 : v - 1 \in 1 .. Len(history) /\ history[v - 1].version = v
    BY <2>1, <2>2
  <2>4. \A v \in versions : v \in 2 .. Len(history) + 1
    BY <2>1, <2>2
  <2>5. \A v \in 2 .. Len(history) + 1 : v \in versions
    BY <2>1, <2>3
  <2> QED BY <2>1, <2>4, <2>5
<1>h. UNCHANGED history /\ ~reader.done
      /\ reader' = [cursor |-> IF more THEN page[HistoryPage] ELSE 0, done |-> ~more, seen |-> reader.seen \o page]
  BY DEF ListThreadWorkspaceHistory, switchVars
<1> HIDE DEF versions
<1>2. /\ reader.seen \in Seq(Nat) /\ Len(reader.seen) \in Nat
      /\ ~reader.done
      /\ \/ Len(reader.seen) = 0 /\ reader.cursor = 0
         \/ /\ Len(reader.seen) > 0 /\ reader.cursor = reader.seen[Len(reader.seen)]
            /\ reader.cursor \in 3 .. Len(history) + 1
  BY DEF ReaderInv, ListThreadWorkspaceHistory
<1>3. /\ top \in Nat \ {0} /\ below = 2 .. top /\ top <= Len(history) + 1
      /\ Len(reader.seen) > 0 => reader.seen[Len(reader.seen)] = top + 1
  BY <1>1, <1>2
<1> HIDE DEF top
<1>4. Cardinality(below) = top - 1
  <2>1. Cardinality(2 .. top) = top - 1
    BY <1>3, FS_Interval
  <2> HIDE DEF below
  <2> QED BY <1>3, <2>1
<1> HIDE DEF below
<1>6. size \in Nat /\ size < top /\ (more => size = HistoryPage /\ size < top - 1 /\ size > 0) /\ (~more => size = top - 1)
  BY <1>3, <1>4, ThreadAssumption
<1> HIDE DEF size
<1>7. page = [n \in 1 .. size |-> top - n + 1]
  BY <1>3, <1>6, NewestAre
<1> HIDE DEF page
<1>8. /\ reader'.cursor = (IF more THEN page[HistoryPage] ELSE 0) /\ reader'.done = ~more
      /\ reader'.seen = reader.seen \o page
  BY <1>h
<1> HIDE DEF more
<1> DEFINE k == Len(reader.seen)
<1>9. page \in Seq(Nat) /\ Len(page) = size /\ \A n \in 1 .. size : page[n] = top - n + 1
  <2>1. page \in [1 .. size -> Nat] /\ \A n \in 1 .. size : page[n] = top - n + 1
    BY <1>3, <1>6, <1>7
  <2> QED BY <1>6, <2>1
<1>10. /\ reader'.seen \in Seq(Nat) /\ Len(reader'.seen) = k + size
       /\ \A n \in 1 .. k : reader'.seen[n] = reader.seen[n]
       /\ \A n \in 1 .. size : reader'.seen[k + n] = top - n + 1
  <2>1. reader.seen \in Seq(Nat) /\ page \in Seq(Nat)
    BY <1>2, <1>9
  <2>2. /\ reader'.seen \in Seq(Nat) /\ Len(reader'.seen) = k + Len(page)
        /\ \A n \in 1 .. k : reader'.seen[n] = reader.seen[n]
        /\ \A n \in 1 .. Len(page) : reader'.seen[k + n] = page[n]
    BY <1>8, <2>1, Joined
  <2> QED BY <1>9, <2>2
<1>11. \A n \in 1 .. k - 1 : reader.seen[n] = reader.seen[n + 1] + 1
  BY DEF ReaderInv
<1>14. k \in Nat
  BY <1>2
<1>12. k > 0 => reader.seen[k] = top + 1
  BY <1>3
<1> HIDE DEF k
<1>13. ASSUME NEW n \in 1 .. Len(reader'.seen) - 1
       PROVE  reader'.seen[n] = reader'.seen[n + 1] + 1
  <2>1. CASE n < k
    <3>1. n \in 1 .. k - 1 /\ n \in 1 .. k /\ n + 1 \in 1 .. k
      BY <1>14, <2>1
    <3>2. reader'.seen[n] = reader.seen[n] /\ reader'.seen[n + 1] = reader.seen[n + 1]
      BY <1>10, <3>1
    <3> QED BY <1>11, <3>1, <3>2
  <2>2. CASE n = k
    <3>1. reader'.seen[n] = top + 1 /\ 1 \in 1 .. size
      BY <1>6, <1>10, <1>12, <1>14, <2>2
    <3>2. reader'.seen[k + 1] = top - 1 + 1
      BY <1>10, <3>1
    <3>3. reader'.seen[n + 1] = top
      BY <1>3, <2>2, <3>2
    <3> QED BY <3>1, <3>3
  <2>3. CASE n > k
    <3>1. n - k \in 1 .. size /\ n - k + 1 \in 1 .. size /\ k + (n - k) = n /\ k + (n - k + 1) = n + 1
      <4>1. n \in Nat /\ n <= k + size - 1 /\ k \in Nat /\ size \in Nat /\ n > k
        BY <1>6, <1>10, <1>14, <2>3
      <4> QED BY <4>1
    <3>2. reader'.seen[n] = top - (n - k) + 1 /\ reader'.seen[n + 1] = top - (n - k + 1) + 1
      BY <1>10, <3>1
    <3> QED BY <1>3, <3>1, <3>2
  <2> QED BY <1>6, <1>10, <1>14, <2>1, <2>2, <2>3
<1>17. ASSUME NEW n \in 1 .. Len(reader'.seen)
       PROVE  reader'.seen[n] \in 2 .. Len(history) + 1
  <2>1. CASE n <= k
    <3>1. n \in 1 .. k
      BY <1>14, <2>1
    <3>2. reader.seen[n] \in 2 .. Len(history) + 1
      BY <3>1 DEF ReaderInv, k
    <3> QED BY <1>10, <3>1, <3>2
  <2>2. CASE n > k
    <3>1. n - k \in 1 .. size /\ k + (n - k) = n
      BY <1>6, <1>10, <1>14, <2>2
    <3>2. reader'.seen[n] = top - (n - k) + 1
      BY <1>10, <3>1
    <3> QED BY <1>1, <1>3, <1>6, <3>1, <3>2
  <2> QED BY <1>10, <1>14, <1>6, <2>1, <2>2
<1>18. ASSUME reader'.cursor \in Nat
       PROVE  reader' \in [cursor : Nat, done : BOOLEAN, seen : Seq(Nat)]
  <2>1. reader' = [cursor |-> reader'.cursor, done |-> reader'.done, seen |-> reader'.seen] /\ reader'.done \in BOOLEAN
    BY <1>h
  <2> QED BY <1>10, <1>18, <2>1
<1>15. CASE more
  <2>1. reader'.seen[k + size] = top - size + 1 /\ page[HistoryPage] = top - size + 1 /\ size > 0 /\ size = HistoryPage
    <3>1. size = HistoryPage /\ size > 0 /\ size \in 1 .. size
      BY <1>6, <1>15
    <3> QED BY <1>9, <1>10, <3>1
  <2>2. top - size + 1 \in 3 .. Len(history) + 1
    BY <1>1, <1>3, <1>6, <1>15
  <2>3. reader'.cursor = top - size + 1 /\ ~reader'.done /\ Len(reader'.seen) = k + size /\ k + size > 0
    <3>1. reader'.cursor = page[HistoryPage] /\ ~reader'.done
      BY <1>8, <1>15
    <3> QED BY <1>6, <1>10, <1>14, <2>1, <3>1
  <2>4. reader' \in [cursor : Nat, done : BOOLEAN, seen : Seq(Nat)]
    BY <1>1, <1>18, <2>2, <2>3
  <2> QED BY <1>h, <1>10, <1>13, <1>17, <2>1, <2>2, <2>3, <2>4 DEF ReaderInv
<1>16. CASE ~more
  <2>1. reader'.done /\ size = top - 1
    BY <1>6, <1>8, <1>16
  <2>2. ASSUME k + size > 0 PROVE reader'.seen[k + size] = 2
    <3>1. CASE size > 0
      <4>1. reader'.seen[k + size] = top - size + 1
        BY <1>6, <1>10, <3>1
      <4> QED BY <1>3, <2>1, <4>1
    <3>2. CASE size = 0
      <4>1. k > 0 /\ top = 1 /\ reader'.seen[k] = reader.seen[k]
        <5>1. k > 0 /\ top = 1 /\ k \in 1 .. k
          BY <1>3, <1>14, <2>1, <2>2, <3>2
        <5> QED BY <1>10, <5>1
      <4> QED BY <1>12, <1>14, <3>2, <4>1
    <3> QED BY <1>6, <3>1, <3>2
  <2>3. reader'.cursor = 0
    BY <1>8, <1>16
  <2>4. reader' \in [cursor : Nat, done : BOOLEAN, seen : Seq(Nat)]
    BY <1>18, <2>3
  <2> QED BY <1>h, <1>10, <1>13, <1>17, <2>1, <2>2, <2>3, <2>4 DEF ReaderInv
<1> QED BY <1>15, <1>16

\* A switch adds versions above the cursor.
LEMMA ReaderKept ==
  ASSUME HistoryInv, ReaderInv, UNCHANGED reader, Len(history') \in Nat, Len(history') >= Len(history)
  PROVE  ReaderInv'
<1>1. Len(history) \in Nat
  BY DEF HistoryInv
<1>2. /\ \A n \in 3 .. Len(history) + 1 : n \in 3 .. Len(history') + 1
      /\ \A n \in 2 .. Len(history) + 1 : n \in 2 .. Len(history') + 1
  BY <1>1
<1> QED BY <1>2 DEF ReaderInv

\* Every step keeps the invariant.
LEMMA ThreadStays == ThreadInv /\ ReaderInv /\ [ThreadNext]_threadVars => ThreadInv' /\ ReaderInv'
<1> SUFFICES ASSUME ThreadInv, ReaderInv, [ThreadNext]_threadVars PROVE ThreadInv' /\ ReaderInv'
  OBVIOUS
<1>t. HistoryInv
  BY DEF ThreadInv
<1>1. CASE UNCHANGED <<switchVars, threadRunVars, reader>>
  <2>1. UNCHANGED <<thread, history, switchRecords, switches, switchAnswers, snapshots, runStages, created, planned>>
    BY <1>1 DEF switchVars, threadRunVars
  <2>2. ThreadInv'
    BY <2>1, HistoryKept, KeysKept, OrderKept DEF ThreadInv
  <2> QED BY <1>1, <1>t, <2>1, <2>2, ReaderKept DEF HistoryInv
<1>2. CASE (\E w \in Workspaces : WorkspaceMoved(w)) \/ UNCHANGED threadVars
  BY <1>1, <1>2 DEF WorkspaceMoved, threadVars
<1>3. CASE ListThreadWorkspaceHistory
  <2>1. UNCHANGED <<switchVars, threadRunVars>>
    BY <1>3 DEF ListThreadWorkspaceHistory
  <2>2. ThreadInv'
    BY <2>1, HistoryKept, KeysKept, OrderKept DEF ThreadInv, switchVars, threadRunVars
  <2> QED BY <1>3, <1>t, <2>2, ReaderSafe
<1>4. CASE ThreadRunStep
  <2>1. UNCHANGED <<history, reader>>
    BY <1>4 DEF ThreadRunStep, ResolveThreadBinding, CurrentRunWorkspaceVersion, CreateThreadRun, CreateConflict,
       SaveWorkspaceContext, PublishPlan, PlanningFails, ValidateFrozenWorkspaceContextForPlan, switchVars
  <2> QED BY <1>4, <1>t, <2>1, ThreadRunSafe, ReaderKept DEF HistoryInv
<1>5. CASE SwitchStep
  <2>1. ThreadInv'
    BY <1>5, SwitchSafe
  <2>2. HistoryInv'
    BY <2>1 DEF ThreadInv
  <2>3. Len(history') \in Nat /\ Len(history') >= Len(history)
    <3>1. history' = history \/ \E row : history' = Append(history, row)
      BY <1>5 DEF SwitchStep, AskSwitch, FindThreadWorkspaceSwitchReplay, SwitchThreadWorkspace, SwitchFails, Replay,
         NoSwitch, ApplySwitch
    <3>2. history \in Seq(PastBinding)
      BY <1>t DEF HistoryInv
    <3> QED BY <3>1, <3>2
  <2>4. UNCHANGED reader
    BY <1>5 DEF SwitchStep, AskSwitch, FindThreadWorkspaceSwitchReplay, SwitchThreadWorkspace, SwitchFails
  <2> QED BY <1>t, <2>1, <2>3, <2>4, ReaderKept
<1> QED BY <1>2, <1>3, <1>4, <1>5 DEF ThreadNext

\* For every number of Workspaces, keys, Runs and switches and every size of a
\* page: a key takes effect once and has one answer, Runs are created and planned
\* in the order of the bindings, each with a binding the thread had, and the pages
\* of the history skip and repeat nothing.
THEOREM ThreadStoryHolds ==
  ThreadSpec => []ThreadTellsOneStory
<1>2. ASSUME ThreadInv, ReaderInv PROVE ThreadTellsOneStory
  <2>t. HistoryInv /\ KeyInv /\ OrderInv
    BY <1>2 DEF ThreadInv
  <2>1. ASSUME NEW s, NEW x, s \subseteq {x} PROVE Cardinality(s) <= 1
    <3>1. s = {} \/ s = {x}
      BY <2>1
    <3>2. Cardinality({}) = 0
      BY FS_EmptySet
    <3>3. Cardinality({x}) = 1
      BY FS_Singleton
    <3> QED BY <3>1, <3>2, <3>3
  <2>2. ASSUME NEW key \in SwitchKeys PROVE Cardinality(switchAnswers[key]) <= 1
    <3>1. \E x : switchAnswers[key] \subseteq {x}
      BY <2>t DEF KeyInv
    <3> QED BY <2>1, <3>1
  <2>3. ASSUME NEW key \in SwitchKeys
        PROVE  Cardinality({n \in DOMAIN history : history[n].key = key}) <= 1
    <3> DEFINE rows == {n \in DOMAIN history : history[n].key = key}
    <3>1. DOMAIN history = 1..Len(history)
      BY <2>t DEF HistoryInv
    <3>2. \A m, n \in rows : m = n
      BY <2>t, <3>1 DEF KeyInv
    <3> HIDE DEF rows
    <3>3. \E x : rows \subseteq {x}
      BY <3>2
    <3>4. Cardinality(rows) <= 1
      BY <2>1, <3>3
    <3> QED BY <3>4 DEF rows
  <2>4. SwitchedOnce
    BY <2>2, <2>3 DEF SwitchedOnce
  <2>5. DOMAIN created = 1..Len(created) /\ DOMAIN planned = 1..Len(planned)
    BY <2>t DEF OrderInv, Ordered
  <2>6. RunsFollowTheThread
    BY <2>t, <2>5 DEF OrderInv, Ordered, RunsFollowTheThread, InOrderOfTheThread
  <2>7. PagesAreWhole
    <3>1. reader.seen # << >> => Len(reader.seen) > 0
      BY <1>2 DEF ReaderInv
    <3> QED BY <1>2, <3>1 DEF ReaderInv, PagesAreWhole
  <2> QED BY <2>4, <2>6, <2>7 DEF ThreadTellsOneStory
<1>3. ThreadInit => ReaderInv
  BY DEF ThreadInit, ReaderInv
<1> QED BY ThreadStarts, ThreadStays, <1>2, <1>3, PTL DEF ThreadSpec

\* The calls that are under way.
UnderWay == {key \in SwitchKeys : switches[key] # Absent}

\* A call is under way, was answered, or has moved the version by one: the versions
\* do not outnumber the calls.
CallsCounted ==
  /\ IsFiniteSet(UnderWay) /\ asked \in 0 .. MaxSwitches
  /\ thread.version + Cardinality(UnderWay) <= asked + 1

SwitchTyped ==
  /\ thread \in [workspace : Workspaces, version : Versions]
  /\ history \in Seq(Transition)
  /\ switchRecords \in [SwitchKeys -> [command : SwitchCommand, binding : SwitchBinding] \cup {Absent}]
  /\ switches \in [SwitchKeys -> [command : SwitchCommand, replayed : BOOLEAN] \cup {Absent}]
  /\ switchAnswers \in [SwitchKeys -> SUBSET SwitchBinding]
  /\ CallsCounted

\* A Run that goes on has a snapshot.
RunsTyped ==
  /\ moves \in 0 .. MaxMoves
  /\ workspaces \in [Workspaces -> [status : WorkspaceStatuses, written : 0 .. MaxMoves]]
  /\ \A w \in Workspaces : workspaces[w].written <= moves
  /\ snapshots \in [ThreadRuns -> Tuple \cup {Absent}] /\ contexts \in [ThreadRuns -> Tuple \cup {Absent}]
  /\ runStages \in [ThreadRuns -> RunStages] /\ retried \in [ThreadRuns -> BOOLEAN]
  /\ created \in Seq(ThreadRuns) /\ planned \in Seq(ThreadRuns)
  /\ \A r \in ThreadRuns : runStages[r] # "new" => snapshots[r] \in Tuple

\* A call that is over leaves the number of those under way one less.
LEMMA CallEnds ==
  ASSUME SwitchTyped, NEW key \in SwitchKeys, switches[key] # Absent, EndCall(key), UNCHANGED asked,
         thread'.version \in Nat, thread'.version <= thread.version + 1
  PROVE  /\ switches' \in [SwitchKeys -> [command : SwitchCommand, replayed : BOOLEAN] \cup {Absent}]
         /\ CallsCounted' /\ thread'.version <= MaxSwitches + 1
<1>1. switches' = [switches EXCEPT ![key] = Absent]
  BY DEF EndCall
<1>2. switches' \in [SwitchKeys -> [command : SwitchCommand, replayed : BOOLEAN] \cup {Absent}]
  BY <1>1 DEF SwitchTyped
<1>3. UnderWay' = UnderWay \ {key} /\ key \in UnderWay
  BY <1>1 DEF UnderWay, SwitchTyped
<1>4. IsFiniteSet(UnderWay) /\ thread.version + Cardinality(UnderWay) <= asked + 1 /\ asked \in 0 .. MaxSwitches
      /\ thread.version \in Nat
  BY ThreadAssumption DEF SwitchTyped, CallsCounted, Versions
<1>5. IsFiniteSet(UnderWay') /\ Cardinality(UnderWay') = Cardinality(UnderWay) - 1 /\ Cardinality(UnderWay') \in Nat
      /\ Cardinality(UnderWay) \in Nat
  BY <1>3, <1>4, FS_RemoveElement, FS_CardinalityType
<1>6. CallsCounted'
  BY <1>4, <1>5 DEF CallsCounted
<1> QED BY <1>2, <1>4, <1>5, <1>6, ThreadAssumption DEF CallsCounted

\* Every call of the app keeps the types.
LEMMA SwitchStepTyped ==
  ASSUME SwitchTyped, SwitchStep
  PROVE  SwitchTyped'
<1> DEFINE Call == [command : SwitchCommand, replayed : BOOLEAN]
           Record == [command : SwitchCommand, binding : SwitchBinding]
<1>t. /\ thread.workspace \in Workspaces /\ thread.version \in Versions /\ thread.version \in Nat
      /\ MaxSwitches \in Nat /\ switches \in [SwitchKeys -> Call \cup {Absent}]
      /\ switchRecords \in [SwitchKeys -> Record \cup {Absent}]
      /\ switchAnswers \in [SwitchKeys -> SUBSET SwitchBinding]
      /\ IsFiniteSet(UnderWay) /\ asked \in 0 .. MaxSwitches
      /\ thread.version + Cardinality(UnderWay) <= asked + 1
  BY ThreadAssumption DEF SwitchTyped, Versions, CallsCounted
<1>1. ASSUME NEW key \in SwitchKeys, NEW command \in SwitchCommand, AskSwitch(key, command) PROVE SwitchTyped'
  <2>1. /\ switches[key] = Absent /\ asked < MaxSwitches /\ asked' = asked + 1
        /\ switches' = [switches EXCEPT ![key] = [command |-> command, replayed |-> FALSE]]
        /\ UNCHANGED <<thread, history, switchRecords, switchAnswers>>
    BY <1>1 DEF AskSwitch
  <2>2. switches' \in [SwitchKeys -> Call \cup {Absent}]
    BY <1>t, <2>1
  <2>3. UnderWay' \subseteq UnderWay \cup {key} /\ key \notin UnderWay
    BY <1>t, <2>1 DEF UnderWay
  <2>4. /\ IsFiniteSet(UnderWay \cup {key}) /\ Cardinality(UnderWay \cup {key}) = Cardinality(UnderWay) + 1
        /\ Cardinality(UnderWay) \in Nat
    BY <1>t, <2>3, FS_AddElement, FS_CardinalityType
  <2>5. IsFiniteSet(UnderWay') /\ Cardinality(UnderWay') <= Cardinality(UnderWay) + 1 /\ Cardinality(UnderWay') \in Nat
    <3>1. /\ IsFiniteSet(UnderWay') /\ Cardinality(UnderWay') <= Cardinality(UnderWay \cup {key})
      BY <2>3, <2>4, FS_Subset
    <3> QED BY <2>4, <3>1, FS_CardinalityType
  <2>6. CallsCounted'
    BY <1>t, <2>1, <2>4, <2>5 DEF CallsCounted
  <2> QED BY <2>1, <2>2, <2>6 DEF SwitchTyped
<1>e. ASSUME NEW key \in SwitchKeys, switches[key] # Absent, EndCall(key), UNCHANGED asked,
             UNCHANGED <<thread, history, switchRecords>>,
             switchAnswers' \in [SwitchKeys -> SUBSET SwitchBinding]
      PROVE  SwitchTyped'
  <2>1. CallsCounted' /\ switches' \in [SwitchKeys -> Call \cup {Absent}]
    BY <1>e, <1>t, CallEnds
  <2> QED BY <1>e, <2>1 DEF SwitchTyped
<1>2. ASSUME NEW key \in SwitchKeys, switches[key] # Absent, Replay(key) PROVE SwitchTyped'
  <2>1. /\ switchRecords[key] # Absent /\ EndCall(key) /\ UNCHANGED <<thread, history, switchRecords, asked>>
    BY <1>2 DEF Replay
  <2>2. switchRecords[key].binding \in SwitchBinding
    BY <1>t, <2>1
  <2>3. PICK answers \in {switchAnswers[key], switchAnswers[key] \cup {switchRecords[key].binding}} :
          switchAnswers' = [switchAnswers EXCEPT ![key] = answers]
    BY <1>2 DEF Replay
  <2>4. switchAnswers' \in [SwitchKeys -> SUBSET SwitchBinding]
    BY <1>t, <2>2, <2>3
  <2> QED BY <1>2, <1>e, <2>1, <2>4
<1>3. ASSUME NEW key \in SwitchKeys, FindThreadWorkspaceSwitchReplay(key) PROVE SwitchTyped'
  <2>1. CASE Replay(key)
    BY <1>2, <1>3, <2>1 DEF FindThreadWorkspaceSwitchReplay
  <2>2. CASE ~Replay(key)
    <3>1. /\ switches[key] # Absent /\ switches' = [switches EXCEPT ![key].replayed = TRUE]
          /\ UNCHANGED <<thread, history, switchRecords, switchAnswers, asked>>
      BY <1>3, <2>2 DEF FindThreadWorkspaceSwitchReplay
    <3>2. PICK call \in Call : switches[key] = call
      BY <1>t, <3>1
    <3>3. [call EXCEPT !.replayed = TRUE] \in Call /\ switches' = [switches EXCEPT ![key] = [call EXCEPT !.replayed = TRUE]]
      BY <3>1, <3>2
    <3>4. switches' \in [SwitchKeys -> Call \cup {Absent}]
      BY <1>t, <3>3
    <3>5. UnderWay' \subseteq UnderWay
      BY <1>t, <3>1 DEF UnderWay
    <3>6. IsFiniteSet(UnderWay') /\ Cardinality(UnderWay') <= Cardinality(UnderWay)
          /\ Cardinality(UnderWay') \in Nat /\ Cardinality(UnderWay) \in Nat
      <4>1. IsFiniteSet(UnderWay') /\ Cardinality(UnderWay') <= Cardinality(UnderWay)
        BY <1>t, <3>5, FS_Subset
      <4> QED BY <1>t, <4>1, FS_CardinalityType
    <3>7. CallsCounted'
      BY <1>t, <3>1, <3>6 DEF CallsCounted
    <3> QED BY <3>1, <3>4, <3>7 DEF SwitchTyped
  <2> QED BY <2>1, <2>2
<1>r. ASSUME NEW key \in SwitchKeys, switches[key] # Absent, EndCall(key), UNCHANGED asked,
             NEW binding \in SwitchBinding, InsertIdempotency(key, binding),
             thread' \in [workspace : Workspaces, version : Versions], history' \in Seq(Transition),
             CallsCounted', switches' \in [SwitchKeys -> Call \cup {Absent}]
      PROVE  SwitchTyped'
  <2>1. switches[key].command \in SwitchCommand
    BY <1>r, <1>t
  <2>2. [command |-> switches[key].command, binding |-> binding] \in Record
    BY <2>1
  <2>3. switchRecords' \in [SwitchKeys -> Record \cup {Absent}]
    BY <1>r, <1>t, <2>2 DEF InsertIdempotency
  <2>4. switchAnswers' \in [SwitchKeys -> SUBSET SwitchBinding]
    BY <1>r, <1>t DEF InsertIdempotency
  <2> QED BY <1>r, <2>3, <2>4 DEF SwitchTyped
<1>4. ASSUME NEW key \in SwitchKeys, SwitchThreadWorkspace(key) PROVE SwitchTyped'
  <2>1. CASE Replay(key)
    BY <1>2, <1>4, <2>1 DEF SwitchThreadWorkspace
  <2>2. CASE ~Replay(key)
    <3>1. switches[key] # Absent /\ (NoSwitch(key) \/ ApplySwitch(key)) /\ EndCall(key) /\ UNCHANGED asked
      BY <1>4, <2>2 DEF SwitchThreadWorkspace
    <3>2. CASE NoSwitch(key)
      <4> DEFINE binding == [previous |-> Absent, workspace |-> thread.workspace, version |-> thread.version]
      <4>1. UNCHANGED <<thread, history>> /\ InsertIdempotency(key, binding)
        BY <3>2 DEF NoSwitch
      <4>2. binding \in SwitchBinding
        BY <1>t DEF SwitchBinding
      <4> HIDE DEF binding
      <4>3. CallsCounted' /\ switches' \in [SwitchKeys -> Call \cup {Absent}]
        BY <1>t, <3>1, <4>1, CallEnds
      <4>4. thread' \in [workspace : Workspaces, version : Versions] /\ history' \in Seq(Transition)
        BY <4>1 DEF SwitchTyped
      <4> QED BY <1>r, <3>1, <4>1, <4>2, <4>3, <4>4
    <3>3. CASE ApplySwitch(key)
      <4> DEFINE target == switches[key].command.target
                 binding == [previous |-> thread.workspace, workspace |-> target, version |-> thread.version + 1]
                 row == [previous |-> thread.workspace, workspace |-> target, version |-> thread.version + 1, key |-> key]
      <4>1. /\ thread' = [workspace |-> target, version |-> thread.version + 1]
            /\ history' = Append(history, row) /\ InsertIdempotency(key, binding)
        BY <3>3 DEF ApplySwitch
      <4>2. target \in Workspaces
        <5>1. switches[key].command \in SwitchCommand
          BY <1>t, <3>1
        <5> QED BY <5>1 DEF SwitchCommand
      <4>3. thread'.version = thread.version + 1
        BY <4>1
      <4>4. CallsCounted' /\ switches' \in [SwitchKeys -> Call \cup {Absent}] /\ thread'.version <= MaxSwitches + 1
        BY <1>t, <3>1, <4>3, CallEnds
      <4>5. thread.version + 1 \in Versions
        BY <1>t, <4>3, <4>4 DEF Versions
      <4>6. row \in Transition /\ binding \in SwitchBinding /\ thread' \in [workspace : Workspaces, version : Versions]
        BY <1>t, <4>1, <4>2, <4>5 DEF Transition, SwitchBinding
      <4> HIDE DEF row, binding
      <4>7. history' \in Seq(Transition)
        BY <4>1, <4>6 DEF SwitchTyped
      <4> QED BY <1>r, <3>1, <4>1, <4>4, <4>6, <4>7
    <3> QED BY <3>1, <3>2, <3>3
  <2> QED BY <2>1, <2>2
<1>5. ASSUME NEW key \in SwitchKeys, SwitchFails(key) PROVE SwitchTyped'
  BY <1>5, <1>e, <1>t DEF SwitchFails
<1> QED BY <1>1, <1>3, <1>4, <1>5 DEF SwitchStep

\* A Run that goes to a stage, whatever its snapshot is by then.
LEMMA RunGoesTyped ==
  ASSUME RunsTyped, thread \in [workspace : Workspaces, version : Versions], NEW r \in ThreadRuns,
         NEW stage \in RunStages, RunGoes(r, stage), snapshots' \in [ThreadRuns -> Tuple \cup {Absent}],
         \A other \in ThreadRuns : other # r => snapshots'[other] = snapshots[other],
         stage # "new" => snapshots'[r] \in Tuple, contexts' \in [ThreadRuns -> Tuple \cup {Absent}],
         retried' \in [ThreadRuns -> BOOLEAN], created' \in Seq(ThreadRuns), planned' \in Seq(ThreadRuns),
         UNCHANGED workspaceVars
  PROVE  RunsTyped'
<1>1. runStages' \in [ThreadRuns -> RunStages] /\ runStages'[r] = stage
      /\ \A other \in ThreadRuns : other # r => runStages'[other] = runStages[other]
  BY DEF RunGoes, RunsTyped
<1>2. \A other \in ThreadRuns : runStages'[other] # "new" => snapshots'[other] \in Tuple
  <2> SUFFICES ASSUME NEW other \in ThreadRuns, runStages'[other] # "new" PROVE snapshots'[other] \in Tuple
    OBVIOUS
  <2>1. CASE other = r
    BY <1>1, <2>1
  <2>2. CASE other # r
    BY <1>1, <2>2 DEF RunsTyped
  <2> QED BY <2>1, <2>2
<1> QED BY <1>1, <1>2 DEF RunsTyped, workspaceVars

\* Every step of a Run keeps the types.
LEMMA ThreadRunTyped ==
  ASSUME RunsTyped, thread \in [workspace : Workspaces, version : Versions], ThreadRunStep
  PROVE  RunsTyped'
<1> PICK r \in ThreadRuns :
      \/ ResolveThreadBinding(r) \/ CurrentRunWorkspaceVersion(r) \/ CreateThreadRun(r) \/ CreateConflict(r)
      \/ \E tuple \in Tuple : SaveWorkspaceContext(r, tuple)
      \/ PublishPlan(r) \/ PlanningFails(r) \/ ValidateFrozenWorkspaceContextForPlan(r)
  BY DEF ThreadRunStep
<1>t. /\ snapshots \in [ThreadRuns -> Tuple \cup {Absent}] /\ contexts \in [ThreadRuns -> Tuple \cup {Absent}]
      /\ runStages \in [ThreadRuns -> RunStages] /\ retried \in [ThreadRuns -> BOOLEAN]
      /\ created \in Seq(ThreadRuns) /\ planned \in Seq(ThreadRuns)
      /\ runStages[r] # "new" => snapshots[r] \in Tuple
      /\ workspaces \in [Workspaces -> [status : WorkspaceStatuses, written : 0 .. MaxMoves]]
  BY DEF RunsTyped
<1>1. CASE ResolveThreadBinding(r)
  <2> DEFINE tuple == [workspace |-> thread.workspace, version |-> thread.version, written |-> 0]
  <2>1. /\ snapshots' = [snapshots EXCEPT ![r] = tuple] /\ RunGoes(r, "resolved")
        /\ UNCHANGED <<workspaceVars, retried, contexts, created, planned>>
    BY <1>1 DEF ResolveThreadBinding
  <2>2. tuple \in Tuple
    BY ThreadAssumption DEF Tuple
  <2> HIDE DEF tuple
  <2>3. snapshots' \in [ThreadRuns -> Tuple \cup {Absent}] /\ snapshots'[r] \in Tuple
        /\ \A other \in ThreadRuns : other # r => snapshots'[other] = snapshots[other]
    BY <1>t, <2>1, <2>2
  <2>4. "resolved" \in RunStages
    BY DEF RunStages
  <2> QED BY <1>t, <2>1, <2>3, <2>4, RunGoesTyped
<1>2. CASE CurrentRunWorkspaceVersion(r)
  <2>1. snapshots[r] \in Tuple /\ UNCHANGED <<workspaceVars, retried, contexts, created, planned>>
    BY <1>2, <1>t DEF CurrentRunWorkspaceVersion
  <2>2. "refused" \in RunStages /\ "read" \in RunStages
    BY DEF RunStages
  <2>3. CASE RunGoes(r, "refused") /\ UNCHANGED snapshots
    BY <1>t, <2>1, <2>2, <2>3, RunGoesTyped
  <2>4. CASE snapshots' = [snapshots EXCEPT ![r].written = workspaces[snapshots[r].workspace].written] /\ RunGoes(r, "read")
    <3> DEFINE tuple == [snapshots[r] EXCEPT !.written = workspaces[snapshots[r].workspace].written]
    <3>1. snapshots[r].workspace \in Workspaces
      BY <2>1 DEF Tuple
    <3>2. workspaces[snapshots[r].workspace].written \in 0 .. MaxMoves
      BY <1>t, <3>1
    <3>3. tuple \in Tuple
      BY <2>1, <3>2 DEF Tuple
    <3>4. snapshots' = [snapshots EXCEPT ![r] = tuple]
      BY <2>4
    <3> HIDE DEF tuple
    <3>5. snapshots' \in [ThreadRuns -> Tuple \cup {Absent}] /\ snapshots'[r] \in Tuple
          /\ \A other \in ThreadRuns : other # r => snapshots'[other] = snapshots[other]
      BY <1>t, <3>3, <3>4
    <3> QED BY <1>t, <2>1, <2>2, <2>4, <3>5, RunGoesTyped
  <2> QED BY <1>2, <2>3, <2>4 DEF CurrentRunWorkspaceVersion
\* The steps that leave the snapshots alone.
<1>g. ASSUME NEW stage \in RunStages, RunGoes(r, stage), stage # "new" => runStages[r] # "new",
             UNCHANGED <<workspaceVars, snapshots, contexts>>, retried' \in [ThreadRuns -> BOOLEAN],
             created' \in Seq(ThreadRuns), planned' \in Seq(ThreadRuns)
      PROVE  RunsTyped'
  BY <1>t, <1>g, RunGoesTyped
<1>3. CASE CreateThreadRun(r)
  <2>1. "planning" \in RunStages
    BY DEF RunStages
  <2> QED BY <1>3, <1>g, <1>t, <2>1 DEF CreateThreadRun
<1>4. CASE CreateConflict(r)
  <2>1. "refused" \in RunStages /\ "new" \in RunStages
    BY DEF RunStages
  <2>2. retried' \in [ThreadRuns -> BOOLEAN]
    BY <1>4, <1>t DEF CreateConflict
  <2> QED BY <1>4, <1>g, <1>t, <2>1, <2>2 DEF CreateConflict
<1>5. ASSUME NEW tuple \in Tuple, SaveWorkspaceContext(r, tuple) PROVE RunsTyped'
  <2>1. contexts' \in [ThreadRuns -> Tuple \cup {Absent}]
    BY <1>5, <1>t DEF SaveWorkspaceContext
  <2> QED BY <1>5, <2>1 DEF SaveWorkspaceContext, RunsTyped, workspaceVars
<1>6. CASE PublishPlan(r)
  <2>1. "queued" \in RunStages
    BY DEF RunStages
  <2> QED BY <1>6, <1>g, <1>t, <2>1 DEF PublishPlan
<1>7. CASE PlanningFails(r)
  <2>1. "failed" \in RunStages
    BY DEF RunStages
  <2> QED BY <1>7, <1>g, <1>t, <2>1 DEF PlanningFails
<1>8. CASE ValidateFrozenWorkspaceContextForPlan(r)
  <2>1. "failed" \in RunStages /\ "dispatched" \in RunStages
    BY DEF RunStages
  <2> QED BY <1>8, <1>g, <1>t, <2>1 DEF ValidateFrozenWorkspaceContextForPlan
<1> QED BY <1>1, <1>2, <1>3, <1>4, <1>5, <1>6, <1>7, <1>8

\* A Workspace is written to no more often than Workspaces move.
LEMMA MoveTyped ==
  ASSUME RunsTyped, NEW w \in Workspaces, WorkspaceMoved(w)
  PROVE  RunsTyped'
<1>1. /\ moves \in 0 .. MaxMoves /\ moves < MaxMoves /\ moves' = moves + 1 /\ UNCHANGED threadRunVars
      /\ workspaces \in [Workspaces -> [status : WorkspaceStatuses, written : 0 .. MaxMoves]]
      /\ \A v \in Workspaces : workspaces[v].written <= moves
  BY DEF RunsTyped, WorkspaceMoved
<1>2. moves' \in 0 .. MaxMoves
  BY <1>1, ThreadAssumption
<1>3. PICK now \in [status : WorkspaceStatuses, written : 0 .. MaxMoves] :
        workspaces' = [workspaces EXCEPT ![w] = now] /\ now.written <= moves'
  <2> DEFINE was == workspaces[w]
  <2>1. was \in [status : WorkspaceStatuses, written : 0 .. MaxMoves] /\ was.written <= moves
    BY <1>1
  <2>2. CASE workspaces' = [workspaces EXCEPT ![w].written = @ + 1]
    <3>1. [was EXCEPT !.written = @ + 1] \in [status : WorkspaceStatuses, written : 0 .. MaxMoves]
          /\ [was EXCEPT !.written = @ + 1].written <= moves'
      BY <1>1, <1>2, <2>1, ThreadAssumption
    <3>2. workspaces' = [workspaces EXCEPT ![w] = [was EXCEPT !.written = @ + 1]]
      BY <2>2
    <3> QED BY <3>1, <3>2
  <2>3. ASSUME NEW status \in WorkspaceStatuses, workspaces' = [workspaces EXCEPT ![w].status = status]
        PROVE  \E now \in [status : WorkspaceStatuses, written : 0 .. MaxMoves] :
                 workspaces' = [workspaces EXCEPT ![w] = now] /\ now.written <= moves'
    <3>1. [was EXCEPT !.status = status] \in [status : WorkspaceStatuses, written : 0 .. MaxMoves]
          /\ [was EXCEPT !.status = status].written <= moves'
      BY <1>1, <1>2, <2>1
    <3>2. workspaces' = [workspaces EXCEPT ![w] = [was EXCEPT !.status = status]]
      BY <2>3
    <3> QED BY <3>1, <3>2
  <2> QED BY <2>2, <2>3 DEF WorkspaceMoved
<1>4. workspaces' \in [Workspaces -> [status : WorkspaceStatuses, written : 0 .. MaxMoves]]
      /\ \A v \in Workspaces : workspaces'[v].written <= moves'
  <2>1. workspaces' \in [Workspaces -> [status : WorkspaceStatuses, written : 0 .. MaxMoves]]
    BY <1>1, <1>3
  <2>2. ASSUME NEW v \in Workspaces PROVE workspaces'[v].written <= moves'
    <3>1. CASE v = w
      BY <1>1, <1>3, <3>1
    <3>2. CASE v # w
      <4>1. workspaces'[v] = workspaces[v] /\ workspaces[v].written \in Int /\ workspaces[v].written <= moves
        BY <1>1, <1>3, <3>2
      <4> QED BY <1>1, <4>1
    <3> QED BY <3>1, <3>2
  <2> QED BY <2>1, <2>2
<1> QED BY <1>1, <1>2, <1>4 DEF RunsTyped, threadRunVars

\* The types of the thread, its calls, Runs and reader hold of every behaviour: as
\* each version takes a call, versions stay within the calls that may be made.
THEOREM ThreadTypeCorrect == ThreadSpec => []ThreadTypeOK
<1>1. ThreadInit => ReaderInv /\ SwitchTyped /\ RunsTyped
  <2> SUFFICES ASSUME ThreadInit PROVE ReaderInv /\ SwitchTyped /\ RunsTyped
    OBVIOUS
  <2>1. ReaderInv
    BY DEF ThreadInit, ReaderInv
  <2>2. UnderWay = {}
    BY DEF ThreadInit, UnderWay
  <2>3. CallsCounted
    BY <2>2, FS_EmptySet, ThreadAssumption DEF ThreadInit, CallsCounted
  <2>4. 1 \in Versions
    BY ThreadAssumption DEF Versions
  <2>5. SwitchTyped
    BY <2>3, <2>4, ThreadAssumption DEF ThreadInit, SwitchTyped
  <2>6. RunsTyped
    BY ThreadAssumption DEF ThreadInit, RunsTyped, RunStages, WorkspaceStatuses
  <2> QED BY <2>1, <2>5, <2>6
<1>2. SwitchTyped /\ RunsTyped /\ [ThreadNext]_threadVars => SwitchTyped' /\ RunsTyped'
  <2> SUFFICES ASSUME SwitchTyped, RunsTyped, [ThreadNext]_threadVars PROVE SwitchTyped' /\ RunsTyped'
    OBVIOUS
  <2>1. UNCHANGED switchVars => SwitchTyped'
    BY DEF SwitchTyped, CallsCounted, UnderWay, switchVars
  <2>2. UNCHANGED <<workspaceVars, threadRunVars>> => RunsTyped'
    BY DEF RunsTyped, workspaceVars, threadRunVars
  <2>3. CASE SwitchStep
    <3>1. UNCHANGED <<workspaceVars, threadRunVars>>
      BY <2>3 DEF SwitchStep, AskSwitch, FindThreadWorkspaceSwitchReplay, SwitchThreadWorkspace, SwitchFails
    <3> QED BY <2>2, <2>3, <3>1, SwitchStepTyped
  <2>4. CASE ThreadRunStep
    <3>1. UNCHANGED switchVars
      BY <2>4 DEF ThreadRunStep, ResolveThreadBinding, CurrentRunWorkspaceVersion, CreateThreadRun, CreateConflict,
         SaveWorkspaceContext, PublishPlan, PlanningFails, ValidateFrozenWorkspaceContextForPlan
    <3>2. thread \in [workspace : Workspaces, version : Versions]
      BY DEF SwitchTyped
    <3> QED BY <2>1, <2>4, <3>1, <3>2, ThreadRunTyped
  <2>5. CASE \E w \in Workspaces : WorkspaceMoved(w)
    BY <2>1, <2>5, MoveTyped DEF WorkspaceMoved
  <2>6. CASE ListThreadWorkspaceHistory \/ UNCHANGED threadVars
    BY <2>1, <2>2, <2>6 DEF ListThreadWorkspaceHistory, threadVars
  <2> QED BY <2>3, <2>4, <2>5, <2>6 DEF ThreadNext
<1>3. ThreadInv /\ ReaderInv /\ SwitchTyped /\ RunsTyped => ThreadTypeOK
  <2> SUFFICES ASSUME HistoryInv, ReaderInv, SwitchTyped, RunsTyped PROVE ThreadTypeOK
    BY DEF ThreadInv
  <2>1. Len(history) + 1 = thread.version /\ thread.version \in Versions /\ Len(history) \in Nat
    BY DEF HistoryInv, SwitchTyped
  <2>2. \A n \in 2 .. Len(history) + 1 : n \in Versions
    BY <2>1, ThreadAssumption DEF Versions
  <2>3. reader.seen \in Seq(Versions)
    <3>1. reader.seen \in Seq(Nat) /\ \A n \in 1 .. Len(reader.seen) : reader.seen[n] \in Versions
      BY <2>2 DEF ReaderInv
    <3> QED BY <3>1
  <2>4. reader.cursor \in {0} \cup Versions
    <3>1. reader.cursor = 0 \/ reader.cursor \in 3 .. Len(history) + 1
      BY DEF ReaderInv
    <3> QED BY <2>1, <2>2, <3>1
  <2>5. reader \in [cursor : {0} \cup Versions, done : BOOLEAN, seen : Seq(Versions)]
    BY <2>3, <2>4 DEF ReaderInv
  <2> QED BY <2>5 DEF SwitchTyped, RunsTyped, CallsCounted, ThreadTypeOK
<1> QED BY ThreadStarts, ThreadStays, <1>1, <1>2, <1>3, PTL DEF ThreadSpec

-------------------------------------------------------------------------------
(* Planning *)

\* A route of the present catalogue is its Agent's entry.
RouteFits(c, rt, r) ==
  LET e == c.agents[rt.agent] IN
  /\ rt.agent \in DOMAIN c.agents /\ e.active /\ Serves(e, r.intent) /\ ValidRouteIdentity(e)
  /\ rt = L1AgentRouteResult(c, rt.agent)

\* What a dynamic plan of the present catalogue has, whatever the Host and the images.
PlanFits(c, p) ==
  LET e == c.agents[p.agent] IN
  /\ p.agent \in c.allowed.agents /\ ActiveAgentEntry(c, p)
  /\ e.max \in 1 .. 8 /\ p.toolPolicy = e.toolPolicy
  /\ e.key # NoKey \/ p.key # NoKey => p.key = e.key /\ p.policy = e.policy /\ PolicyHasItsHash(e.policy)
  /\ Cardinality(p.skills) <= e.max /\ p.skills \subseteq e.skills
  /\ \A f \in p.refs : RootOf[f] \in e.roots
  /\ p.skills # {} /\ Cardinality(p.skills) <= 8
  /\ p.skills \subseteq c.allowed.skills /\ \A s \in p.skills : ActiveSkillMatches(c, s, p)
  /\ p.refs \subseteq c.allowed.knowledge
  /\ ValidToolPolicy(p) /\ ValidTerminalOutput(p)

\* A plan is never of a newer catalogue, and a dynamic one of the present
\* catalogue fits it.
PlanHolds ==
  /\ runPlan.version \in Nat /\ runPlan.version <= catalog.version
  /\ runPlan.version = catalog.version /\ runPlan.mode = "dynamic" => PlanFits(catalog, runPlan)

PlanInv ==
  /\ catalog \in Catalogs /\ ValidateCapabilityPlanningCatalog(catalog) /\ request \in Requests
  /\ step = "unrouted" => ~MayChoose
  /\ step = "routed" =>
       /\ route.version \in Nat /\ route.version <= catalog.version
       /\ route.version = catalog.version => RouteFits(catalog, route, request)
  /\ step \in {"planned", "frozen"} => PlanHolds
  /\ step = "planned" =>
       \E rt, intent, mode, skills, first, refs :
         runPlan = NewAgentRunPlan(rt, intent, mode, skills, first, refs)
  /\ step = "frozen" => runPlan.images \in Nat
  /\ step = "refused" /\ runPlan.mode = "dynamic" => RightlyRefused(runPlan)

\* The invariant holds for any catalogue that passed its check.
LEMMA PlanningStarts == PlanningInit => PlanInv
BY DEF PlanningInit, PlanInv

\* A request is routed whenever its user may choose what it names.
LEMMA RouteSafe ==
  ASSUME PlanInv, Route
  PROVE  PlanInv'
<1>v. /\ catalog \in Catalogs /\ request \in Requests /\ ValidateCapabilityPlanningCatalog(catalog)
      /\ UNCHANGED <<catalog, request, runPlan>> /\ catalog.version \in Nat
  BY CatalogAssumption DEF PlanInv, Route
<1> DEFINE found == {a \in SelectedAgents(catalog, request) : ValidRouteIdentity(catalog.agents[a])}
<1>1. CASE found = {}
  <2>1. step' = "unrouted"
    BY <1>1 DEF Route
  <2>2. ~MayChoose
    <3> SUFFICES ASSUME NEW a \in ResolvePublicMetaWorkspace(catalog, request.user, request.key),
                        Serves(catalog.agents[a], request.intent),
                        request.intent.candidates = {} \/ a \in request.intent.candidates
                 PROVE  FALSE
      BY DEF MayChoose
    <3> DEFINE e == catalog.agents[a]
    <3>1. a \in DOMAIN catalog.agents /\ ValidPublicEntry(e) /\ e.key = request.key /\ Opens(e, request.user)
      BY DEF ResolvePublicMetaWorkspace
    <3>2. request.key # NoKey /\ e.active /\ e.selectable /\ PolicyHasItsHash(e.policy)
      BY <3>1 DEF ValidPublicEntry
    <3>3. a \in ListEligible(catalog, request)
      BY <3>1, <3>2 DEF ListEligible
    <3> DEFINE public == {b \in ListEligible(catalog, request) : ValidPublicEntry(catalog.agents[b])}
               chosen == {b \in public : catalog.agents[b].key = request.key}
    <3>4. \A b \in chosen : b = a
      <4> SUFFICES ASSUME NEW b \in DOMAIN catalog.agents, ValidPublicEntry(catalog.agents[b]),
                          catalog.agents[b].key = request.key, b # a
                   PROVE  FALSE
        BY DEF ListEligible
      <4>1. catalog.agents[b].active /\ catalog.agents[b].selectable
        BY DEF ValidPublicEntry
      <4> QED BY <1>v, <3>1, <3>2, <4>1 DEF ValidateCapabilityPlanningCatalog, ValidManifest
    <3>5. chosen = {a}
      BY <3>1, <3>3, <3>4
    <3>6. SelectedAgents(catalog, request) = IF Cardinality(chosen) = 1 THEN chosen ELSE {}
      BY <3>2 DEF SelectedAgents
    <3>7. a \in SelectedAgents(catalog, request)
      BY <3>5, <3>6, FS_Singleton
    <3>8. a \in found
      BY <3>2, <3>7 DEF ValidRouteIdentity
    <3> QED BY <1>1, <3>8
  <2>3. ~MayChoose'
    BY <1>v, <2>2 DEF MayChoose
  <2> QED BY <1>v, <2>1, <2>3 DEF PlanInv
<1>2. CASE found # {}
  <2>1. PICK a \in found : step' = "routed" /\ route' = L1AgentRouteResult(catalog, a)
    BY <1>2 DEF Route
  <2>2. a \in ListEligible(catalog, request) /\ ValidRouteIdentity(catalog.agents[a])
    <3>1. a \in SelectedAgents(catalog, request) /\ ValidRouteIdentity(catalog.agents[a])
      BY <2>1
    <3>2. SelectedAgents(catalog, request) \subseteq ListEligible(catalog, request)
      BY DEF SelectedAgents
    <3> QED BY <3>1, <3>2
  <2>3. route'.agent = a /\ route'.version = catalog.version
    BY <2>1 DEF L1AgentRouteResult
  <2>4. RouteFits(catalog, route, request)'
    BY <1>v, <2>1, <2>2, <2>3 DEF RouteFits, ListEligible
  <2> QED BY <1>v, <2>1, <2>3, <2>4 DEF PlanInv
<1> QED BY <1>1, <1>2

\* A plan that is stored is the one that was built.
LEMMA PlannedIs ==
  ASSUME NEW skills, NEW first, NEW refs, NEW mode, Planned(skills, first, refs, mode)
  PROVE  \/ step' = "unplanned"
         \/ /\ step' = "planned" /\ HasTerminalTemplate(request.intent.task, first)
            /\ runPlan' = NewAgentRunPlan(route, request.intent, mode, skills, first, refs)
BY DEF Planned

\* The validator's conditions hold of what the planner selects.
LEMMA DynamicFits ==
  ASSUME ValidateCapabilityPlanningCatalog(catalog), catalog \in Catalogs, RouteFits(catalog, route, request),
         NEW skills, skills = ListCandidates(catalog, route, request.intent),
         NEW refs, refs = RefsOf(catalog, skills),
         ValidateSelection(catalog, route, request.intent, skills), KnowledgeAllowed(catalog, route.roots, refs),
         NEW first \in skills, HasTerminalTemplate(request.intent.task, first)
  PROVE  PlanFits(catalog, NewAgentRunPlan(route, request.intent, "dynamic", skills, first, refs))
<1> DEFINE e == catalog.agents[route.agent]
           p == NewAgentRunPlan(route, request.intent, "dynamic", skills, first, refs)
<1>r. /\ route.agent \in DOMAIN catalog.agents /\ e.active /\ Serves(e, request.intent) /\ ValidRouteIdentity(e)
      /\ route.version = catalog.version /\ route.key = e.key
      /\ route.policy = (IF e.key = NoKey THEN "none" ELSE e.policy)
      /\ route.skills = e.skills /\ route.roots = e.roots /\ route.max = e.max /\ route.toolPolicy = e.toolPolicy
  BY DEF RouteFits, L1AgentRouteResult
<1>p. /\ p.agent = route.agent /\ p.version = route.version /\ p.key = route.key /\ p.policy = route.policy
      /\ p.toolPolicy = route.toolPolicy /\ p.task = request.intent.task /\ p.scope = request.intent.scope
      /\ p.skills = skills /\ p.refs = refs /\ p.tools = ToolsForIntent(request.intent)
      /\ p.writeMode = WriteModeForIntent(request.intent) /\ p.budget = ToolBudgetForIntent(request.intent)
      /\ p.terminal = first
  BY DEF NewAgentRunPlan
<1> HIDE DEF p, e
<1>1. p.agent \in catalog.allowed.agents /\ skills # {} /\ Cardinality(skills) <= e.max
  BY <1>p, <1>r DEF ValidateSelection
<1>2. ActiveAgentEntry(catalog, p)
  BY <1>p, <1>r DEF ActiveAgentEntry, Serves, MatchesRequiredOne, e
<1>3. e.max \in 1 .. 8
  BY <1>r DEF ValidateCapabilityPlanningCatalog, ValidManifest, e
<1>4. e.key # NoKey \/ p.key # NoKey => p.key = e.key /\ p.policy = e.policy /\ PolicyHasItsHash(e.policy)
  BY <1>p, <1>r DEF ValidRouteIdentity
<1>5. \A s \in skills : /\ s \in DOMAIN catalog.skills /\ s \in e.skills /\ s \in catalog.allowed.skills
                        /\ catalog.skills[s].active /\ MatchesOne(catalog.skills[s].tasks, request.intent.task)
                        /\ AgentMayUse(catalog.skills[s], route.agent)
  BY <1>r DEF ListCandidates, EligibleCandidates, MatchesRequiredOne
<1>6. Cardinality(skills) <= 8
  <2>1. IsFiniteSet(skills)
    <3>1. skills \subseteq DOMAIN catalog.skills /\ IsFiniteSet(DOMAIN catalog.skills)
      BY <1>5, CatalogAssumption
    <3> QED BY <3>1, FS_Subset
  <2>2. Cardinality(skills) \in Nat
    BY <2>1, FS_CardinalityType
  <2> QED BY <1>1, <1>3, <2>2
<1>7. \A s \in skills : ActiveSkillMatches(catalog, s, p)
  BY <1>5, <1>p DEF ActiveSkillMatches
<1>8. refs \subseteq catalog.allowed.knowledge /\ \A f \in refs : RootOf[f] \in e.roots
  BY <1>r DEF KnowledgeAllowed
<1>9. ValidToolBudget(p.budget)
  <2>1. \/ p.budget = [calls |-> 8, soft |-> 6, reserve |-> 1, search |-> 6, writes |-> 0]
        \/ p.budget = [calls |-> 200, soft |-> 160, reserve |-> 10, search |-> 60, writes |-> 20]
    BY <1>p DEF ToolBudgetForIntent
  <2>2. CASE p.budget = [calls |-> 8, soft |-> 6, reserve |-> 1, search |-> 6, writes |-> 0]
    BY <2>2 DEF ValidToolBudget
  <2>3. CASE p.budget = [calls |-> 200, soft |-> 160, reserve |-> 10, search |-> 60, writes |-> 20]
    BY <2>3 DEF ValidToolBudget
  <2> QED BY <2>1, <2>2, <2>3
<1>10. p.tools \subseteq {"read", "write", "workspace_search"} /\ "write" \in p.tools
  BY <1>p DEF ToolsForIntent
<1>11. p.writeMode \in {"runtime_staging", "asset_write_intent"}
  BY <1>p DEF WriteModeForIntent
<1>12. ValidToolPolicy(p)
  BY <1>9, <1>10, <1>11 DEF ValidToolPolicy, HasWorkspaceMount
<1>13. ValidTerminalOutput(p)
  BY <1>p DEF ValidTerminalOutput
<1>14. catalog.agents[p.agent] = e
  BY <1>p DEF e
<1>15. p.skills \subseteq e.skills /\ p.skills \subseteq catalog.allowed.skills
  BY <1>5, <1>p
<1> QED BY <1>1, <1>2, <1>3, <1>4, <1>6, <1>7, <1>8, <1>12, <1>13, <1>14, <1>15, <1>p, <1>r DEF PlanFits, p

\* A plan that is built from the present catalogue passes its checks.
LEMMA BuildSafe ==
  ASSUME PlanInv, BuildDynamicPlan \/ BuildDeterministicPlan
  PROVE  PlanInv'
<1>v. /\ catalog \in Catalogs /\ request \in Requests /\ ValidateCapabilityPlanningCatalog(catalog)
      /\ UNCHANGED <<catalog, request, route>> /\ catalog.version \in Nat /\ step = "routed"
      /\ route.version \in Nat /\ route.version <= catalog.version
      /\ route.version = catalog.version => RouteFits(catalog, route, request)
  BY CatalogAssumption DEF PlanInv, BuildDynamicPlan, BuildDeterministicPlan
<1>1. CASE step' = "unplanned"
  BY <1>v, <1>1 DEF PlanInv
<1>2. ASSUME NEW skills, NEW first, NEW refs, NEW mode \in {"dynamic", "deterministic"}, step' = "planned",
             runPlan' = NewAgentRunPlan(route, request.intent, mode, skills, first, refs),
             route.version = catalog.version /\ mode = "dynamic" =>
               PlanFits(catalog, NewAgentRunPlan(route, request.intent, mode, skills, first, refs))
      PROVE  PlanInv'
  <2>1. runPlan'.version = route.version /\ runPlan'.mode = mode
    BY <1>2 DEF NewAgentRunPlan
  <2>2. PlanHolds'
    BY <1>v, <1>2, <2>1 DEF PlanHolds
  <2>3. \E rt, intent, m, ss, f, rs : runPlan' = NewAgentRunPlan(rt, intent, m, ss, f, rs)
    BY <1>2
  <2> QED BY <1>v, <1>2, <2>2, <2>3 DEF PlanInv
<1>3. CASE BuildDynamicPlan
  <2> DEFINE skills == ListCandidates(catalog, route, request.intent)
             refs == RefsOf(catalog, skills)
  <2>1. \/ step' = "unplanned"
        \/ /\ ValidateSelection(catalog, route, request.intent, skills)
           /\ KnowledgeAllowed(catalog, route.roots, refs)
           /\ \E first \in skills : Planned(skills, first, refs, "dynamic")
    BY <1>3 DEF BuildDynamicPlan
  <2>2. ASSUME ValidateSelection(catalog, route, request.intent, skills),
               KnowledgeAllowed(catalog, route.roots, refs),
               NEW first \in skills, Planned(skills, first, refs, "dynamic")
        PROVE  PlanInv'
    <3>1. CASE HasTerminalTemplate(request.intent.task, first) /\ step' = "planned"
               /\ runPlan' = NewAgentRunPlan(route, request.intent, "dynamic", skills, first, refs)
      <4>1. route.version = catalog.version =>
              PlanFits(catalog, NewAgentRunPlan(route, request.intent, "dynamic", skills, first, refs))
        BY <1>v, <2>2, <3>1, DynamicFits
      <4> QED BY <1>2, <3>1, <4>1
    <3> QED BY <1>1, <2>2, <3>1, PlannedIs
  <2> HIDE DEF skills, refs
  <2> QED BY <1>1, <2>1, <2>2
<1>4. CASE BuildDeterministicPlan
  <2>1. step' = "unplanned" \/ \E skills, first : Planned(skills, first, {}, "deterministic")
    BY <1>4 DEF BuildDeterministicPlan
  <2>2. ASSUME NEW skills, NEW first, Planned(skills, first, {}, "deterministic")
        PROVE  PlanInv'
    BY <1>1, <1>2, <2>2, PlannedIs
  <2> QED BY <1>1, <2>1, <2>2
<1> QED BY <1>3, <1>4

\* Freezing adds the Host and the images and leaves the rest.
LEMMA FreezeSafe ==
  ASSUME PlanInv, FreezeContext
  PROVE  PlanInv'
<1>v. /\ catalog \in Catalogs /\ request \in Requests /\ ValidateCapabilityPlanningCatalog(catalog)
      /\ UNCHANGED <<catalog, request, route>> /\ step' = "frozen" /\ PlanHolds /\ request.images \in Nat
  BY ImagesAssumption DEF PlanInv, FreezeContext
<1>1. PICK rt, intent, mode, skills, first, refs :
        runPlan = NewAgentRunPlan(rt, intent, mode, skills, first, refs)
  BY DEF PlanInv, FreezeContext
<1>2. PICK h : runPlan' = [runPlan EXCEPT !.host = h, !.images = request.images]
  BY DEF FreezeContext
<1>3. /\ runPlan'.version = runPlan.version /\ runPlan'.mode = runPlan.mode /\ runPlan'.agent = runPlan.agent
      /\ runPlan'.key = runPlan.key /\ runPlan'.policy = runPlan.policy /\ runPlan'.toolPolicy = runPlan.toolPolicy
      /\ runPlan'.task = runPlan.task /\ runPlan'.scope = runPlan.scope /\ runPlan'.skills = runPlan.skills
      /\ runPlan'.refs = runPlan.refs /\ runPlan'.tools = runPlan.tools /\ runPlan'.writeMode = runPlan.writeMode
      /\ runPlan'.budget = runPlan.budget /\ runPlan'.terminal = runPlan.terminal
      /\ runPlan'.images = request.images
  BY <1>1, <1>2 DEF NewAgentRunPlan
<1>4. PlanFits(catalog, runPlan) => PlanFits(catalog, runPlan')
  <2> SUFFICES ASSUME PlanFits(catalog, runPlan) PROVE PlanFits(catalog, runPlan')
    OBVIOUS
  <2>1. ActiveAgentEntry(catalog, runPlan')
    BY <1>3 DEF PlanFits, ActiveAgentEntry
  <2>2. \A s \in runPlan.skills : ActiveSkillMatches(catalog, s, runPlan')
    BY <1>3 DEF PlanFits, ActiveSkillMatches
  <2>3. ValidToolPolicy(runPlan') /\ ValidTerminalOutput(runPlan')
    BY <1>3 DEF PlanFits, ValidTerminalOutput, ValidToolPolicy, HasWorkspaceMount
  <2> QED BY <1>3, <2>1, <2>2, <2>3 DEF PlanFits
<1>5. PlanHolds'
  BY <1>v, <1>3, <1>4 DEF PlanHolds
<1> QED BY <1>v, <1>3, <1>5 DEF PlanInv

\* Whoever refuses a plan that fits has one of the reasons a plan may be refused for.
LEMMA ValidateSafe ==
  ASSUME PlanInv, ValidatePlan
  PROVE  PlanInv'
<1>v. /\ catalog \in Catalogs /\ request \in Requests /\ ValidateCapabilityPlanningCatalog(catalog)
      /\ UNCHANGED <<catalog, request, route, runPlan>> /\ PlanHolds /\ runPlan.images \in Nat
      /\ step' = IF Validate(catalog, runPlan) THEN "accepted" ELSE "refused"
  BY DEF PlanInv, ValidatePlan
<1>1. ASSUME runPlan.mode = "dynamic", ~RightlyRefused(runPlan) PROVE Validate(catalog, runPlan)
  <2>1. /\ runPlan.version = catalog.version
        /\ runPlan.writeMode = "asset_write_intent" => catalog.allowed.formalWrite
        /\ ValidInputAttachments(runPlan.images, catalog.agents[runPlan.agent].policy)
        /\ ~(runPlan.key = NoKey /\ runPlan.images > 0)
        /\ RuntimePlanAvailable(runPlan.host, runPlan.tools)
    BY <1>1 DEF RightlyRefused
  <2>2. PlanFits(catalog, runPlan)
    BY <1>v, <1>1, <2>1 DEF PlanHolds
  <2>3. runPlan.key = NoKey => runPlan.images = 0
    BY <1>v, <2>1
  <2>4. ValidForAgent(catalog, runPlan)
    BY <2>1, <2>2 DEF ValidForAgent, PlanFits
  <2> QED BY <1>1, <2>1, <2>2, <2>3, <2>4 DEF Validate, PlanFits
<1>2. RightlyRefused(runPlan)' <=> RightlyRefused(runPlan)
  BY <1>v DEF RightlyRefused
<1>3. step' = "refused" /\ runPlan'.mode = "dynamic" => RightlyRefused(runPlan)'
  BY <1>v, <1>1, <1>2
<1>4. step' \in {"accepted", "refused"}
  BY <1>v
<1> QED BY <1>v, <1>3, <1>4 DEF PlanInv

\* A newer catalogue makes every route and plan an older one.
LEMMA PublishSafe ==
  ASSUME PlanInv, PublishCatalog
  PROVE  PlanInv'
<1>1. /\ catalog' \in Catalogs /\ ValidateCapabilityPlanningCatalog(catalog') /\ catalog'.version > catalog.version
      /\ catalog.version \in Nat /\ catalog'.version \in Nat /\ step \notin {"unrouted", "refused"}
      /\ UNCHANGED <<request, step, route, runPlan>> /\ request \in Requests
  BY CatalogAssumption DEF PublishCatalog, PlanInv
<1>2. PlanHolds => PlanHolds'
  BY <1>1 DEF PlanHolds
<1>3. step = "frozen" => runPlan'.images \in Nat
  BY <1>1 DEF PlanInv
<1>4. step = "planned" =>
        \E rt, intent, mode, skills, first, refs : runPlan' = NewAgentRunPlan(rt, intent, mode, skills, first, refs)
  BY <1>1 DEF PlanInv
<1>5. step = "routed" => route'.version \in Nat /\ route'.version < catalog'.version
  BY <1>1 DEF PlanInv
<1>6. step \in {"planned", "frozen"} => PlanHolds
  BY DEF PlanInv
<1> QED BY <1>1, <1>2, <1>3, <1>4, <1>5, <1>6 DEF PlanInv

\* Every step keeps the invariant.
LEMMA PlanStays == PlanInv /\ [PlanningNext]_planningVars => PlanInv'
<1>1. PlanInv /\ UNCHANGED planningVars => PlanInv'
  <2> SUFFICES ASSUME PlanInv, UNCHANGED planningVars PROVE PlanInv'
    OBVIOUS
  <2>1. UNCHANGED <<catalog, request, step, route, runPlan>>
    BY DEF planningVars
  <2>2. /\ MayChoose' <=> MayChoose
        /\ PlanHolds' <=> PlanHolds
        /\ RightlyRefused(runPlan)' <=> RightlyRefused(runPlan)
    BY <2>1 DEF MayChoose, PlanHolds, RightlyRefused
  <2> QED BY <2>1, <2>2 DEF PlanInv
<1> QED BY <1>1, RouteSafe, BuildSafe, FreezeSafe, ValidateSafe, PublishSafe DEF PlanningNext

\* For all catalogues that pass their check, all requests and all Hosts: what the
\* user may choose is routed, and a dynamic plan is refused only for a newer
\* catalogue, an unpermitted formal write, the images or the Host.
THEOREM ListedWorkspacesArePlanned ==
  PlanningInit /\ [][PlanningNext]_planningVars => []ListedWorkspaceIsPlanned
<1>1. PlanInv => ListedWorkspaceIsPlanned
  BY DEF PlanInv, ListedWorkspaceIsPlanned
<1> QED BY PlanningStarts, PlanStays, <1>1, PTL

\* What a step builds on has its type, whatever comes before it.
RouteTyped == route.agent \in Nat /\ route.skills \subseteq Skills
RunPlanTyped == runPlan.skills \subseteq Skills /\ runPlan.mode \in {"dynamic", "deterministic"}

PlanTyped ==
  /\ step \in PlanningSteps
  /\ route = NoPlan \/ RouteTyped
  /\ runPlan = NoPlan \/ RunPlanTyped
  /\ step = "routed" => RouteTyped
  /\ step = "planned" => RunPlanTyped

\* A plan has the skills and the mode it was built with.
LEMMA BuildTyped ==
  ASSUME PlanInv, PlanTyped, BuildDynamicPlan \/ BuildDeterministicPlan
  PROVE  PlanTyped'
<1>u. UNCHANGED <<catalog, request, route>> /\ RouteTyped /\ RouteTyped'
  BY DEF PlanTyped, RouteTyped, BuildDynamicPlan, BuildDeterministicPlan
<1>s. "unplanned" \in PlanningSteps /\ "planned" \in PlanningSteps
  BY DEF PlanningSteps
<1>1. CASE step' = "unplanned" /\ UNCHANGED runPlan
  BY <1>u, <1>s, <1>1 DEF PlanTyped, RunPlanTyped
<1>2. ASSUME NEW skills \in SUBSET Skills, NEW first, NEW refs, NEW mode \in {"dynamic", "deterministic"},
             Planned(skills, first, refs, mode)
      PROVE  PlanTyped'
  <2>1. CASE step' = "planned" /\ runPlan' = NewAgentRunPlan(route, request.intent, mode, skills, first, refs)
    <3>1. RunPlanTyped'
      BY <1>2, <2>1 DEF RunPlanTyped, NewAgentRunPlan
    <3> QED BY <1>u, <1>s, <2>1, <3>1 DEF PlanTyped
  <2>2. \/ step' = "unplanned" /\ UNCHANGED runPlan
        \/ step' = "planned" /\ runPlan' = NewAgentRunPlan(route, request.intent, mode, skills, first, refs)
    BY <1>2 DEF Planned
  <2> QED BY <1>1, <2>1, <2>2
<1>3. CASE BuildDynamicPlan
  <2> DEFINE skills == ListCandidates(catalog, route, request.intent)
             refs == RefsOf(catalog, skills)
  <2>1. \/ step' = "unplanned" /\ UNCHANGED runPlan
        \/ \E first \in skills : Planned(skills, first, refs, "dynamic")
    BY <1>3 DEF BuildDynamicPlan
  <2>2. skills \subseteq Skills
    BY <1>u DEF ListCandidates, EligibleCandidates, RouteTyped
  <2> HIDE DEF skills, refs
  <2> QED BY <1>1, <1>2, <2>1, <2>2
<1>4. CASE BuildDeterministicPlan
  <2> DEFINE fixed == FixedSkills[request.intent.task]
             skills == {fixed[i] : i \in 1 .. Len(fixed)}
  <2>1. \/ step' = "unplanned" /\ UNCHANGED runPlan
        \/ Planned(skills, fixed[1], {}, "deterministic")
    BY <1>4 DEF BuildDeterministicPlan
  <2>2. fixed \in Seq(Skills)
    BY NamesAssumption DEF PlanInv
  <2> HIDE DEF fixed
  <2>3. skills \subseteq Skills
    BY <2>2
  <2> HIDE DEF skills
  <2> QED BY <1>1, <1>2, <2>1, <2>3
<1> QED BY <1>3, <1>4

\* For all catalogues and requests: routes name Agents, routes and plans name skills.
THEOREM PlanningTypeCorrect == PlanningInit /\ [][PlanningNext]_planningVars => []PlanningTypeOK
<1>1. PlanningInit => PlanTyped
  BY DEF PlanningInit, PlanTyped, PlanningSteps
<1>2. PlanInv /\ PlanTyped /\ [PlanningNext]_planningVars => PlanTyped'
  <2> SUFFICES ASSUME PlanInv, PlanTyped, [PlanningNext]_planningVars PROVE PlanTyped'
    OBVIOUS
  <2>1. CASE Route
    <3>1. UNCHANGED <<catalog, request, runPlan>> /\ (RunPlanTyped <=> RunPlanTyped')
      BY <2>1 DEF Route, RunPlanTyped
    <3>2. CASE step' = "unrouted" /\ UNCHANGED route
      BY <3>1, <3>2 DEF PlanTyped, RouteTyped, PlanningSteps
    <3>3. CASE step' = "routed" /\ \E a \in SelectedAgents(catalog, request) : route' = L1AgentRouteResult(catalog, a)
      <4>1. PICK a \in SelectedAgents(catalog, request) : route' = L1AgentRouteResult(catalog, a)
        BY <3>3
      <4>2. a \in DOMAIN catalog.agents
        BY DEF SelectedAgents, ListEligible
      <4>3. a \in Nat /\ catalog.agents[a].skills \subseteq Skills
        BY <4>2, NamesAssumption DEF PlanInv
      <4>4. RouteTyped'
        BY <4>1, <4>3 DEF RouteTyped, L1AgentRouteResult
      <4> QED BY <3>1, <3>3, <4>4 DEF PlanTyped, PlanningSteps
    <3> QED BY <2>1, <3>2, <3>3 DEF Route
  <2>2. CASE BuildDynamicPlan \/ BuildDeterministicPlan
    BY <2>2, BuildTyped
  <2>3. CASE FreezeContext
    <3>1. /\ step = "planned" /\ step' = "frozen" /\ UNCHANGED route
          /\ \E h \in Hosts : runPlan' = [runPlan EXCEPT !.host = h, !.images = request.images]
      BY <2>3 DEF FreezeContext
    <3>2. \E rt, intent, mode, skills, first, refs : runPlan = NewAgentRunPlan(rt, intent, mode, skills, first, refs)
      BY <3>1 DEF PlanInv
    <3>3. runPlan'.skills = runPlan.skills /\ runPlan'.mode = runPlan.mode
      BY <3>1, <3>2 DEF NewAgentRunPlan
    <3>4. RunPlanTyped'
      BY <3>1, <3>3 DEF PlanTyped, RunPlanTyped
    <3> QED BY <3>1, <3>4 DEF PlanTyped, RouteTyped, PlanningSteps
  <2>4. CASE ValidatePlan
    BY <2>4 DEF ValidatePlan, PlanTyped, RouteTyped, RunPlanTyped, PlanningSteps
  <2>5. CASE PublishCatalog \/ UNCHANGED planningVars
    BY <2>5 DEF PublishCatalog, planningVars, PlanTyped, RouteTyped, RunPlanTyped
  <2> QED BY <2>1, <2>2, <2>3, <2>4, <2>5 DEF PlanningNext
<1>3. PlanInv /\ PlanTyped => PlanningTypeOK
  BY DEF PlanInv, PlanTyped, RouteTyped, RunPlanTyped, PlanningTypeOK
<1> QED BY PlanningStarts, PlanStays, <1>1, <1>2, <1>3, PTL
===============================================================================
