----------------------- MODULE OperationStreamProofs -----------------------
(***************************************************************************)
(* Proofs about OperationStream, for any numbers of gateways, browsers,    *)
(* events and faults.                                                      *)
(***************************************************************************)
EXTENDS OperationStream, TLAPS

\* Only durable events are announced: whatever the broker or a subscription
\* holds is a sequence of the ledger.
Durable ==
    /\ row = "absent" => log = <<>>
    /\ notes \in SUBSET [by : Gateways, seq : 1..Len(log), local : BOOLEAN]
    /\ wire \in [Gateways -> Seq(1..Len(log))]
    /\ queue \in [Browsers -> Seq(0..Len(log))]
    /\ live \in [Browsers -> 0..Len(log)]

TypeInv == TypeOK /\ Durable

-----------------------------------------------------------------------------
(* Sequences *)

LEMMA SeqMono ==
    ASSUME NEW S, NEW T, S \subseteq T, NEW s \in Seq(S)
    PROVE  s \in Seq(T)
OBVIOUS

LEMMA EmptySeq == ASSUME NEW S PROVE <<>> \in Seq(S)
OBVIOUS

LEMMA PlusAssoc == \A m, n \in Nat : m + n + 1 = m + (n + 1)
OBVIOUS

LEMMA PlusSwap == \A m, n \in Nat : m + (n + 1) = (m + 1) + n
OBVIOUS

LEMMA PlusMinus == \A m, n \in Nat : m + n = (m + 1) + (n - 1)
OBVIOUS

LEMMA LocalNote ==
    ASSUME NEW S, NEW T, NEW m \in [by : S, seq : T, local : BOOLEAN]
    PROVE  [m EXCEPT !.local = TRUE] \in [by : S, seq : T, local : BOOLEAN]
OBVIOUS

\* What is in the ledger stays in it when it grows.
LEMMA DurableGrows ==
    ASSUME TypeInv, NEW k \in Kinds, log' = Append(log, k)
    PROVE  /\ log' \in Seq(Kinds)
           /\ Len(log') = Len(log) + 1
           /\ notes \in SUBSET [by : Gateways, seq : 1..Len(log'), local : BOOLEAN]
           /\ wire \in [Gateways -> Seq(1..Len(log'))]
           /\ queue \in [Browsers -> Seq(0..Len(log'))]
           /\ live \in [Browsers -> 0..Len(log')]
<1>1. log \in Seq(Kinds) /\ Len(log) \in Nat
  BY DEF TypeInv, TypeOK
<1>2. log' \in Seq(Kinds) /\ Len(log') = Len(log) + 1
  BY <1>1
<1>3. 1..Len(log) \subseteq 1..Len(log') /\ 0..Len(log) \subseteq 0..Len(log')
  BY <1>1, <1>2
<1>4. notes \in SUBSET [by : Gateways, seq : 1..Len(log'), local : BOOLEAN]
  BY <1>3 DEF TypeInv, Durable
<1>5. \A g \in Gateways : wire[g] \in Seq(1..Len(log'))
  BY <1>3, SeqMono DEF TypeInv, Durable
<1>6. \A b \in Browsers : queue[b] \in Seq(0..Len(log'))
  BY <1>3, SeqMono DEF TypeInv, Durable
<1> QED
  BY <1>2, <1>3, <1>4, <1>5, <1>6 DEF TypeInv, Durable

\* The overflow mark and the bound of a queue.
LEMMA OfferType ==
    ASSUME TypeInv, NEW n \in 1..Len(log), NEW q \in Seq(0..Len(log)),
           Len(q) <= QueueMax
    PROVE  Offer(q, n) \in Seq(0..Len(log)) /\ Len(Offer(q, n)) <= QueueMax
<1>1. QueueMax \in Nat \ {0} /\ Len(log) \in Nat
  BY StreamAssumption DEF TypeInv, TypeOK
<1>2. n \in 0..Len(log) /\ 0 \in 0..Len(log)
  BY <1>1
<1>3. CASE Len(q) < QueueMax
  BY <1>1, <1>2, <1>3 DEF Offer
<1>4. CASE ~(Len(q) < QueueMax)
  BY <1>1, <1>2, <1>4 DEF Offer, Overflow
<1> QED
  BY <1>3, <1>4

LEMMA DeliverType ==
    ASSUME TypeInv, NEW g \in Gateways, NEW n \in 1..Len(log), Deliver(g, n)
    PROVE  /\ queue' \in [Browsers -> Seq(0..Len(log))]
           /\ queue' \in [Browsers -> Seq(Nat)]
           /\ \A b \in Browsers : Len(queue'[b]) <= QueueMax
<1>1. \A b \in Browsers : queue[b] \in Seq(0..Len(log)) /\ Len(queue[b]) <= QueueMax
  BY DEF TypeInv, TypeOK, Durable
<1>2. \A b \in Browsers : /\ queue'[b] \in Seq(0..Len(log))
                          /\ Len(queue'[b]) <= QueueMax
  BY <1>1, OfferType DEF Deliver
<1>3. 0..Len(log) \subseteq Nat
  BY DEF TypeInv, TypeOK
<1>4. \A b \in Browsers : queue'[b] \in Seq(Nat)
  BY <1>2, <1>3, SeqMono
<1> QED
  BY <1>2, <1>4 DEF Deliver

\* A replay is made of rows of the ledger.
LEMMA ReplayType ==
    ASSUME log \in Seq(Kinds), NEW d \in Nat
    PROVE  /\ Rows(d) \in Nat
           /\ Replay(d) \in Seq(Event)
           /\ Len(Replay(d)) = Rows(d)
           /\ \A i \in 1..Rows(d) : /\ d + i <= Len(log)
                                    /\ Replay(d)[i].seq = d + i
                                    /\ Replay(d)[i].kind = log[d + i]
<1>1. Rows(d) \in Nat /\ Len(log) \in Nat
  BY StreamAssumption DEF Rows
<1>2. \A i \in 1..Rows(d) : d + i <= Len(log) /\ d + i \in 1..Len(log)
  BY <1>1, StreamAssumption DEF Rows
<1>3. \A i \in 1..Rows(d) : [seq |-> d + i, kind |-> log[d + i]] \in Event
  BY <1>2 DEF Event
<1>4. Replay(d) \in [1..Rows(d) -> Event]
  BY <1>3 DEF Replay
<1>5. Replay(d) \in Seq(Event) /\ Len(Replay(d)) = Rows(d)
  BY <1>1, <1>4
<1> QED
  BY <1>1, <1>2, <1>5 DEF Replay

-----------------------------------------------------------------------------
(* Types *)

\* What a step that reads, sends or drops does to one connection.
LEMMA ReadType ==
    ASSUME TypeInv, NEW b \in Browsers, NEW events \in Seq(Event),
           NEW n \in 0..Len(log), Read(b, events, n)
    PROVE  /\ batch' \in [Browsers -> Seq(Event)]
           /\ last' \in [Browsers -> BOOLEAN]
           /\ live' \in [Browsers -> 0..Len(log)]
           /\ live' \in [Browsers -> Nat]
<1>1. batch' \in [Browsers -> Seq(Event)]
  BY DEF Read, TypeInv, TypeOK
<1>2. last' \in [Browsers -> BOOLEAN]
  BY Zenon DEF Read, TypeInv, TypeOK
<1>3. live' \in [Browsers -> 0..Len(log)] /\ live' \in [Browsers -> Nat]
  BY DEF Read, TypeInv, TypeOK, Durable
<1> QED
  BY <1>1, <1>2, <1>3

LEMMA SendType ==
    ASSUME TypeInv, NEW b \in Browsers, NEW e \in Event, Send(b, e)
    PROVE  /\ sent' \in [Browsers -> Seq(Event)]
           /\ delivered' \in [Browsers -> Nat]
<1>1. e.seq \in Nat
  BY DEF Event
<1> QED
  BY <1>1 DEF Send, TypeInv, TypeOK

LEMMA DropType ==
    ASSUME TypeInv, NEW b \in Browsers, NEW p \in Phases, Drop(b, p)
    PROVE  /\ phase' \in [Browsers -> Phases]
           /\ at' \in [Browsers -> Gateways \cup {NoGateway}]
           /\ queue' \in [Browsers -> Seq(0..Len(log))]
           /\ queue' \in [Browsers -> Seq(Nat)]
           /\ \A c \in Browsers : Len(queue'[c]) <= QueueMax
           /\ delivered' \in [Browsers -> Nat]
           /\ batch' \in [Browsers -> Seq(Event)]
           /\ last' \in [Browsers -> BOOLEAN]
           /\ live' \in [Browsers -> 0..Len(log)]
           /\ live' \in [Browsers -> Nat]
           /\ sent' \in [Browsers -> Seq(Event)]
<1>1. QueueMax \in Nat /\ Len(log) \in Nat
  BY StreamAssumption DEF TypeInv, TypeOK
<1>2. /\ phase' \in [Browsers -> Phases]
      /\ at' \in [Browsers -> Gateways \cup {NoGateway}]
      /\ delivered' \in [Browsers -> Nat]
      /\ batch' \in [Browsers -> Seq(Event)]
      /\ sent' \in [Browsers -> Seq(Event)]
  BY DEF Drop, Go, TypeInv, TypeOK
<1>3. last' \in [Browsers -> BOOLEAN]
  BY Zenon DEF Drop, TypeInv, TypeOK
<1>4. live' \in [Browsers -> 0..Len(log)] /\ live' \in [Browsers -> Nat]
  BY <1>1 DEF Drop, TypeInv, TypeOK, Durable
<1>5. /\ queue' \in [Browsers -> Seq(0..Len(log))]
      /\ queue' \in [Browsers -> Seq(Nat)]
  BY DEF Drop, TypeInv, TypeOK, Durable
<1>6. \A c \in Browsers : Len(queue'[c]) <= QueueMax
  BY <1>1 DEF Drop, TypeInv, TypeOK
<1> QED
  BY <1>2, <1>3, <1>4, <1>5, <1>6

LEMMA TakeLiveType ==
    ASSUME TypeInv, NEW b \in Browsers, NEW n \in 1..Len(log), TakeLive(b, n)
    PROVE  /\ phase' \in [Browsers -> Phases]
           /\ sent' \in [Browsers -> Seq(Event)]
           /\ delivered' \in [Browsers -> Nat]
<1>1. phase' \in [Browsers -> Phases]
  BY DEF TakeLive, Go, Phases, Subscribed, TypeInv, TypeOK
<1>2. [seq |-> n, kind |-> log[n]] \in Event
  BY DEF Event, TypeInv, TypeOK
<1>3. CASE Hold(b)
  BY <1>1, <1>3 DEF Hold, TypeInv, TypeOK
<1>4. CASE Send(b, [seq |-> n, kind |-> log[n]])
  BY <1>1, <1>2, <1>4, SendType
<1> QED
  BY <1>3, <1>4 DEF TakeLive

LEMMA TypeInit == Init => TypeInv
<1> SUFFICES ASSUME Init PROVE TypeInv
  OBVIOUS
<1>1. row \in {"absent", "active", "over"} /\ log \in Seq(Kinds) /\ notes \in SUBSET Note
  BY DEF Init
<1>2. /\ listening \in [Gateways -> BOOLEAN] /\ last \in [Browsers -> BOOLEAN]
  BY DEF Init
<1>3. /\ wire \in [Gateways -> Seq(Nat \ {0})]
      /\ phase \in [Browsers -> Phases]
      /\ at \in [Browsers -> Gateways \cup {NoGateway}]
      /\ queue \in [Browsers -> Seq(Nat)]
      /\ \A b \in Browsers : Len(queue[b]) <= QueueMax
      /\ delivered \in [Browsers -> Nat]
      /\ batch \in [Browsers -> Seq(Event)]
      /\ live \in [Browsers -> Nat]
      /\ sent \in [Browsers -> Seq(Event)]
      /\ got \in [Browsers -> Seq(Kinds \cup Snapshots)]
      /\ faults \in 0..MaxFaults
  BY StreamAssumption DEF Init, Phases, Subscribed
<1>4. Durable
  BY DEF Init, Durable
<1> QED
  BY <1>1, <1>2, <1>3, <1>4 DEF TypeInv, TypeOK

\* Types are kept by every step (for AnnounceLocally and Listen: the queues are
\* the only thing at stake; for the handler: what it read or sent).
LEMMA TypeStep == TypeInv /\ [Next]_vars => TypeInv'
<1> SUFFICES ASSUME TypeInv, [Next]_vars PROVE TypeInv'
  OBVIOUS
<1> USE DEF vars, ledgerVars, brokerVars, serverVars
<1>0. Len(log) \in Nat /\ log \in Seq(Kinds)
  BY DEF TypeInv, TypeOK
<1>1. ASSUME NEW g \in Gateways \cup {NoGateway}, NEW o \in Origins, Create(o, g)
      PROVE  TypeInv'
  <2>1. row = "absent" /\ log = <<>> /\ row' # "absent"
    BY <1>1 DEF Create, TypeInv, Durable
  <2>2. CASE o = "receipt"
    <3>1. log' = Append(log, "progress") /\ "progress" \in Kinds
      BY <1>1, <2>1, <2>2 DEF Create, Kinds
    <3>2. /\ log' \in Seq(Kinds)
          /\ Len(log') = Len(log) + 1
          /\ notes \in SUBSET [by : Gateways, seq : 1..Len(log'), local : BOOLEAN]
          /\ wire \in [Gateways -> Seq(1..Len(log'))]
          /\ queue \in [Browsers -> Seq(0..Len(log'))]
          /\ live \in [Browsers -> 0..Len(log')]
      BY <3>1, DurableGrows
    <3>3. Staged(g, 1) \in SUBSET [by : Gateways, seq : 1..Len(log'), local : BOOLEAN]
      BY <1>0, <3>2 DEF Staged
    <3>4. notes' \in SUBSET [by : Gateways, seq : 1..Len(log'), local : BOOLEAN]
      BY <1>1, <3>2, <3>3 DEF Create
    <3>5. notes' \in SUBSET Note
      BY <1>0, <3>2, <3>4 DEF Note
    <3>6. TypeOK'
      BY <1>1, <3>2, <3>5 DEF Create, TypeInv, TypeOK
    <3>7. Durable'
      BY <1>1, <2>1, <3>2, <3>4 DEF Create, Durable
    <3> QED
      BY <3>6, <3>7 DEF TypeInv
  <2>3. CASE o # "receipt"
    <3>1. log' = log /\ notes' = notes
      BY <1>1, <2>1, <2>3 DEF Create, Staged
    <3> QED
      BY <1>1, <2>1, <3>1 DEF Create, TypeInv, TypeOK, Durable
  <2> QED
    BY <2>2, <2>3
<1>2. ASSUME NEW g \in Gateways \cup {NoGateway}, NEW k \in Kinds, AppendEvent(k, g)
      PROVE  TypeInv'
  <2>1. /\ log' \in Seq(Kinds)
        /\ Len(log') = Len(log) + 1
        /\ notes \in SUBSET [by : Gateways, seq : 1..Len(log'), local : BOOLEAN]
        /\ wire \in [Gateways -> Seq(1..Len(log'))]
        /\ queue \in [Browsers -> Seq(0..Len(log'))]
        /\ live \in [Browsers -> 0..Len(log')]
    BY <1>2, DurableGrows DEF AppendEvent
  <2>2. Staged(g, Len(log) + 1)
          \in SUBSET [by : Gateways, seq : 1..Len(log'), local : BOOLEAN]
    BY <1>0, <2>1 DEF Staged
  <2>3. notes' \in SUBSET [by : Gateways, seq : 1..Len(log'), local : BOOLEAN]
    BY <1>2, <2>1, <2>2 DEF AppendEvent
  <2>4. notes' \in SUBSET Note
    BY <1>0, <2>1, <2>3 DEF Note
  <2>5. TypeOK'
    BY <1>2, <2>1, <2>4 DEF AppendEvent, TypeInv, TypeOK
  <2>6. Durable'
    BY <1>2, <2>1, <2>3 DEF AppendEvent, Durable
  <2> QED
    BY <2>5, <2>6 DEF TypeInv
<1>3. ASSUME NEW m \in notes, AnnounceLocally(m)
      PROVE  TypeInv'
  <2>1. m \in [by : Gateways, seq : 1..Len(log), local : BOOLEAN]
    BY DEF TypeInv, Durable
  <2>2. /\ queue' \in [Browsers -> Seq(0..Len(log))]
        /\ queue' \in [Browsers -> Seq(Nat)]
        /\ \A b \in Browsers : Len(queue'[b]) <= QueueMax
    BY <1>3, <2>1, DeliverType DEF AnnounceLocally
  <2>3. [m EXCEPT !.local = TRUE] \in [by : Gateways, seq : 1..Len(log), local : BOOLEAN]
    BY <2>1, LocalNote
  <2>4. notes' \in SUBSET [by : Gateways, seq : 1..Len(log), local : BOOLEAN]
    <3> DEFINE n == [m EXCEPT !.local = TRUE]
    <3>1. notes' = (notes \ {m}) \cup {n}
      BY <1>3 DEF AnnounceLocally
    <3>2. n \in [by : Gateways, seq : 1..Len(log), local : BOOLEAN]
      BY <2>3
    <3> HIDE DEF n
    <3> QED
      BY <3>1, <3>2 DEF TypeInv, Durable
  <2>5. notes' \in SUBSET Note
    BY <1>0, <2>4 DEF Note
  <2>6. TypeOK'
    BY <1>3, <2>2, <2>5 DEF AnnounceLocally, TypeInv, TypeOK
  <2>7. Durable'
    BY <1>3, <2>2, <2>4 DEF AnnounceLocally, TypeInv, Durable
  <2> QED
    BY <2>6, <2>7 DEF TypeInv
<1>4. ASSUME NEW m \in notes, AnnounceRemotely(m)
      PROVE  TypeInv'
  <2>1. m.seq \in 1..Len(log) /\ m.seq \in Nat \ {0}
    BY <1>0 DEF TypeInv, Durable
  <2>2. wire' \in [Gateways -> Seq(1..Len(log))]
    <3>1. \A g \in Gateways : wire[g] \in Seq(1..Len(log))
      BY DEF TypeInv, Durable
    <3>2. \A g \in Gateways : Append(wire[g], m.seq) \in Seq(1..Len(log))
      BY <2>1, <3>1
    <3>3. \A g \in Gateways : wire'[g] = wire[g] \/ wire'[g] = Append(wire[g], m.seq)
      BY <1>4 DEF AnnounceRemotely
    <3> QED
      BY <1>4, <3>1, <3>2, <3>3 DEF AnnounceRemotely
  <2>3. wire' \in [Gateways -> Seq(Nat \ {0})]
    BY <1>4, <2>1 DEF AnnounceRemotely, TypeInv, TypeOK
  <2>4. TypeOK'
    BY <1>4, <2>3 DEF AnnounceRemotely, TypeInv, TypeOK
  <2>5. Durable'
    BY <1>4, <2>2 DEF AnnounceRemotely, TypeInv, Durable
  <2> QED
    BY <2>4, <2>5 DEF TypeInv
<1>5. ASSUME NEW g \in Gateways, Listen(g)
      PROVE  TypeInv'
  <2>1. wire[g] \in Seq(1..Len(log)) /\ wire[g] \in Seq(Nat \ {0}) /\ wire[g] # <<>>
    BY <1>5 DEF Listen, TypeInv, TypeOK, Durable
  <2>2. Head(wire[g]) \in 1..Len(log)
    BY <2>1
  <2>3. /\ queue' \in [Browsers -> Seq(0..Len(log))]
        /\ queue' \in [Browsers -> Seq(Nat)]
        /\ \A b \in Browsers : Len(queue'[b]) <= QueueMax
    BY <1>5, <2>2, DeliverType DEF Listen
  <2>4. /\ wire' \in [Gateways -> Seq(1..Len(log))]
        /\ wire' \in [Gateways -> Seq(Nat \ {0})]
    BY <1>5, <2>1 DEF Listen, TypeInv, TypeOK, Durable
  <2>5. TypeOK'
    BY <1>5, <2>3, <2>4 DEF Listen, TypeInv, TypeOK
  <2>6. Durable'
    BY <1>5, <2>3, <2>4 DEF Listen, TypeInv, Durable
  <2> QED
    BY <2>5, <2>6 DEF TypeInv
<1>6. ASSUME NEW g \in Gateways, LoseRedis(g)
      PROVE  TypeInv'
  <2>1. listening' \in [Gateways -> BOOLEAN]
    BY <1>6, Zenon DEF LoseRedis, TypeInv, TypeOK
  <2>2. /\ wire' \in [Gateways -> Seq(1..Len(log))]
        /\ wire' \in [Gateways -> Seq(Nat \ {0})]
        /\ faults' \in 0..MaxFaults
    BY <1>6, StreamAssumption DEF LoseRedis, Fault, TypeInv, TypeOK, Durable
  <2>3. TypeOK'
    BY <1>6, <2>1, <2>2 DEF LoseRedis, TypeInv, TypeOK
  <2>4. Durable'
    BY <1>6, <2>2 DEF LoseRedis, TypeInv, Durable
  <2> QED
    BY <2>3, <2>4 DEF TypeInv
<1>7. ASSUME NEW g \in Gateways, Reconnect(g)
      PROVE  TypeInv'
  <2>1. listening' \in [Gateways -> BOOLEAN]
    BY <1>7, Zenon DEF Reconnect, TypeInv, TypeOK
  <2> QED
    BY <1>7, <2>1 DEF Reconnect, TypeInv, TypeOK, Durable
<1>8. ASSUME NEW g \in Gateways, GatewayCrash(g)
      PROVE  TypeInv'
  <2>1. listening' \in [Gateways -> BOOLEAN] /\ last' \in [Browsers -> BOOLEAN]
    BY <1>8, Zenon DEF GatewayCrash, TypeInv, TypeOK
  <2>2. /\ wire' \in [Gateways -> Seq(1..Len(log))]
        /\ wire' \in [Gateways -> Seq(Nat \ {0})]
        /\ notes' \in SUBSET Note
        /\ notes' \in SUBSET [by : Gateways, seq : 1..Len(log), local : BOOLEAN]
        /\ faults' \in 0..MaxFaults
    BY <1>8, StreamAssumption DEF GatewayCrash, Fault, TypeInv, TypeOK, Durable
  <2>3. /\ phase' \in [Browsers -> Phases]
        /\ at' \in [Browsers -> Gateways \cup {NoGateway}]
        /\ delivered' \in [Browsers -> Nat]
        /\ batch' \in [Browsers -> Seq(Event)]
        /\ sent' \in [Browsers -> Seq(Event)]
    BY <1>8 DEF GatewayCrash, TypeInv, TypeOK, Phases
  <2>4. /\ queue' \in [Browsers -> Seq(0..Len(log))]
        /\ queue' \in [Browsers -> Seq(Nat)]
        /\ \A b \in Browsers : Len(queue'[b]) <= QueueMax
    <3>1. QueueMax \in Nat
      BY StreamAssumption
    <3>2. queue' = [b \in Browsers |-> IF at[b] = g THEN <<>> ELSE queue[b]]
      BY <1>8 DEF GatewayCrash
    <3>3. /\ queue \in [Browsers -> Seq(0..Len(log))]
          /\ queue \in [Browsers -> Seq(Nat)]
          /\ \A b \in Browsers : Len(queue[b]) <= QueueMax
      BY DEF TypeInv, TypeOK, Durable
    <3>4. \A b \in Browsers : queue'[b] = <<>> \/ queue'[b] = queue[b]
      BY <3>2
    <3>5. \A b \in Browsers : queue'[b] \in Seq(0..Len(log)) /\ queue'[b] \in Seq(Nat)
      BY <3>3, <3>4, EmptySeq, Zenon
    <3>6. \A b \in Browsers : queue'[b] = <<>> => Len(queue'[b]) <= QueueMax
      BY <3>1
    <3>7. \A b \in Browsers : Len(queue'[b]) <= QueueMax
      BY <3>3, <3>4, <3>6
    <3> QED
      BY <3>2, <3>5, <3>7
  <2>5. live' \in [Browsers -> 0..Len(log)] /\ live' \in [Browsers -> Nat]
    BY <1>0, <1>8 DEF GatewayCrash, TypeInv, TypeOK, Durable
  <2>6. TypeOK'
    BY <1>8, <2>1, <2>2, <2>3, <2>4, <2>5 DEF GatewayCrash, TypeInv, TypeOK
  <2>7. Durable'
    BY <1>8, <2>2, <2>4, <2>5 DEF GatewayCrash, TypeInv, Durable
  <2> QED
    BY <2>6, <2>7 DEF TypeInv
<1>9. ASSUME NEW b \in Browsers, NEW g \in Gateways, Subscribe(b, g)
      PROVE  TypeInv'
  <2>1. /\ phase' \in [Browsers -> Phases]
        /\ at' \in [Browsers -> Gateways \cup {NoGateway}]
        /\ delivered' \in [Browsers -> Nat]
    BY <1>9 DEF Subscribe, Go, Phases, Subscribed, TypeInv, TypeOK
  <2>2. /\ queue' \in [Browsers -> Seq(0..Len(log))]
        /\ queue' \in [Browsers -> Seq(Nat)]
        /\ \A c \in Browsers : Len(queue'[c]) <= QueueMax
    BY <1>9, StreamAssumption DEF Subscribe, TypeInv, TypeOK, Durable
  <2> QED
    BY <1>9, <2>1, <2>2 DEF Subscribe, TypeInv, TypeOK, Durable
<1>10. ASSUME NEW b \in Browsers, InitialReplay(b)
       PROVE  TypeInv'
  <2>1. Replay(delivered[b]) \in Seq(Event) /\ 0 \in 0..Len(log)
    BY <1>0, ReplayType DEF TypeInv, TypeOK
  <2>2. /\ batch' \in [Browsers -> Seq(Event)]
        /\ last' \in [Browsers -> BOOLEAN]
        /\ live' \in [Browsers -> 0..Len(log)]
        /\ live' \in [Browsers -> Nat]
    BY <1>10, <2>1, ReadType DEF InitialReplay
  <2>3. phase' \in [Browsers -> Phases]
    BY <1>10 DEF InitialReplay, Go, Phases, Subscribed, TypeInv, TypeOK
  <2> QED
    BY <1>10, <2>2, <2>3 DEF InitialReplay, TypeInv, TypeOK, Durable
<1>11. ASSUME NEW b \in Browsers, ReadContext(b)
       PROVE  TypeInv'
  <2>1. CASE log # <<>> /\ delivered[b] > Len(log)
    <3>1. Drop(b, "failed") /\ "failed" \in Phases
      BY <1>11, <2>1 DEF ReadContext, Phases
    <3> QED
      BY <1>11, <3>1, DropType DEF ReadContext, TypeInv, TypeOK, Durable
  <2>2. CASE ~(log # <<>> /\ delivered[b] > Len(log))
    <3>1. phase' \in [Browsers -> Phases]
      BY <1>11, <2>2 DEF ReadContext, Go, Phases, Subscribed, TypeInv, TypeOK
    <3> QED
      BY <1>11, <2>2, <3>1 DEF ReadContext, TypeInv, TypeOK, Durable
  <2> QED
    BY <2>1, <2>2
<1>12. ASSUME NEW b \in Browsers, ReadRow(b)
       PROVE  TypeInv'
  <2>1. \A k \in Snapshots : <<[seq |-> 1, kind |-> k]>> \in Seq(Event)
    BY DEF Event
  <2>2. PICK k \in Snapshots : Read(b, <<[seq |-> 1, kind |-> k]>>, 0)
    BY <1>12 DEF ReadRow, Snapshots
  <2>3. /\ batch' \in [Browsers -> Seq(Event)]
        /\ last' \in [Browsers -> BOOLEAN]
        /\ live' \in [Browsers -> 0..Len(log)]
        /\ live' \in [Browsers -> Nat]
    <3>1. <<[seq |-> 1, kind |-> k]>> \in Seq(Event) /\ 0 \in 0..Len(log)
      BY <1>0, <2>1
    <3> HIDE DEF Read, Event
    <3> QED
      BY <2>2, <3>1, ReadType
  <2>4. phase' \in [Browsers -> Phases]
    BY <1>12 DEF ReadRow, Go, Phases, Subscribed, TypeInv, TypeOK
  <2> QED
    BY <1>12, <2>3, <2>4 DEF ReadRow, TypeInv, TypeOK, Durable
<1>13. ASSUME NEW b \in Browsers, Emit(b)
       PROVE  TypeInv'
  <2>1. batch[b] \in Seq(Event) /\ batch[b] # <<>> /\ Head(batch[b]) \in Event
    BY <1>13 DEF Emit, TypeInv, TypeOK
  <2>2. phase' \in [Browsers -> Phases] /\ batch' \in [Browsers -> Seq(Event)]
    BY <1>13, <2>1 DEF Emit, Go, Phases, Subscribed, TypeInv, TypeOK
  <2>3. Hold(b) \/ Send(b, Head(batch[b]))
    BY <1>13 DEF Emit
  <2>4. sent' \in [Browsers -> Seq(Event)] /\ delivered' \in [Browsers -> Nat]
    BY <2>1, <2>3, SendType DEF Hold, TypeInv, TypeOK
  <2> QED
    BY <1>13, <2>2, <2>4 DEF Emit, TypeInv, TypeOK, Durable
<1>14. ASSUME NEW b \in Browsers, EmittedAll(b)
       PROVE  TypeInv'
  <2>1. phase' \in [Browsers -> Phases]
    BY <1>14 DEF EmittedAll, Go, Phases, Subscribed, TypeInv, TypeOK
  <2> QED
    BY <1>14, <2>1 DEF EmittedAll, TypeInv, TypeOK, Durable
<1>15. ASSUME NEW b \in Browsers, ClosedGap(b)
       PROVE  TypeInv'
  <2>1. live[b] \in 1..Len(log) /\ TakeLive(b, live[b])
    BY <1>0, <1>15 DEF ClosedGap, TypeInv, Durable
  <2> QED
    BY <1>15, <2>1, TakeLiveType DEF ClosedGap, TypeInv, TypeOK, Durable
<1>16. ASSUME NEW b \in Browsers, NextLive(b)
       PROVE  TypeInv'
  <2>1. queue[b] \in Seq(0..Len(log)) /\ queue[b] \in Seq(Nat) /\ queue[b] # <<>>
    BY <1>16 DEF NextLive, TypeInv, TypeOK, Durable
  <2>2. Head(queue[b]) \in 0..Len(log)
    BY <2>1
  <2>3. /\ queue' \in [Browsers -> Seq(0..Len(log))]
        /\ queue' \in [Browsers -> Seq(Nat)]
    BY <1>16, <2>1 DEF NextLive, TypeInv, TypeOK, Durable
  <2>4. Len(Tail(queue[b])) <= Len(queue[b])
    BY <2>1
  <2>5. \A c \in Browsers : Len(queue'[c]) <= QueueMax
    BY <1>16, <2>1, <2>4, StreamAssumption DEF NextLive, TypeInv, TypeOK
  <2>6. CASE Head(queue[b]) = Overflow
    <3>1. phase' = [phase EXCEPT ![b] = "closing"]
      BY <1>16, <2>6 DEF NextLive, Go, Overflow, TypeInv, TypeOK
    <3>2. phase' \in [Browsers -> Phases]
      BY <3>1 DEF Phases, TypeInv, TypeOK
    <3>3. UNCHANGED <<sent, delivered, batch, last, live>>
      BY <1>16, <2>6 DEF NextLive, Overflow, TypeInv, TypeOK
    <3> QED
      BY <1>16, <2>3, <2>5, <3>2, <3>3 DEF NextLive, TypeInv, TypeOK, Durable
  <2>7. CASE Head(queue[b]) # Overflow /\ Head(queue[b]) <= delivered[b] + 1
    <3>1. TakeLive(b, Head(queue[b])) /\ UNCHANGED <<batch, last, live>>
      BY <1>16, <2>2, <2>7 DEF NextLive, TypeInv, TypeOK
    <3>2. Head(queue[b]) \in 1..Len(log)
      BY <1>0, <2>2, <2>7 DEF Overflow
    <3> QED
      BY <1>16, <2>3, <2>5, <3>1, <3>2, TakeLiveType
         DEF NextLive, TypeInv, TypeOK, Durable
  <2>8. CASE Head(queue[b]) > delivered[b] + 1
    <3>1. /\ Read(b, Replay(delivered[b]), Head(queue[b]))
          /\ Go(b, "emit")
          /\ Hold(b)
      BY <1>16, <2>2, <2>8, SMTT(30) DEF NextLive, Overflow, TypeInv, TypeOK
    <3>2. Replay(delivered[b]) \in Seq(Event)
      BY <1>0, ReplayType DEF TypeInv, TypeOK
    <3>3. /\ batch' \in [Browsers -> Seq(Event)]
          /\ last' \in [Browsers -> BOOLEAN]
          /\ live' \in [Browsers -> 0..Len(log)]
          /\ live' \in [Browsers -> Nat]
      BY <2>2, <3>1, <3>2, ReadType
    <3>4. phase' \in [Browsers -> Phases]
      BY <3>1 DEF Go, Phases, Subscribed, TypeInv, TypeOK
    <3> QED
      BY <1>16, <2>3, <2>5, <3>1, <3>3, <3>4
         DEF NextLive, Hold, TypeInv, TypeOK, Durable
  <2>9. Head(queue[b]) \in Nat /\ delivered[b] \in Nat
    BY <1>0, <2>2 DEF TypeInv, TypeOK
  <2> QED
    BY <2>6, <2>7, <2>8, <2>9
<1>17. ASSUME NEW b \in Browsers, PollTimeout(b)
       PROVE  TypeInv'
  <2>1. Replay(delivered[b]) \in Seq(Event) /\ 0 \in 0..Len(log)
    BY <1>0, ReplayType DEF TypeInv, TypeOK
  <2>2. /\ batch' \in [Browsers -> Seq(Event)]
        /\ last' \in [Browsers -> BOOLEAN]
        /\ live' \in [Browsers -> 0..Len(log)]
        /\ live' \in [Browsers -> Nat]
    BY <1>17, <2>1, ReadType DEF PollTimeout
  <2>3. phase' \in [Browsers -> Phases]
    BY <1>17 DEF PollTimeout, Go, Phases, Subscribed, TypeInv, TypeOK
  <2> QED
    BY <1>17, <2>2, <2>3 DEF PollTimeout, TypeInv, TypeOK, Durable
<1>18. ASSUME NEW b \in Browsers, Receive(b)
       PROVE  TypeInv'
  <2>1. sent[b] \in Seq(Event) /\ sent[b] # <<>> /\ Head(sent[b]) \in Event
    BY <1>18 DEF Receive, TypeInv, TypeOK
  <2>2. got' \in [Browsers -> Seq(Kinds \cup Snapshots)]
    <3>1. Head(sent[b]).kind \in Kinds \cup Snapshots
      BY <2>1 DEF Event
    <3>2. got \in [Browsers -> Seq(Kinds \cup Snapshots)]
      BY DEF TypeInv, TypeOK
    <3>3. got' = got \/ got' = [got EXCEPT ![b] = Append(@, Head(sent[b]).kind)]
      BY <1>18 DEF Receive
    <3>4. Append(got[b], Head(sent[b]).kind) \in Seq(Kinds \cup Snapshots)
      BY <3>1, <3>2
    <3> QED
      BY <3>2, <3>3, <3>4
  <2>3. \/ \E p \in {"failed", "done"} : Drop(b, p)
        \/ sent' = [sent EXCEPT ![b] = Tail(@)] /\ UNCHANGED <<phase, serverVars>>
    BY <1>18 DEF Receive
  <2>4. CASE \E p \in {"failed", "done"} : Drop(b, p)
    <3>1. PICK p \in Phases : Drop(b, p)
      BY <2>4 DEF Phases
    <3> QED
      BY <1>18, <2>2, <3>1, DropType DEF Receive, TypeInv, TypeOK, Durable
  <2>5. CASE sent' = [sent EXCEPT ![b] = Tail(@)] /\ UNCHANGED <<phase, serverVars>>
    <3>1. sent' \in [Browsers -> Seq(Event)]
      BY <2>1, <2>5 DEF TypeInv, TypeOK
    <3> QED
      BY <1>18, <2>2, <2>5, <3>1 DEF Receive, TypeInv, TypeOK, Durable
  <2> QED
    BY <2>3, <2>4, <2>5
<1>19. ASSUME NEW b \in Browsers, EndOfResponse(b)
       PROVE  TypeInv'
  <2>1. Drop(b, "away") /\ "away" \in Phases
    BY <1>19 DEF EndOfResponse, Phases
  <2> QED
    BY <1>19, <2>1, DropType DEF EndOfResponse, TypeInv, TypeOK, Durable
<1>20. ASSUME NEW b \in Browsers, Disconnect(b)
       PROVE  TypeInv'
  <2>1. Drop(b, "away") /\ "away" \in Phases
    BY <1>20 DEF Disconnect, Phases
  <2>2. faults' \in 0..MaxFaults
    BY <1>20, StreamAssumption DEF Disconnect, Fault, TypeInv, TypeOK
  <2> QED
    BY <1>20, <2>1, <2>2, DropType DEF Disconnect, TypeInv, TypeOK, Durable
<1>21. CASE UNCHANGED vars
  BY <1>21 DEF TypeInv, TypeOK, Durable
<1> QED
  BY <1>1, <1>2, <1>3, <1>4, <1>5, <1>6, <1>7, <1>8, <1>9, <1>10, <1>11, <1>12,
     <1>13, <1>14, <1>15, <1>16, <1>17, <1>18, <1>19, <1>20, <1>21
     DEF Next, Broker, Handler, Client

\* Type correctness and the durability of every announcement (TypeOK and
\* Durable): Pub/Sub carries committed rows only.
THEOREM TypeCorrect == Spec => [](TypeOK /\ Durable)
<1>1. Init => TypeInv
  BY TypeInit
<1>2. TypeInv /\ [Next]_vars => TypeInv'
  BY TypeStep
<1> QED
  BY <1>1, <1>2, PTL DEF Spec, TypeInv

-----------------------------------------------------------------------------
(* Sequences on the way to a browser *)

Connected == Subscribed \cup {"closing"}

\* A sequence number that may have been sent: of a ledger event, or the 1 of a
\* snapshot.
Reach(n) == n <= Len(log) \/ n <= 1

\* A batch continues what was sent, or is a snapshot that was sent before.
Ordered(b) ==
    \/ \A i \in 1..Len(batch[b]) :
         batch[b][i].seq = delivered[b] + i /\ Reach(batch[b][i].seq)
    \/ Len(batch[b]) = 1 /\ batch[b][1].seq <= delivered[b]

\* What is on its way continues what the browser has, up to what the handler
\* takes as delivered.
InFlight(b) ==
    /\ delivered[b] = Len(got[b]) + Len(sent[b])
    /\ \A i \in 1..Len(sent[b]) : sent[b][i].seq = Len(got[b]) + i
    /\ Reach(delivered[b])

Tracked(b) ==
    /\ phase[b] # "failed"
    /\ phase[b] \notin Connected => sent[b] = <<>>
    /\ phase[b] \in Connected => InFlight(b)
    /\ phase[b] = "emit" => Ordered(b)
    /\ Reach(Len(got[b]))

AllTracked == \A b \in Browsers : Tracked(b)

\* The state of the connection of b that Tracked looks at.
SameConnection(b) ==
    /\ phase'[b] = phase[b]
    /\ delivered'[b] = delivered[b]
    /\ batch'[b] = batch[b]
    /\ sent'[b] = sent[b]
    /\ got'[b] = got[b]

LEMMA ReachDown ==
    ASSUME Len(log) \in Nat, NEW m \in Nat, NEW n \in Nat, m <= n, Reach(n)
    PROVE  Reach(m)
BY DEF Reach

LEMMA TrackedSame ==
    ASSUME TypeInv, TypeInv', NEW b \in Browsers, Tracked(b), SameConnection(b),
           Len(log') >= Len(log)
    PROVE  Tracked(b)'
<1>1. /\ Len(log) \in Nat /\ Len(log') \in Nat
      /\ Len(got[b]) \in Nat /\ delivered[b] \in Nat
      /\ batch[b] \in Seq(Event)
  BY SMTT(30) DEF TypeInv, TypeOK
<1>2. \A n \in Nat : Reach(n) => Reach(n)'
  BY <1>1 DEF Reach
<1>3. InFlight(b) => InFlight(b)'
  BY <1>1, <1>2 DEF InFlight, SameConnection
<1>4. \A i \in 1..Len(batch[b]) : batch[b][i].seq \in Nat
  <2>1. \A i \in 1..Len(batch[b]) : batch[b][i] \in Event
    BY <1>1
  <2> QED
    BY <2>1 DEF Event
<1>5. Ordered(b) => Ordered(b)'
  BY <1>1, <1>4, SMTT(30) DEF Ordered, SameConnection, Reach
<1>6. Reach(Len(got[b])) => Reach(Len(got[b]))'
  BY <1>1, <1>2 DEF SameConnection
<1> QED
  BY <1>3, <1>5, <1>6 DEF Tracked, SameConnection

\* The next event may be sent.
LEMMA SendTracked ==
    ASSUME TypeInv, NEW b \in Browsers, InFlight(b), NEW e \in Event,
           e.seq = delivered[b] + 1, Reach(e.seq), Send(b, e),
           got' = got, log' = log
    PROVE  InFlight(b)'
<1>0. e.seq \in Nat
  BY DEF Event
<1>1. /\ sent[b] \in Seq(Event) /\ Len(sent[b]) \in Nat
      /\ Len(got[b]) \in Nat /\ delivered[b] \in Nat
  BY DEF TypeInv, TypeOK
<1>2. sent'[b] = Append(sent[b], e) /\ delivered'[b] = e.seq
  BY DEF Send, TypeInv, TypeOK
<1>3. Len(sent'[b]) = Len(sent[b]) + 1
  BY <1>1, <1>2
<1>4. \A i \in 1..Len(sent'[b]) : sent'[b][i].seq = Len(got[b]) + i
  <2> TAKE i \in 1..Len(sent'[b])
  <2>1. CASE i \in 1..Len(sent[b])
    <3>1. sent'[b][i] = sent[b][i]
      BY <1>1, <1>2, <2>1
    <3> QED
      BY <2>1, <3>1 DEF InFlight
  <2>2. CASE i = Len(sent[b]) + 1
    <3>1. sent'[b][i] = e
      BY <1>1, <1>2, <2>2
    <3>2. e.seq = Len(got[b]) + Len(sent[b]) + 1
      BY DEF InFlight
    <3>3. Len(got[b]) + Len(sent[b]) + 1 = Len(got[b]) + i
      BY <1>1, <2>2, PlusAssoc
    <3> QED
      BY <3>1, <3>2, <3>3, Zenon
  <2> QED
    BY <1>1, <1>3, <2>1, <2>2
<1>5. delivered'[b] = Len(got'[b]) + Len(sent'[b])
  <2>1. delivered[b] + 1 = Len(got[b]) + Len(sent[b]) + 1
    BY DEF InFlight
  <2>2. Len(got[b]) + Len(sent[b]) + 1 = Len(got[b]) + Len(sent'[b])
    BY <1>1, <1>3, PlusAssoc
  <2> QED
    BY <1>2, <2>1, <2>2
<1>6. Reach(delivered[b])'
  BY <1>2 DEF Reach
<1> QED
  BY <1>4, <1>5, <1>6 DEF InFlight

\* A connection that is dropped leaves nothing on its way.
LEMMA DropTracked ==
    ASSUME TypeInv, NEW b \in Browsers, Tracked(b), NEW p \in {"away", "done"},
           Drop(b, p), log' = log, Reach(Len(got'[b]))
    PROVE  Tracked(b)'
<1>1. phase'[b] = p /\ sent'[b] = <<>>
  BY DEF Drop, Go, TypeInv, TypeOK
<1>2. p \notin Connected /\ p # "failed" /\ p # "emit"
  BY DEF Connected, Subscribed
<1> QED
  BY <1>1, <1>2 DEF Tracked, Reach

LEMMA TakeLiveTracked ==
    ASSUME TypeInv, NEW b \in Browsers, Tracked(b), phase[b] \in Connected,
           NEW n \in 1..Len(log), TakeLive(b, n), got' = got, log' = log
    PROVE  Tracked(b)'
<1>1. InFlight(b) /\ Reach(Len(got[b]))
  BY DEF Tracked
<1>2. phase'[b] \in {"wait", "closing"}
  BY DEF TakeLive, Go, TypeInv, TypeOK
<1>3. phase'[b] \in Connected /\ phase'[b] # "failed" /\ phase'[b] # "emit"
  BY <1>2 DEF Connected, Subscribed
<1>4. CASE Hold(b)
  <2>1. InFlight(b)'
    BY <1>1, <1>4 DEF Hold, InFlight, Reach
  <2> QED
    BY <1>1, <1>3, <2>1 DEF Tracked, Reach
<1>5. CASE n = delivered[b] + 1 /\ Send(b, [seq |-> n, kind |-> log[n]])
  <2>1. [seq |-> n, kind |-> log[n]] \in Event
    BY DEF Event, TypeInv, TypeOK
  <2>2. Reach(n)
    BY DEF Reach, TypeInv, TypeOK
  <2>3. InFlight(b)'
    BY <1>1, <1>5, <2>1, <2>2, SendTracked
  <2> QED
    BY <1>1, <1>3, <2>3 DEF Tracked, Reach
<1> QED
  BY <1>4, <1>5 DEF TakeLive

LEMMA ReadTracked ==
    ASSUME TypeInv, NEW b \in Browsers, Tracked(b), phase[b] \in Connected,
           NEW n, Read(b, Replay(delivered[b]), n), Go(b, "emit"),
           UNCHANGED <<log, delivered, sent, got>>
    PROVE  Tracked(b)'
<1>1. log \in Seq(Kinds) /\ delivered[b] \in Nat
  BY DEF TypeInv, TypeOK
<1>2. batch'[b] = Replay(delivered[b]) /\ phase'[b] = "emit"
  BY DEF Read, Go, TypeInv, TypeOK
<1>3. \A i \in 1..Len(batch'[b]) : /\ batch'[b][i].seq = delivered[b] + i
                                   /\ batch'[b][i].seq <= Len(log)
  <2>1. Len(batch'[b]) = Rows(delivered[b]) /\ Rows(delivered[b]) \in Nat
    BY <1>1, <1>2, ReplayType
  <2>2. \A i \in 1..Rows(delivered[b]) :
          batch'[b][i].seq = delivered[b] + i /\ delivered[b] + i <= Len(log)
    BY <1>1, <1>2, ReplayType
  <2> QED
    BY <2>1, <2>2
<1>4. Ordered(b)'
  BY <1>3 DEF Ordered, Reach
<1>5. InFlight(b)'
  BY DEF Tracked, InFlight, Reach
<1> QED
  BY <1>2, <1>4, <1>5 DEF Tracked, Reach, Connected, Subscribed
LEMMA TrackedInit == Init => AllTracked
BY DEF Init, AllTracked, Tracked, Connected, Subscribed, Reach

\* The handler's and the client's steps, for the browser b they serve.
LEMMA HandlerTracked ==
    ASSUME TypeInv, NEW b \in Browsers, Tracked(b), Handler(b)
    PROVE  Tracked(b)'
<1> USE DEF ledgerVars, brokerVars, serverVars
<1>0. /\ Len(log) \in Nat /\ log \in Seq(Kinds)
      /\ delivered[b] \in Nat /\ Len(got[b]) \in Nat
  BY DEF TypeInv, TypeOK
<1>1. CASE InitialReplay(b)
  <2>1. phase[b] \in Connected /\ UNCHANGED <<log, delivered, sent, got>>
    BY <1>1 DEF InitialReplay, Connected, Subscribed
  <2>2. CASE Rows(delivered[b]) > 0
    BY <1>1, <2>1, <2>2, ReadTracked DEF InitialReplay
  <2>3. CASE ~(Rows(delivered[b]) > 0)
    <3>1. phase'[b] = "context"
      BY <1>1, <2>3 DEF InitialReplay, Go, TypeInv, TypeOK
    <3> QED
      BY <2>1, <3>1 DEF Tracked, InFlight, Reach, Connected, Subscribed
  <2> QED
    BY <2>2, <2>3
<1>2. CASE ReadContext(b)
  <2>1. phase[b] \in Connected /\ InFlight(b)
    BY <1>2 DEF ReadContext, Tracked, Connected, Subscribed
  <2>2. log # <<>> => Len(log) >= 1
    BY <1>0
  <2>3. ~(log # <<>> /\ delivered[b] > Len(log))
    <3>1. delivered[b] <= Len(log) \/ delivered[b] <= 1
      BY <2>1 DEF InFlight, Reach
    <3> QED
      BY <1>0, <2>2, <3>1
  <2>4. phase'[b] \in {"row", "wait"} /\ UNCHANGED <<log, delivered, sent, got>>
    BY <1>2, <2>3 DEF ReadContext, Go, TypeInv, TypeOK
  <2> QED
    BY <2>1, <2>4 DEF Tracked, InFlight, Reach, Connected, Subscribed
<1>3. CASE ReadRow(b)
  <2>1. phase[b] \in Connected /\ InFlight(b)
    BY <1>3 DEF ReadRow, Tracked, Connected, Subscribed
  <2>2. PICK k \in Snapshots : batch'[b] = <<[seq |-> 1, kind |-> k]>>
    BY <1>3 DEF ReadRow, Read, Snapshots, TypeInv, TypeOK
  <2>3. Len(batch'[b]) = 1 /\ batch'[b][1].seq = 1
    BY <2>2
  <2>4. phase'[b] = "emit" /\ UNCHANGED <<log, delivered, sent, got>>
    BY <1>3 DEF ReadRow, Go, TypeInv, TypeOK
  <2>5. Ordered(b)'
    <3>1. CASE delivered[b] = 0
      BY <2>3, <2>4, <3>1 DEF Ordered, Reach
    <3>2. CASE delivered[b] >= 1
      BY <2>3, <2>4, <3>2 DEF Ordered
    <3> QED
      BY <1>0, <3>1, <3>2
  <2> QED
    BY <2>1, <2>4, <2>5 DEF Tracked, InFlight, Reach, Connected, Subscribed
<1>4. CASE Emit(b)
  <2>1. phase[b] \in Connected /\ InFlight(b) /\ Ordered(b) /\ Reach(Len(got[b]))
    BY <1>4 DEF Emit, Tracked, Connected, Subscribed
  <2> DEFINE e == Head(batch[b])
  <2>2. batch[b] \in Seq(Event) /\ batch[b] # <<>> /\ Len(batch[b]) \in Nat \ {0}
    BY <1>4 DEF Emit, TypeInv, TypeOK
  <2>3. e = batch[b][1] /\ e \in Event
    BY <2>2
  <2>4. e.seq \in Nat
    BY <2>3 DEF Event
  <2>5. UNCHANGED <<log, got>>
    BY <1>4 DEF Emit
  <2>6. CASE e.seq <= delivered[b]
    <3>1. Hold(b) /\ batch'[b] = Tail(batch[b]) /\ phase'[b] = "emit"
      BY <1>0, <1>4, <2>4, <2>6 DEF Emit, Go, TypeInv, TypeOK
    <3>2. Len(batch[b]) = 1
      BY <1>0, <2>1, <2>2, <2>3, <2>4, <2>6 DEF Ordered
    <3>3. Len(batch'[b]) = 0
      BY <2>2, <3>1, <3>2
    <3>4. Ordered(b)'
      BY <3>3 DEF Ordered
    <3>5. InFlight(b)'
      BY <2>1, <2>5, <3>1 DEF Hold, InFlight, Reach
    <3> QED
      BY <2>1, <2>5, <3>1, <3>4, <3>5 DEF Tracked, Reach, Connected, Subscribed
  <2>7. CASE ~(e.seq <= delivered[b])
    <3>1. \A i \in 1..Len(batch[b]) :
            batch[b][i].seq = delivered[b] + i /\ Reach(batch[b][i].seq)
      BY <2>1, <2>2, <2>3, <2>7 DEF Ordered
    <3>2. e.seq = delivered[b] + 1 /\ Reach(e.seq)
      BY <2>2, <2>3, <3>1
    <3>3. ~(e.seq > delivered[b] + 1)
      BY <1>0, <3>2
    <3>4. Send(b, e) /\ phase'[b] = "emit"
      BY <1>4, <2>7, <3>3 DEF Emit, Go, TypeInv, TypeOK
    <3>5. batch'[b] = <<>> \/ batch'[b] = Tail(batch[b])
      BY <1>4, <2>7, <3>3 DEF Emit, TypeInv, TypeOK
    <3>6. delivered'[b] = delivered[b] + 1
      BY <3>2, <3>4 DEF Send, TypeInv, TypeOK
    <3>7. InFlight(b)'
      BY <2>1, <2>3, <2>5, <3>2, <3>4, SendTracked
    <3>8. CASE batch'[b] = <<>>
      <4>1. Ordered(b)'
        BY <3>8 DEF Ordered
      <4> QED
        BY <2>1, <2>5, <3>4, <3>7, <4>1 DEF Tracked, Reach, Connected, Subscribed
    <3>9. CASE batch'[b] = Tail(batch[b])
      <4>1. Len(batch'[b]) = Len(batch[b]) - 1
        BY <2>2, <3>9
      <4>2. \A i \in 1..Len(batch'[b]) : batch'[b][i] = batch[b][i + 1]
        BY <2>2, <3>9
      <4>3. \A i \in 1..Len(batch'[b]) :
              /\ i + 1 \in 1..Len(batch[b])
              /\ delivered[b] + (i + 1) = delivered'[b] + i
        <5>1. \A i \in 1..Len(batch'[b]) : i \in Nat /\ i + 1 \in 1..Len(batch[b])
          BY <2>2, <4>1
        <5> QED
          BY <1>0, <3>6, <5>1, PlusSwap, ZenonT(30)
      <4>4. \A i \in 1..Len(batch'[b]) :
              /\ batch'[b][i].seq = delivered'[b] + i
              /\ Reach(batch'[b][i].seq)
        BY <3>1, <4>2, <4>3
      <4>5. Ordered(b)'
        BY <2>5, <4>4 DEF Ordered, Reach
      <4> QED
        BY <2>1, <2>5, <3>4, <3>7, <4>5 DEF Tracked, Reach, Connected, Subscribed
    <3> QED
      BY <3>5, <3>8, <3>9
  <2> QED
    BY <2>6, <2>7
<1>5. CASE EmittedAll(b)
  <2>1. phase[b] \in Connected /\ InFlight(b)
    BY <1>5 DEF EmittedAll, Tracked, Connected, Subscribed
  <2>2. phase'[b] \in {"closing", "wait"} /\ UNCHANGED <<log, delivered, sent, got>>
    BY <1>5 DEF EmittedAll, Go, TypeInv, TypeOK
  <2> QED
    BY <2>1, <2>2 DEF Tracked, InFlight, Reach, Connected, Subscribed
<1>6. CASE ClosedGap(b)
  <2>1. phase[b] \in Connected /\ UNCHANGED <<log, got>>
    BY <1>6 DEF ClosedGap, Connected, Subscribed
  <2>2. live[b] \in 1..Len(log) /\ TakeLive(b, live[b])
    BY <1>0, <1>6 DEF ClosedGap, TypeInv, Durable
  <2> QED
    BY <2>1, <2>2, TakeLiveTracked
<1>7. CASE NextLive(b)
  <2>1. phase[b] \in Connected /\ InFlight(b) /\ UNCHANGED <<log, got>>
    BY <1>7 DEF NextLive, Tracked, Connected, Subscribed
  <2>2. queue[b] \in Seq(0..Len(log)) /\ queue[b] # <<>>
    BY <1>7 DEF NextLive, TypeInv, Durable
  <2>3. Head(queue[b]) \in 0..Len(log) /\ Head(queue[b]) \in Nat
    BY <1>0, <2>2
  <2>4. CASE Head(queue[b]) = Overflow
    <3>1. phase'[b] = "closing" /\ UNCHANGED <<sent, delivered>>
      BY <1>7, <2>4 DEF NextLive, Go, Overflow, TypeInv, TypeOK
    <3> QED
      BY <2>1, <3>1 DEF Tracked, InFlight, Reach, Connected, Subscribed
  <2>5. CASE Head(queue[b]) # Overflow /\ Head(queue[b]) <= delivered[b] + 1
    <3>1. TakeLive(b, Head(queue[b]))
      BY <1>0, <1>7, <2>3, <2>5 DEF NextLive
    <3>2. Head(queue[b]) \in 1..Len(log)
      BY <1>0, <2>3, <2>5 DEF Overflow
    <3> QED
      BY <2>1, <3>1, <3>2, TakeLiveTracked
  <2>6. CASE Head(queue[b]) > delivered[b] + 1
    <3>1. /\ Read(b, Replay(delivered[b]), Head(queue[b]))
          /\ Go(b, "emit")
          /\ Hold(b)
      BY <1>0, <1>7, <2>3, <2>6 DEF NextLive, Overflow
    <3>2. UNCHANGED <<log, delivered, sent, got>>
      BY <2>1, <3>1 DEF Hold
    <3> QED
      BY <2>1, <3>1, <3>2, ReadTracked
  <2> QED
    BY <1>0, <2>3, <2>4, <2>5, <2>6
<1>8. CASE PollTimeout(b)
  <2>1. phase[b] \in Connected /\ UNCHANGED <<log, delivered, sent, got>>
    BY <1>8 DEF PollTimeout, Connected, Subscribed
  <2> QED
    BY <1>8, <2>1, ReadTracked DEF PollTimeout
<1> QED
  BY <1>1, <1>2, <1>3, <1>4, <1>5, <1>6, <1>7, <1>8 DEF Handler

LEMMA ClientTracked ==
    ASSUME TypeInv, NEW b \in Browsers, Tracked(b), Client(b) \/ Disconnect(b)
    PROVE  Tracked(b)'
<1> USE DEF ledgerVars, brokerVars, serverVars
<1>0. /\ Len(log) \in Nat /\ Len(got[b]) \in Nat /\ delivered[b] \in Nat
      /\ sent[b] \in Seq(Event) /\ Len(sent[b]) \in Nat
  BY DEF TypeInv, TypeOK
<1>1. ASSUME NEW g \in Gateways, Subscribe(b, g)
      PROVE  Tracked(b)'
  <2>1. sent[b] = <<>> /\ Reach(Len(got[b]))
    BY <1>1 DEF Subscribe, Tracked, Connected, Subscribed
  <2>2. /\ phase'[b] = "subscribed" /\ delivered'[b] = Len(got[b])
        /\ UNCHANGED <<log, sent, got>>
    BY <1>1 DEF Subscribe, Go, TypeInv, TypeOK
  <2>3. Len(sent[b]) = 0 /\ Len(got[b]) + 0 = Len(got[b])
    BY <1>0, <2>1
  <2>4. InFlight(b)'
    <3>1. delivered'[b] = Len(got'[b]) + Len(sent'[b])
      BY <2>2, <2>3
    <3>2. \A i \in 1..Len(sent'[b]) : sent'[b][i].seq = Len(got'[b]) + i
      BY <2>2, <2>3
    <3>3. Reach(delivered[b])'
      BY <2>1, <2>2 DEF Reach
    <3> QED
      BY <3>1, <3>2, <3>3 DEF InFlight
  <2> QED
    BY <2>1, <2>2, <2>4 DEF Tracked, Reach, Connected, Subscribed
<1>2. CASE Receive(b)
  <2>1. sent[b] # <<>> /\ log' = log
    BY <1>2 DEF Receive
  <2>2. phase[b] \in Connected /\ InFlight(b)
    BY <2>1 DEF Tracked
  <2> DEFINE e == Head(sent[b])
  <2>3. Len(sent[b]) >= 1 /\ e = sent[b][1] /\ e \in Event
    BY <1>0, <2>1
  <2>4. e.seq = Len(got[b]) + 1
    BY <1>0, <2>2, <2>3 DEF InFlight
  <2>5. got'[b] = Append(got[b], e.kind) /\ got[b] \in Seq(Kinds \cup Snapshots)
    BY <1>2, <2>4 DEF Receive, TypeInv, TypeOK
  <2>6. e.kind \in Kinds \cup Snapshots
    BY <2>3 DEF Event
  <2>7. Len(got'[b]) = Len(got[b]) + 1
    BY <2>5, <2>6
  <2>8. delivered[b] = Len(got[b]) + Len(sent[b]) /\ Reach(delivered[b])
    BY <2>2 DEF InFlight
  <2>9. Len(got[b]) + 1 <= delivered[b]
    BY <1>0, <2>3, <2>8
  <2>10. Reach(Len(got'[b]))
    <3>1. Len(got[b]) + 1 \in Nat
      BY <1>0
    <3>2. Reach(Len(got[b]) + 1)
      BY <1>0, <2>8, <2>9, <3>1, ReachDown
    <3> QED
      BY <2>7, <3>2
  <2>11. ~(e.seq > Len(got[b]) + 1)
    BY <1>0, <2>4
  <2>12. CASE e.kind \in Ending
    <3>1. Drop(b, "done")
      BY <1>2, <2>4, <2>11, <2>12 DEF Receive
    <3> QED
      BY <2>1, <2>10, <3>1, DropTracked
  <2>13. CASE e.kind \notin Ending
    <3>1. sent' = [sent EXCEPT ![b] = Tail(@)] /\ UNCHANGED <<phase, serverVars>>
      BY <1>2, <2>11, <2>13 DEF Receive
    <3>2. sent'[b] = Tail(sent[b])
      BY <3>1 DEF TypeInv, TypeOK
    <3>3. Len(sent'[b]) = Len(sent[b]) - 1
      BY <1>0, <2>1, <3>2
    <3>4. \A i \in 1..Len(sent'[b]) : sent'[b][i] = sent[b][i + 1]
      BY <1>0, <2>1, <3>2
    <3>5. \A i \in 1..Len(sent'[b]) : /\ i \in Nat
                                      /\ i + 1 \in 1..Len(sent[b])
      BY <1>0, <2>3, <3>3
    <3>6. \A i \in 1..Len(sent'[b]) : sent'[b][i].seq = Len(got[b]) + (i + 1)
      BY <2>2, <3>4, <3>5 DEF InFlight
    <3>7. \A i \in 1..Len(sent'[b]) : sent'[b][i].seq = Len(got'[b]) + i
      <4>1. \A i \in 1..Len(sent'[b]) : Len(got[b]) + (i + 1) = (Len(got[b]) + 1) + i
        BY <1>0, <3>5, PlusSwap
      <4> QED
        BY <2>7, <3>6, <4>1
    <3>8. delivered[b] = Len(got'[b]) + Len(sent'[b])
      <4>1. Len(got[b]) + Len(sent[b]) = (Len(got[b]) + 1) + (Len(sent[b]) - 1)
        BY <1>0, <2>3, PlusMinus
      <4> QED
        BY <2>7, <2>8, <3>3, <4>1
    <3>9. InFlight(b)'
      BY <2>1, <2>8, <3>1, <3>7, <3>8 DEF InFlight, Reach
    <3>10. Ordered(b) => Ordered(b)'
      BY <2>1, <3>1 DEF Ordered, Reach
    <3> QED
      BY <2>1, <2>2, <2>10, <3>1, <3>9, <3>10 DEF Tracked, Reach
  <2> QED
    BY <2>12, <2>13
<1>3. CASE EndOfResponse(b)
  <2>1. Drop(b, "away") /\ UNCHANGED <<log, got>> /\ Reach(Len(got[b]))
    BY <1>3 DEF EndOfResponse, Tracked
  <2> QED
    BY <2>1, DropTracked
<1>4. CASE Disconnect(b)
  <2>1. Drop(b, "away") /\ UNCHANGED <<log, got>> /\ Reach(Len(got[b]))
    BY <1>4 DEF Disconnect, Tracked
  <2> QED
    BY <2>1, DropTracked
<1> QED
  BY <1>1, <1>2, <1>3, <1>4 DEF Client

\* A browser's steps leave the connections of the others alone.
LEMMA OtherConnections ==
    ASSUME TypeInv, NEW b \in Browsers, NEW c \in Browsers, c # b,
           Handler(b) \/ Client(b) \/ Disconnect(b)
    PROVE  SameConnection(c) /\ log' = log /\ row' = row
<1> USE DEF ledgerVars, brokerVars, serverVars
<1>1. ASSUME NEW g \in Gateways, Subscribe(b, g)
      PROVE  SameConnection(c) /\ log' = log /\ row' = row
  BY <1>1 DEF Subscribe, Go, SameConnection, TypeInv, TypeOK
<1>2. CASE InitialReplay(b)
  BY <1>2 DEF InitialReplay, Read, Go, SameConnection, TypeInv, TypeOK
<1>3. CASE ReadContext(b)
  BY <1>3 DEF ReadContext, Drop, Go, SameConnection, TypeInv, TypeOK
<1>4. CASE ReadRow(b)
  BY <1>4 DEF ReadRow, Read, Go, SameConnection, TypeInv, TypeOK
<1>5. CASE Emit(b)
  BY <1>5 DEF Emit, Send, Hold, Go, SameConnection, TypeInv, TypeOK
<1>6. CASE EmittedAll(b)
  BY <1>6 DEF EmittedAll, Go, SameConnection, TypeInv, TypeOK
<1>7. CASE ClosedGap(b)
  BY <1>7, SMTT(30) DEF ClosedGap, TakeLive, Send, Hold, Go, SameConnection, TypeInv, TypeOK
<1>8. CASE NextLive(b)
  BY <1>8, SMTT(30) DEF NextLive, TakeLive, Read, Send, Hold, Go, SameConnection, TypeInv, TypeOK
<1>9. CASE PollTimeout(b)
  BY <1>9 DEF PollTimeout, Read, Go, SameConnection, TypeInv, TypeOK
<1>10. CASE Receive(b)
  BY <1>10, SMTT(30) DEF Receive, Drop, Go, SameConnection, TypeInv, TypeOK
<1>11. CASE EndOfResponse(b) \/ Disconnect(b)
  BY <1>11 DEF EndOfResponse, Disconnect, Drop, Go, SameConnection, TypeInv, TypeOK
<1> QED
  BY <1>1, <1>2, <1>3, <1>4, <1>5, <1>6, <1>7, <1>8, <1>9, <1>10, <1>11
     DEF Handler, Client

LEMMA TrackedStep == TypeInv /\ TypeInv' /\ AllTracked /\ [Next]_vars => AllTracked'
<1> SUFFICES ASSUME TypeInv, TypeInv', AllTracked, [Next]_vars,
                    NEW c \in Browsers
             PROVE  Tracked(c)'
  BY DEF AllTracked
<1> USE DEF vars, ledgerVars, brokerVars, serverVars
<1>0. Tracked(c) /\ Len(log) \in Nat
  BY DEF AllTracked, TypeInv, TypeOK
<1>1. ASSUME NEW g \in Gateways \cup {NoGateway}, NEW o \in Origins, Create(o, g)
      PROVE  Tracked(c)'
  <2>1. Len(log) = 0 /\ Len(log') \in Nat
    BY <1>1 DEF Create, TypeInv, TypeOK, Durable
  <2>2. Len(log') >= Len(log)
    BY <2>1
  <2> QED
    BY <1>0, <1>1, <2>2, TrackedSame DEF Create, SameConnection
<1>2. ASSUME NEW g \in Gateways \cup {NoGateway}, NEW k \in Kinds, AppendEvent(k, g)
      PROVE  Tracked(c)'
  <2>1. Len(log') = Len(log) + 1
    BY <1>2, DurableGrows DEF AppendEvent
  <2>2. Len(log') >= Len(log)
    BY <1>0, <2>1
  <2> QED
    BY <1>0, <1>2, <2>2, TrackedSame DEF AppendEvent, SameConnection
<1>3. CASE Broker \/ (\E g \in Gateways : LoseRedis(g)) \/ UNCHANGED vars
  <2>1. SameConnection(c) /\ log' = log
    BY <1>3 DEF Broker, AnnounceLocally, AnnounceRemotely, Listen, Reconnect,
                LoseRedis, SameConnection
  <2> QED
    BY <1>0, <2>1, TrackedSame
<1>4. ASSUME NEW g \in Gateways, GatewayCrash(g)
      PROVE  Tracked(c)'
  <2>1. CASE at[c] = g
    <3>1. phase'[c] = "away" /\ sent'[c] = <<>> /\ got' = got /\ log' = log
      BY <1>4, <2>1 DEF GatewayCrash
    <3> QED
      BY <1>0, <3>1 DEF Tracked, Reach, Connected, Subscribed
  <2>2. CASE at[c] # g
    <3>1. SameConnection(c) /\ log' = log
      BY <1>4, <2>2 DEF GatewayCrash, SameConnection
    <3> QED
      BY <1>0, <3>1, TrackedSame
  <2> QED
    BY <2>1, <2>2
<1>5. ASSUME NEW b \in Browsers, Handler(b) \/ Client(b) \/ Disconnect(b)
      PROVE  Tracked(c)'
  <2>1. CASE b = c
    BY <1>0, <1>5, <2>1, HandlerTracked, ClientTracked
  <2>2. CASE b # c
    <3>1. SameConnection(c) /\ log' = log
      BY <1>5, <2>2, OtherConnections
    <3> QED
      BY <1>0, <3>1, TrackedSame
  <2> QED
    BY <2>1, <2>2
<1> QED
  BY <1>1, <1>2, <1>3, <1>4, <1>5 DEF Next

\* NeverInvalid for any constants: every event a client receives is the next
\* one, and no cursor is refused.
THEOREM NeverInvalidHolds == Spec => []NeverInvalid
<1>1. Init => TypeInv /\ AllTracked
  BY TypeInit, TrackedInit
<1>2. TypeInv /\ AllTracked /\ [Next]_vars => (TypeInv /\ AllTracked)'
  BY TypeStep, TrackedStep
<1>3. AllTracked => NeverInvalid
  BY DEF AllTracked, Tracked, NeverInvalid
<1> QED
  BY <1>1, <1>2, <1>3, PTL DEF Spec
-----------------------------------------------------------------------------
(* What a browser is told *)

\* An ending event is the ledger's last; only a command a workflow requested is
\* under way without a ledger.
Ledger ==
    /\ row = "active" /\ log = <<>> => "workflow" \in Origins
    /\ \A i \in 1..Len(log) : log[i] = "end" => i = Len(log) /\ row = "over"

\* The events s are what may be told of the command, and so are the kinds g.
Told(s) == \A i \in 1..Len(s) : Says(s[i].seq, s[i].kind)
Begins(g) == \A i \in 1..Len(g) : Says(i, g[i])

Content(b) ==
    /\ phase[b] # "away" => row # "absent"
    /\ phase[b] = "row" /\ log # <<>> => "workflow" \in Origins
    /\ phase[b] = "emit" => Told(batch[b])
    /\ Told(sent[b])
    /\ Begins(got[b])
    /\ phase[b] = "done" => /\ row = "over"
                            /\ Len(got[b]) = Len(log) \/ got[b] = <<"snapshot_end">>

AllContent == \A b \in Browsers : Content(b)

LEMMA LastIsEnd ==
    ASSUME TypeInv, Ledger, NEW i, NEW k \in Ending, Says(i, k)
    PROVE  row = "over" /\ (i = Len(log) \/ (i = 1 /\ k = "snapshot_end"))
<1>1. CASE i \in 1..Len(log) /\ k = log[i]
  <2>1. k \in Kinds
    BY <1>1 DEF TypeInv, TypeOK
  <2>2. k = "end"
    BY <2>1 DEF Kinds, Ending
  <2> QED
    BY <1>1, <2>2 DEF Ledger
<1>2. CASE i = 1 /\ k = "snapshot_end" /\ row = "over"
  BY <1>2
<1> QED
  BY <1>1, <1>2 DEF Says, Ending

\* Nothing may be told of a command that does not exist.
LEMMA NothingTold ==
    ASSUME TypeInv, row = "absent", NEW i, NEW k
    PROVE  ~Says(i, k)
<1>1. log = <<>> /\ Len(log) = 0
  BY DEF TypeInv, Durable
<1> QED
  BY <1>1 DEF Says

LEMMA ContentSame ==
    ASSUME NEW b \in Browsers, Content(b), SameConnection(b), row' = row, log' = log
    PROVE  Content(b)'
<1>1. Told(batch[b])' = Told(batch[b]) /\ Told(sent[b])' = Told(sent[b])
  BY DEF Told, Says, SameConnection
<1>2. Begins(got[b])' = Begins(got[b])
  BY DEF Begins, Says, SameConnection
<1> QED
  BY <1>1, <1>2 DEF Content, SameConnection

\* What a connection holds when nothing is sent, received or read.
LEMMA ContentGo ==
    ASSUME TypeInv, NEW b \in Browsers, Content(b), NEW p \in Connected,
           p # "row", p # "emit", phase'[b] = p, row # "absent",
           UNCHANGED <<row, log>>, sent'[b] = sent[b], got'[b] = got[b]
    PROVE  Content(b)'
<1>1. p # "done" /\ p # "away"
  BY DEF Connected, Subscribed
<1>2. Told(sent[b])' /\ Begins(got[b])'
  BY DEF Content, Told, Begins, Says
<1> QED
  BY <1>1, <1>2 DEF Content

LEMMA DropContent ==
    ASSUME TypeInv, NEW b \in Browsers, Content(b), NEW p \in {"away", "failed"},
           Drop(b, p), row # "absent", UNCHANGED <<row, log, got>>
    PROVE  Content(b)'
<1>1. phase'[b] = p /\ sent'[b] = <<>>
  BY DEF Drop, Go, TypeInv, TypeOK
<1>2. Told(sent[b])'
  BY <1>1 DEF Told
<1>3. Begins(got[b])'
  BY DEF Content, Begins, Says
<1> QED
  BY <1>1, <1>2, <1>3 DEF Content

\* An event of the history may be sent.
LEMMA SendContent ==
    ASSUME TypeInv, NEW b \in Browsers, Content(b), NEW e \in Event,
           Says(e.seq, e.kind), Send(b, e), UNCHANGED <<row, log>>
    PROVE  Told(sent[b])'
<1>1. sent[b] \in Seq(Event) /\ sent'[b] = Append(sent[b], e)
  BY DEF Send, TypeInv, TypeOK
<1>2. \A i \in 1..Len(sent'[b]) :
        sent'[b][i] = e \/ (i \in 1..Len(sent[b]) /\ sent'[b][i] = sent[b][i])
  BY <1>1
<1>3. \A i \in 1..Len(sent'[b]) : Says(sent'[b][i].seq, sent'[b][i].kind)
  BY <1>2 DEF Content, Told
<1> QED
  BY <1>3 DEF Told, Says

LEMMA TakeLiveContent ==
    ASSUME TypeInv, NEW b \in Browsers, Content(b), row # "absent",
           NEW n \in 1..Len(log), TakeLive(b, n), UNCHANGED <<row, log, got>>
    PROVE  Content(b)'
<1>1. phase'[b] \in {"wait", "closing"}
  BY DEF TakeLive, Go, TypeInv, TypeOK
<1>2. phase'[b] \in Connected /\ phase'[b] \notin {"row", "emit", "away", "done"}
  BY <1>1 DEF Connected, Subscribed
<1>3. CASE Hold(b)
  BY <1>2, <1>3, ContentGo DEF Hold
<1>4. CASE Send(b, [seq |-> n, kind |-> log[n]])
  <2> DEFINE e == [seq |-> n, kind |-> log[n]]
  <2>1. e \in Event
    BY DEF Event, TypeInv, TypeOK
  <2>2. Says(e.seq, e.kind)
    BY DEF Says
  <2>3. Send(b, e)
    BY <1>4
  <2> HIDE DEF e
  <2>4. Told(sent[b])'
    BY <2>1, <2>2, <2>3, SendContent
  <2>5. Begins(got[b])'
    BY DEF Content, Begins, Says
  <2> QED
    BY <1>2, <2>4, <2>5 DEF Content
<1> QED
  BY <1>3, <1>4 DEF TakeLive

LEMMA ReadContent ==
    ASSUME TypeInv, NEW b \in Browsers, Content(b), row # "absent",
           NEW n, Read(b, Replay(delivered[b]), n), Go(b, "emit"),
           UNCHANGED <<row, log, sent, got>>
    PROVE  Content(b)'
<1>1. log \in Seq(Kinds) /\ Len(log) \in Nat /\ delivered[b] \in Nat
  BY DEF TypeInv, TypeOK
<1>2. batch'[b] = Replay(delivered[b]) /\ phase'[b] = "emit"
  BY DEF Read, Go, TypeInv, TypeOK
<1>3. Len(batch'[b]) = Rows(delivered[b]) /\ Rows(delivered[b]) \in Nat
  BY <1>1, <1>2, ReplayType
<1>4. \A i \in 1..Rows(delivered[b]) : /\ delivered[b] + i <= Len(log)
                                       /\ batch'[b][i].seq = delivered[b] + i
                                       /\ batch'[b][i].kind = log[delivered[b] + i]
  BY <1>1, <1>2, ReplayType
<1>5. \A i \in 1..Rows(delivered[b]) : delivered[b] + i \in 1..Len(log)
  BY <1>1, <1>3, <1>4
<1>6. \A i \in 1..Len(batch'[b]) : Says(batch'[b][i].seq, batch'[b][i].kind)
  BY <1>3, <1>4, <1>5 DEF Says
<1>7. Told(batch[b])'
  BY <1>6 DEF Told, Says
<1>8. Told(sent[b])' /\ Begins(got[b])'
  BY DEF Content, Told, Begins, Says
<1> QED
  BY <1>2, <1>7, <1>8 DEF Content

LEMMA TailTold ==
    ASSUME NEW s \in Seq(Event), s # <<>>, Told(s)
    PROVE  Told(Tail(s))
<1>1. \A i \in 1..Len(Tail(s)) : i + 1 \in 1..Len(s) /\ Tail(s)[i] = s[i + 1]
  OBVIOUS
<1>2. \A j \in 1..Len(s) : Says(s[j].seq, s[j].kind)
  BY DEF Told
<1>3. ASSUME NEW i \in 1..Len(Tail(s))
      PROVE  Says(Tail(s)[i].seq, Tail(s)[i].kind)
  BY <1>1, <1>2
<1> QED
  BY <1>3 DEF Told

LEMMA EmitContent ==
    ASSUME TypeInv, NEW b \in Browsers, Content(b), Emit(b)
    PROVE  Content(b)'
<1> USE DEF ledgerVars, brokerVars, serverVars
<1>1. /\ batch[b] \in Seq(Event) /\ batch[b] # <<>> /\ phase[b] = "emit"
      /\ UNCHANGED <<row, log, got>> /\ row # "absent"
  BY DEF Emit, Content, TypeInv, TypeOK
<1>2. Told(batch[b]) /\ Told(sent[b])
  BY <1>1 DEF Content
<1> DEFINE e == Head(batch[b])
<1>3. e \in Event /\ e = batch[b][1] /\ 1 \in 1..Len(batch[b])
  BY <1>1
<1>4. Says(e.seq, e.kind)
  BY <1>2, <1>3 DEF Told
<1>5. phase'[b] \in {"emit", "closing"}
  BY DEF Emit, Go, TypeInv, TypeOK
<1>6. batch'[b] = <<>> \/ batch'[b] = Tail(batch[b])
  BY DEF Emit, TypeInv, TypeOK
<1>7. Told(batch'[b])
  <2>1. CASE batch'[b] = <<>>
    BY <2>1 DEF Told
  <2>2. CASE batch'[b] = Tail(batch[b])
    BY <1>1, <1>2, <2>2, TailTold
  <2> QED
    BY <1>6, <2>1, <2>2
<1>8. Hold(b) \/ Send(b, e)
  BY DEF Emit
<1> HIDE DEF e
<1>9. Told(sent[b])'
  <2>1. CASE Hold(b)
    BY <1>1, <1>2, <2>1 DEF Hold, Told, Says
  <2>2. CASE Send(b, e)
    BY <1>1, <1>3, <1>4, <2>2, SendContent
  <2> QED
    BY <1>8, <2>1, <2>2
<1>10. Told(batch[b])' /\ Begins(got[b])'
  BY <1>1, <1>7 DEF Content, Told, Begins, Says
<1> QED
  BY <1>1, <1>5, <1>9, <1>10 DEF Content

LEMMA HandlerContent ==
    ASSUME TypeInv, Ledger, NEW b \in Browsers, Content(b), Handler(b)
    PROVE  Content(b)'
<1> USE DEF ledgerVars, brokerVars, serverVars
<1>0. Len(log) \in Nat /\ delivered[b] \in Nat /\ log \in Seq(Kinds)
  BY DEF TypeInv, TypeOK
<1>1. CASE InitialReplay(b)
  <2>1. row # "absent" /\ UNCHANGED <<row, log, sent, got>>
    BY <1>1 DEF InitialReplay, Content
  <2>2. CASE Rows(delivered[b]) > 0
    BY <1>1, <2>1, <2>2, ReadContent DEF InitialReplay
  <2>3. CASE ~(Rows(delivered[b]) > 0)
    <3>1. phase'[b] = "context" /\ "context" \in Connected
      BY <1>1, <2>3 DEF InitialReplay, Go, TypeInv, TypeOK, Connected, Subscribed
    <3> QED
      BY <2>1, <3>1, ContentGo
  <2> QED
    BY <2>2, <2>3
<1>2. CASE ReadContext(b)
  <2>1. row # "absent" /\ UNCHANGED <<row, log, got>> /\ phase[b] = "context"
    BY <1>2 DEF ReadContext, Content
  <2>2. CASE Drop(b, "failed")
    BY <2>1, <2>2, DropContent
  <2>3. CASE Go(b, IF log = <<>> THEN "row" ELSE "wait") /\ UNCHANGED sent
    <3>1. CASE log = <<>>
      <4>1. phase'[b] = "row"
        BY <2>3, <3>1 DEF Go, TypeInv, TypeOK
      <4>2. Told(sent[b])' /\ Begins(got[b])'
        BY <2>1, <2>3 DEF Content, Told, Begins, Says
      <4> QED
        BY <2>1, <2>3, <3>1, <4>1, <4>2 DEF Content
    <3>2. CASE log # <<>>
      <4>1. phase'[b] = "wait" /\ "wait" \in Connected
        BY <2>3, <3>2 DEF Go, TypeInv, TypeOK, Connected, Subscribed
      <4> QED
        BY <2>1, <2>3, <4>1, ContentGo
    <3> QED
      BY <3>1, <3>2
  <2> QED
    BY <1>2, <2>2, <2>3 DEF ReadContext
<1>3. CASE ReadRow(b)
  <2>1. /\ row \in {"active", "over"} /\ phase'[b] = "emit"
        /\ UNCHANGED <<row, log, sent, got>>
        /\ log # <<>> => "workflow" \in Origins
    BY <1>3 DEF ReadRow, Go, Content, TypeInv, TypeOK
  <2> DEFINE kind == IF row = "over" THEN "snapshot_end" ELSE "snapshot"
  <2>2. Says(1, kind)
    BY <2>1 DEF Says
  <2>3. batch'[b] = <<[seq |-> 1, kind |-> kind]>>
    BY <1>3 DEF ReadRow, Read, TypeInv, TypeOK
  <2> HIDE DEF kind
  <2>4. \A i \in 1..Len(batch'[b]) : Says(batch'[b][i].seq, batch'[b][i].kind)
    BY <2>2, <2>3
  <2>5. Told(batch[b])'
    BY <2>1, <2>4 DEF Told, Says
  <2>6. Told(sent[b])' /\ Begins(got[b])'
    BY <2>1 DEF Content, Told, Begins, Says
  <2> QED
    BY <2>1, <2>5, <2>6 DEF Content
<1>4. CASE Emit(b)
  BY <1>4, EmitContent
<1>5. CASE EmittedAll(b)
  <2>1. row # "absent" /\ UNCHANGED <<row, log, sent, got>>
    BY <1>5 DEF EmittedAll, Content
  <2>2. phase'[b] \in {"closing", "wait"}
    BY <1>5 DEF EmittedAll, Go, TypeInv, TypeOK
  <2>3. phase'[b] \in Connected /\ phase'[b] \notin {"row", "emit"}
    BY <2>2 DEF Connected, Subscribed
  <2> QED
    BY <2>1, <2>3, ContentGo
<1>6. CASE ClosedGap(b)
  <2>1. row # "absent" /\ UNCHANGED <<row, log, got>>
    BY <1>6 DEF ClosedGap, Content
  <2>2. live[b] \in 1..Len(log) /\ TakeLive(b, live[b])
    BY <1>0, <1>6 DEF ClosedGap, TypeInv, Durable
  <2> QED
    BY <2>1, <2>2, TakeLiveContent
<1>7. CASE NextLive(b)
  <2>1. row # "absent" /\ UNCHANGED <<row, log, got>>
    BY <1>7 DEF NextLive, Content
  <2>2. queue[b] \in Seq(0..Len(log)) /\ queue[b] # <<>>
    BY <1>7 DEF NextLive, TypeInv, Durable
  <2>3. Head(queue[b]) \in 0..Len(log) /\ Head(queue[b]) \in Nat
    BY <1>0, <2>2
  <2>4. CASE Head(queue[b]) = Overflow
    <3>1. phase'[b] = "closing" /\ UNCHANGED sent /\ "closing" \in Connected
      BY <1>0, <1>7, <2>4 DEF NextLive, Go, Overflow, TypeInv, TypeOK, Connected
    <3> QED
      BY <2>1, <3>1, ContentGo
  <2>5. CASE Head(queue[b]) # Overflow /\ Head(queue[b]) <= delivered[b] + 1
    <3>1. TakeLive(b, Head(queue[b]))
      BY <1>0, <1>7, <2>3, <2>5 DEF NextLive
    <3>2. Head(queue[b]) \in 1..Len(log)
      BY <1>0, <2>3, <2>5 DEF Overflow
    <3> QED
      BY <2>1, <3>1, <3>2, TakeLiveContent
  <2>6. CASE Head(queue[b]) > delivered[b] + 1
    <3>1. /\ Read(b, Replay(delivered[b]), Head(queue[b]))
          /\ Go(b, "emit")
          /\ Hold(b)
      BY <1>0, <1>7, <2>3, <2>6 DEF NextLive, Overflow
    <3> QED
      BY <2>1, <3>1, ReadContent DEF Hold
  <2> QED
    BY <1>0, <2>3, <2>4, <2>5, <2>6
<1>8. CASE PollTimeout(b)
  <2>1. row # "absent" /\ UNCHANGED <<row, log, sent, got>>
    BY <1>8 DEF PollTimeout, Content
  <2> QED
    BY <1>8, <2>1, ReadContent DEF PollTimeout
<1> QED
  BY <1>1, <1>2, <1>3, <1>4, <1>5, <1>6, <1>7, <1>8 DEF Handler

LEMMA ClientContent ==
    ASSUME TypeInv, Ledger, NEW b \in Browsers, Tracked(b), Content(b),
           Client(b) \/ Disconnect(b)
    PROVE  Content(b)'
<1> USE DEF ledgerVars, brokerVars, serverVars
<1>1. ASSUME NEW g \in Gateways, Subscribe(b, g)
      PROVE  Content(b)'
  <2>1. /\ phase'[b] = "subscribed" /\ row # "absent" /\ "subscribed" \in Connected
        /\ UNCHANGED <<row, log, sent, got>>
    BY <1>1 DEF Subscribe, Go, TypeInv, TypeOK, Connected, Subscribed
  <2> QED
    BY <2>1, ContentGo
<1>2. CASE Receive(b)
  <2>1. /\ sent[b] # <<>> /\ sent[b] \in Seq(Event) /\ UNCHANGED <<row, log>>
        /\ got[b] \in Seq(Kinds \cup Snapshots) /\ Len(got[b]) \in Nat
    BY <1>2 DEF Receive, TypeInv, TypeOK
  <2>2. phase[b] \in Connected /\ InFlight(b)
    BY <2>1 DEF Tracked
  <2>3. phase[b] # "away" /\ phase[b] # "done" /\ row # "absent"
    BY <2>2 DEF Connected, Subscribed, Content
  <2> DEFINE e == Head(sent[b])
  <2>4. e \in Event /\ e = sent[b][1] /\ 1 \in 1..Len(sent[b])
    BY <2>1
  <2>5. e.seq = Len(got[b]) + 1
    BY <2>2, <2>4 DEF InFlight
  <2>6. Says(e.seq, e.kind)
    BY <2>4 DEF Content, Told
  <2>7. got'[b] = Append(got[b], e.kind) /\ e.kind \in Kinds \cup Snapshots
    BY <1>2, <2>4, <2>5 DEF Receive, TypeInv, TypeOK, Event
  <2>8. ~(e.seq > Len(got[b]) + 1)
    BY <2>1, <2>5
  <2>9. /\ Len(got'[b]) = Len(got[b]) + 1
        /\ \A i \in 1..Len(got'[b]) :
             \/ i \in 1..Len(got[b]) /\ got'[b][i] = got[b][i]
             \/ i = Len(got[b]) + 1 /\ got'[b][i] = e.kind
    BY <2>1, <2>7
  <2>10. Begins(got[b])'
    <3>1. \A i \in 1..Len(got'[b]) : Says(i, got'[b][i])
      BY <2>5, <2>6, <2>9 DEF Content, Begins
    <3> QED
      BY <2>1, <3>1 DEF Begins, Says
  <2>11. CASE e.kind \in Ending
    <3>1. Drop(b, "done")
      BY <1>2, <2>5, <2>8, <2>11 DEF Receive
    <3>2. phase'[b] = "done" /\ sent'[b] = <<>>
      BY <3>1 DEF Drop, Go, TypeInv, TypeOK
    <3>3. row = "over" /\ (e.seq = Len(log) \/ (e.seq = 1 /\ e.kind = "snapshot_end"))
      BY <2>6, <2>11, LastIsEnd
    <3>4. Told(sent[b])'
      BY <3>2 DEF Told
    <3>5. Len(got'[b]) = Len(log) \/ got'[b] = <<"snapshot_end">>
      <4>1. CASE e.seq = Len(log)
        BY <2>5, <2>9, <4>1
      <4>2. CASE e.seq = 1 /\ e.kind = "snapshot_end"
        <5>1. Len(got[b]) = 0
          BY <2>1, <2>5, <4>2
        <5>2. got[b] = <<>>
          BY <2>1, <5>1
        <5> QED
          BY <2>7, <4>2, <5>2
      <4> QED
        BY <3>3, <4>1, <4>2
    <3> QED
      BY <2>1, <2>10, <3>2, <3>3, <3>4, <3>5 DEF Content
  <2>12. CASE e.kind \notin Ending
    <3>1. sent' = [sent EXCEPT ![b] = Tail(@)] /\ UNCHANGED <<phase, batch>>
      BY <1>2, <2>8, <2>12 DEF Receive
    <3>2. sent'[b] = Tail(sent[b]) /\ phase'[b] = phase[b] /\ batch'[b] = batch[b]
      BY <3>1 DEF TypeInv, TypeOK
    <3>3. Told(Tail(sent[b]))
      BY <2>1, TailTold DEF Content
    <3>4. Told(sent[b])'
      BY <2>1, <3>2, <3>3 DEF Told, Says
    <3>5. phase[b] = "emit" => Told(batch[b])'
      BY <2>1, <3>2 DEF Content, Told, Says
    <3> QED
      BY <2>1, <2>3, <2>10, <3>2, <3>4, <3>5 DEF Content
  <2> QED
    BY <2>11, <2>12
<1>3. CASE EndOfResponse(b) \/ Disconnect(b)
  <2>1. Drop(b, "away") /\ UNCHANGED <<row, log, got>> /\ phase[b] # "away"
    BY <1>3 DEF EndOfResponse, Disconnect, Subscribed
  <2>2. row # "absent"
    BY <2>1 DEF Content
  <2> QED
    BY <2>1, <2>2, DropContent
<1> QED
  BY <1>1, <1>2, <1>3 DEF Client

\* Nothing was told of a command before it was created.
LEMMA CreateContent ==
    ASSUME TypeInv, NEW c \in Browsers, Content(c), NEW o, NEW g, Create(o, g)
    PROVE  Content(c)'
<1> USE DEF ledgerVars, brokerVars, serverVars
<1>1. row = "absent" /\ UNCHANGED <<phase, batch, sent, got>>
  BY DEF Create
<1>2. phase[c] = "away"
  BY <1>1 DEF Content
<1>3. /\ Len(got[c]) \in Nat /\ \A i \in 1..Len(got[c]) : FALSE
      /\ Len(sent[c]) \in Nat /\ \A i \in 1..Len(sent[c]) : FALSE
  BY <1>1, NothingTold DEF Content, Begins, Told, TypeInv, TypeOK
<1>4. Told(sent[c])' /\ Begins(got[c])'
  BY <1>1, <1>3 DEF Told, Begins
<1> QED
  BY <1>1, <1>2, <1>4 DEF Content

\* What was told is told still when the ledger has grown.
LEMMA AppendContent ==
    ASSUME TypeInv, Ledger, NEW c \in Browsers, Content(c), NEW k \in Kinds,
           NEW g, AppendEvent(k, g)
    PROVE  Content(c)'
<1> USE DEF ledgerVars, brokerVars, serverVars
<1>1. /\ row = "active" /\ log' = Append(log, k) /\ row' \in {"active", "over"}
      /\ UNCHANGED <<phase, batch, sent, got>> /\ log \in Seq(Kinds)
  BY DEF AppendEvent, TypeInv, TypeOK
<1>2. /\ Len(log) \in Nat /\ Len(log') = Len(log) + 1 /\ log' # <<>>
      /\ \A i \in 1..Len(log) : i \in 1..Len(log') /\ log'[i] = log[i]
  BY <1>1
<1>3. \A i, e : Says(i, e) => Says(i, e)'
  BY <1>1, <1>2 DEF Says, Ledger
<1>4. /\ Told(sent[c]) => Told(sent[c])'
      /\ Told(batch[c]) => Told(batch[c])'
      /\ Begins(got[c]) => Begins(got[c])'
  <2>1. Told(sent[c]) => \A i \in 1..Len(sent[c]) : Says(sent[c][i].seq, sent[c][i].kind)'
    BY <1>1, <1>3 DEF Told
  <2>2. Told(batch[c]) => \A i \in 1..Len(batch[c]) : Says(batch[c][i].seq, batch[c][i].kind)'
    BY <1>1, <1>3 DEF Told
  <2>3. Begins(got[c]) => \A i \in 1..Len(got[c]) : Says(i, got[c][i])'
    BY <1>1, <1>3 DEF Begins
  <2> QED
    BY <1>1, <2>1, <2>2, <2>3 DEF Told, Begins
<1> QED
  BY <1>1, <1>4 DEF Content, Ledger

LEMMA LedgerStep ==
    ASSUME TypeInv, Ledger, [Next]_vars
    PROVE  Ledger'
<1> USE DEF vars, ledgerVars, brokerVars, serverVars
<1>1. ASSUME NEW g \in Gateways \cup {NoGateway}, NEW o \in Origins, Create(o, g)
      PROVE  Ledger'
  <2>2. CASE o = "receipt"
    <3>1. log' = <<"progress">>
      BY <1>1, <2>2 DEF Create
    <3>2. Len(log') = 1 /\ log'[1] = "progress" /\ log' # <<>>
      BY <3>1
    <3> QED
      BY <3>2 DEF Ledger
  <2>3. CASE o # "receipt"
    <3>1. log' = <<>> /\ Len(log') = 0 /\ (row' = "active" => o \in Origins)
      BY <1>1, <2>3 DEF Create
    <3>2. row' = "active" => o = "workflow"
      BY <1>1, <2>3, StreamAssumption DEF Create
    <3> QED
      BY <3>1, <3>2 DEF Ledger
  <2> QED
    BY <2>2, <2>3
<1>2. ASSUME NEW g \in Gateways \cup {NoGateway}, NEW k \in Kinds, AppendEvent(k, g)
      PROVE  Ledger'
  <2>1. /\ row = "active" /\ log' = Append(log, k) /\ log \in Seq(Kinds)
        /\ k = "end" => row' = "over"
    BY <1>2 DEF AppendEvent, TypeInv, TypeOK
  <2>2. /\ Len(log') = Len(log) + 1 /\ log' # <<>>
        /\ \A i \in 1..Len(log') : \/ i = Len(log') /\ log'[i] = k
                                   \/ i \in 1..Len(log) /\ log'[i] = log[i]
    BY <2>1
  <2> QED
    BY <2>1, <2>2 DEF Ledger
<1>3. CASE UNCHANGED <<row, log>>
  BY <1>3 DEF Ledger
<1>4. CASE Broker \/ (\E g \in Gateways : LoseRedis(g) \/ GatewayCrash(g)) \/ UNCHANGED vars
  <2>1. UNCHANGED <<row, log>>
    BY <1>4 DEF Broker, AnnounceLocally, AnnounceRemotely, Listen, Reconnect,
                LoseRedis, GatewayCrash
  <2> QED
    BY <1>3, <2>1
<1>5. ASSUME NEW b \in Browsers, Handler(b) \/ Client(b) \/ Disconnect(b)
      PROVE  Ledger'
  <2>1. UNCHANGED <<row, log>>
    BY <1>5 DEF Handler, InitialReplay, ReadContext, ReadRow, Emit, EmittedAll,
                ClosedGap, NextLive, PollTimeout, Client, Subscribe, Receive,
                EndOfResponse, Disconnect
  <2> QED
    BY <1>3, <2>1
<1> QED
  BY <1>1, <1>2, <1>4, <1>5 DEF Next

LEMMA ContentStep ==
    ASSUME TypeInv, TypeInv', AllTracked, Ledger, AllContent, [Next]_vars
    PROVE  AllContent'
<1> SUFFICES ASSUME NEW c \in Browsers
             PROVE  Content(c)'
  BY DEF AllContent
<1> USE DEF vars, ledgerVars, brokerVars, serverVars
<1>0. Tracked(c) /\ Content(c)
  BY DEF AllTracked, AllContent
<1>1. ASSUME NEW g \in Gateways \cup {NoGateway}, NEW o \in Origins, Create(o, g)
      PROVE  Content(c)'
  BY <1>0, <1>1, CreateContent
<1>2. ASSUME NEW g \in Gateways \cup {NoGateway}, NEW k \in Kinds, AppendEvent(k, g)
      PROVE  Content(c)'
  BY <1>0, <1>2, AppendContent
<1>3. CASE Broker \/ (\E g \in Gateways : LoseRedis(g)) \/ UNCHANGED vars
  <2>1. SameConnection(c) /\ log' = log /\ row' = row
    BY <1>3 DEF Broker, AnnounceLocally, AnnounceRemotely, Listen, Reconnect,
                LoseRedis, SameConnection
  <2> QED
    BY <1>0, <2>1, ContentSame
<1>4. ASSUME NEW g \in Gateways, GatewayCrash(g)
      PROVE  Content(c)'
  <2>1. CASE at[c] = g
    <3>1. /\ phase'[c] = "away" /\ sent'[c] = <<>> /\ got' = got
          /\ log' = log /\ row' = row
      BY <1>4, <2>1 DEF GatewayCrash
    <3>2. Told(sent[c])' /\ Begins(got[c])'
      BY <1>0, <3>1 DEF Content, Told, Begins, Says
    <3> QED
      BY <1>0, <3>1, <3>2 DEF Content
  <2>2. CASE at[c] # g
    <3>1. SameConnection(c) /\ log' = log /\ row' = row
      BY <1>4, <2>2 DEF GatewayCrash, SameConnection
    <3> QED
      BY <1>0, <3>1, ContentSame
  <2> QED
    BY <2>1, <2>2
<1>5. ASSUME NEW b \in Browsers, Handler(b) \/ Client(b) \/ Disconnect(b)
      PROVE  Content(c)'
  <2>1. CASE b = c
    BY <1>0, <1>5, <2>1, HandlerContent, ClientContent
  <2>2. CASE b # c
    <3>1. SameConnection(c) /\ log' = log /\ row' = row
      BY <1>5, <2>2, OtherConnections
    <3> QED
      BY <1>0, <3>1, ContentSame
  <2> QED
    BY <2>1, <2>2
<1> QED
  BY <1>1, <1>2, <1>3, <1>4, <1>5 DEF Next

LEMMA ContentInit == Init => Ledger /\ AllContent
<1> SUFFICES ASSUME Init PROVE Ledger /\ AllContent
  OBVIOUS
<1>1. row = "absent" /\ log = <<>>
  BY DEF Init
<1>2. \A b \in Browsers : phase[b] = "away" /\ sent[b] = <<>> /\ got[b] = <<>>
  BY DEF Init
<1>3. Told(<<>>) /\ Begins(<<>>)
  BY DEF Told, Begins
<1> QED
  BY <1>1, <1>2, <1>3 DEF Ledger, AllContent, Content

\* Complete for any constants and however the command came to be: whatever is
\* lost, doubled, reordered or restarted, a browser has the durable history
\* from its start, and all of it when it takes the stream as completed
\* (command_events with consume).
THEOREM CompleteHolds == Spec => []Complete
<1> DEFINE Inv == TypeInv /\ AllTracked /\ Ledger /\ AllContent
<1>1. Init => Inv
  BY TypeInit, TrackedInit, ContentInit
<1>2. Inv /\ [Next]_vars => Inv'
  BY TypeStep, TrackedStep, LedgerStep, ContentStep
<1>3. Inv => Complete
  BY DEF AllContent, Content, Begins, Complete
<1> QED
  BY <1>1, <1>2, <1>3, PTL DEF Spec
=============================================================================
