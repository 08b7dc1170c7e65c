------------------------- MODULE PortForwardProofs -------------------------
(***************************************************************************)
(* Proofs about PortForward, for any connections, window, byte limit,      *)
(* queue length and number of frames.                                      *)
(*                                                                         *)
(* What a connection has on its way is spread over three queues.  The      *)
(* proofs look at a queue through a few views for each connection (how     *)
(* many frames of a kind, how much credit, in which order) and through     *)
(* what appending or taking a frame does to them.                          *)
(***************************************************************************)
EXTENDS PortForward, FiniteSetTheorems, SequenceTheorems, TLAPS

(* The inductive invariant. *)

\* In q every frame of data about c has a number in lo..hi-1, each of these
\* numbers is there, and they are in order.
Sequenced(q, c, lo, hi) ==
    LET D == Indices(q, "data", c)
    IN  /\ lo <= hi
        /\ \A i, j \in D : i < j => q[i].n < q[j].n
        /\ \A i \in D : lo <= q[i].n /\ q[i].n < hi
        /\ \A v \in Nat : lo <= v /\ v < hi => \E i \in D : q[i].n = v

\* The connection's opened frame is in q, before any of its data.
OpenedFirst(q, c) ==
    \E j \in Indices(q, "connection_opened", c) :
        \A i \in Indices(q, "data", c) : j < i

\* No data follows the connection's end.
DataFirst(q, c) ==
    \A i \in Indices(q, "data", c), j \in Indices(q, "connection_end", c) : i < j

\* Every receipt of c in q has t frames of the target and at most d of the
\* desktop.
Receipts(q, c, d, t) ==
    \A i \in Indices(q, "connection_end", c) : q[i].n <= d /\ q[i].m = t

Connecting(c) == aloop = "connecting" /\ acur = c
Draining(c) == aloop = "draining" /\ acur = c

Bounds(c) ==
    /\ g[c].d <= total.d /\ g[c].t <= total.t
    /\ desk[c].credit + Credit(out, c) <= g[c].dCredit
    /\ a[c].reader = "emitting" => a[c].t > 0

\* A connection that the agent has not opened yet.
Untouched(c) ==
    /\ a[c].credit = Window /\ a[c].d = 0 /\ a[c].t = 0 /\ a[c].reader = "off"
    /\ g[c].dCredit = 0 /\ g[c].tCredit = Window /\ g[c].d = 0 /\ g[c].t = 0
    /\ Count(toAgent, "data", c) = 0 /\ Count(toAgent, "window", c) = 0
    /\ Count(toGateway, "connection_opened", c) = 0
    /\ Count(toGateway, "window", c) = 0
    /\ Count(toGateway, "data", c) = 0
    /\ Count(toGateway, "connection_end", c) = 0
    /\ ~Draining(c)

\* How the states of a connection at the three parties follow each other.
Life(c) ==
    /\ desk[c].st = "none" => g[c].st = "none"
    /\ Count(toAgent, "connection_open", c) > 0 => g[c].st # "none"
    /\ Connecting(c) => g[c].st # "none" /\ a[c].st = "none"
    /\ a[c].st # "none" => g[c].st # "none"
    /\ a[c].st = "none" => Untouched(c)
    /\ g[c].st = "open" => a[c].st # "none"
    /\ g[c].st = "ended" => a[c].st = "ended" /\ a[c].d = g[c].d /\ a[c].t = g[c].t
    /\ Count(toGateway, "connection_end", c) > 0 => a[c].st = "ended"
    /\ Receipts(toGateway, c, a[c].d, a[c].t)
    /\ a[c].d + One(Draining(c)) + Count(toAgent, "data", c) <= g[c].d
    /\ slot = "none" => a[c].st = "none" /\ ~Connecting(c)
    /\ loop = "off" => g[c].st = "none"

\* What the desktop has of a connection.
Shown(c) ==
    /\ gw # "done" /\ ending["desktop"] = NoEnd => desk[c].sent = g[c].d
    /\ gw # "done" /\ ending["agent"] = NoEnd =>
          desk[c].got + Count(out, "data", c) = g[c].t
    /\ DataFirst(out, c)
    /\ Count(out, "connection_end", c) > 0 => g[c].st = "ended"
    /\ desk[c].st = "ended" => g[c].st = "ended" /\ Count(out, "data", c) = 0

\* The gateway still relays to and from a live connection.
Flowing(c) == gw # "done" /\ link = "up" /\ slot # "gone" /\ a[c].st = "open"

\* FlowControlled, with the order of what is on its way: only because frames
\* arrive in the order of their numbers and after the opened frame does the
\* gateway never refuse one.
Flow(c) ==
    Flowing(c) =>
        /\ g[c].dCredit + Count(toAgent, "data", c) + One(Draining(c))
             + Credit(toGateway, c) = Window
        /\ a[c].credit + One(a[c].reader = "emitting")
             + Count(toGateway, "data", c) + Count(toAgent, "window", c)
             = g[c].tCredit
        /\ g[c].st = "pending" => OpenedFirst(toGateway, c)
        /\ Sequenced(toGateway, c, g[c].t,
                     a[c].t - One(a[c].reader = "emitting"))

\* The invariant of one connection.
Holds(c) == Bounds(c) /\ Life(c) /\ Shown(c) /\ Flow(c)

\* The session's counters are the sums over its connections, and once the
\* agent's end is recorded nothing is counted any more.
Ended ==
    /\ slot = "gone" /\ gw = "done"
    /\ audit.d = total.d /\ audit.t = total.t
    /\ \A c \in Conns :
          /\ g[c].st # "open" /\ a[c].st \in {"none", "ended"} /\ ~Connecting(c)
          /\ a[c].d = g[c].d /\ a[c].t = g[c].t

FromDesktop == Frames([c \in Conns |-> g[c].d])
FromTarget == Frames([c \in Conns |-> g[c].t])

Totals ==
    /\ IsFiniteSet(FromDesktop) /\ total.d = Cardinality(FromDesktop)
    /\ IsFiniteSet(FromTarget) /\ total.t = Cardinality(FromTarget)

HasEnd(q) == \E i \in DOMAIN q : q[i].kind = "end"

AuditInv ==
    /\ HasEnd(toGateway) => slot = "gone"
    /\ audit.reason = "ended" => Ended

LoopInv ==
    /\ loop = "stopped" => gw = "done"
    /\ gw \notin {"open", "done"} => loop = "off"
    /\ \A k \in Tasks : ending[k] # "ended"

Parts ==
    /\ LoopInv /\ Totals /\ AuditInv
    /\ \A c \in Conns : Holds(c)

IInv == TypeOK /\ Parts

-----------------------------------------------------------------------------
(* Queues: where the frames of a kind about a connection are. *)

LEMMA IndicesType ==
    ASSUME NEW q \in Seq(Messages), NEW k, NEW c
    PROVE  /\ Indices(q, k, c) \subseteq 1..Len(q)
           /\ IsFiniteSet(Indices(q, k, c))
           /\ Count(q, k, c) \in Nat
           /\ Count(q, k, c) = 0 <=> Indices(q, k, c) = {}
<1>1. Indices(q, k, c) \subseteq 1..Len(q) /\ Len(q) \in Nat
  BY LenProperties DEF Indices
<1>2. IsFiniteSet(1..Len(q))
  BY <1>1, FS_Interval
<1>3. IsFiniteSet(Indices(q, k, c))
  BY <1>1, <1>2, FS_Subset
<1> QED BY <1>1, <1>3, FS_CardinalityType, FS_EmptySet DEF Count

LEMMA IndicesAppend ==
    ASSUME NEW q \in Seq(Messages), NEW m \in Messages, NEW k, NEW c
    PROVE  Indices(Append(q, m), k, c) =
             IF m.kind = k /\ m.c = c THEN Indices(q, k, c) \cup {Len(q) + 1}
             ELSE Indices(q, k, c)
<1>1. /\ Append(q, m) \in Seq(Messages) /\ Len(Append(q, m)) = Len(q) + 1
      /\ Append(q, m)[Len(q) + 1] = m
      /\ \A i \in 1..Len(q) : Append(q, m)[i] = q[i]
      /\ DOMAIN Append(q, m) = 1..(Len(q) + 1) /\ DOMAIN q = 1..Len(q)
      /\ Len(q) \in Nat
  BY AppendProperties, LenProperties
<1>2. \A i \in 1..(Len(q) + 1) : i \in 1..Len(q) \/ i = Len(q) + 1
  BY <1>1
<1> QED BY <1>1, <1>2 DEF Indices

LEMMA IndicesTail ==
    ASSUME NEW q \in Seq(Messages), q # <<>>, NEW k, NEW c
    PROVE  /\ \A i \in Indices(Tail(q), k, c) :
                 i + 1 \in Indices(q, k, c) /\ Tail(q)[i] = q[i + 1]
           /\ \A i \in Indices(q, k, c) :
                 i # 1 => i - 1 \in Indices(Tail(q), k, c)
           /\ 1 \in Indices(q, k, c) <=> Head(q).kind = k /\ Head(q).c = c
<1>1. /\ Tail(q) \in Seq(Messages) /\ Len(Tail(q)) = Len(q) - 1
      /\ \A i \in 1..Len(Tail(q)) : Tail(q)[i] = q[i + 1]
      /\ Len(q) \in Nat \ {0} /\ DOMAIN q = 1..Len(q)
      /\ DOMAIN Tail(q) = 1..Len(Tail(q))
  BY HeadTailProperties, LenProperties, EmptySeq
<1>2. Head(q) = q[1]
  OBVIOUS
<1>3. ASSUME NEW i \in 1..Len(q), i # 1
      PROVE  i - 1 \in 1..(Len(q) - 1) /\ (i - 1) + 1 = i
  BY <1>1, <1>3
<1>4. \A i \in 1..Len(q) : i # 1 => Tail(q)[i - 1] = q[i]
  BY <1>1, <1>3
<1>5. \A i \in 1..(Len(q) - 1) : i + 1 \in 1..Len(q)
  BY <1>1
<1> QED BY <1>1, <1>2, <1>3, <1>4, <1>5 DEF Indices


LEMMA TailFrame ==
    ASSUME NEW q \in Seq(Messages), q # <<>>, NEW k, NEW c,
           NEW i \in Indices(Tail(q), k, c)
    PROVE  Tail(q)[i] = q[i + 1]
<1>1. Tail(q) \in Seq(Messages) /\ \A j \in 1..Len(Tail(q)) : Tail(q)[j] = q[j + 1]
  BY HeadTailProperties
<1>2. i \in 1..Len(Tail(q))
  BY <1>1, IndicesType
<1> QED BY <1>1, <1>2

LEMMA CountAppend ==
    ASSUME NEW q \in Seq(Messages), NEW m \in Messages, NEW k, NEW c
    PROVE  Count(Append(q, m), k, c) =
             Count(q, k, c) + One(m.kind = k /\ m.c = c)
<1>1. IsFiniteSet(Indices(q, k, c)) /\ Len(q) + 1 \notin Indices(q, k, c)
  BY IndicesType, LenProperties
<1>2. CASE m.kind = k /\ m.c = c
  <2>1. Indices(Append(q, m), k, c) = Indices(q, k, c) \cup {Len(q) + 1}
    BY <1>2, IndicesAppend
  <2>2. Cardinality(Indices(q, k, c) \cup {Len(q) + 1}) =
          Cardinality(Indices(q, k, c)) + 1
    BY <1>1, FS_AddElement
  <2> QED BY <1>2, <2>1, <2>2 DEF Count, One
<1>3. CASE ~(m.kind = k /\ m.c = c)
  <2>1. Indices(Append(q, m), k, c) = Indices(q, k, c)
    BY <1>3, IndicesAppend
  <2> QED BY <1>3, <2>1, IndicesType DEF Count, One
<1> QED BY <1>2, <1>3

LEMMA CountTail ==
    ASSUME NEW q \in Seq(Messages), q # <<>>, NEW k, NEW c
    PROVE  Count(Tail(q), k, c) + One(Head(q).kind = k /\ Head(q).c = c) =
             Count(q, k, c)
<1> DEFINE S == Indices(Tail(q), k, c)
           T == Indices(q, k, c)
           f == [i \in S |-> i + 1]
<1>1. Tail(q) \in Seq(Messages)
  BY HeadTailProperties
<1>2. /\ S \subseteq Nat \ {0} /\ T \subseteq Nat \ {0}
      /\ IsFiniteSet(S) /\ IsFiniteSet(T)
  <2>1. S \subseteq 1..Len(Tail(q)) /\ IsFiniteSet(S) /\ Len(Tail(q)) \in Nat
    BY <1>1, IndicesType, LenProperties
  <2>2. T \subseteq 1..Len(q) /\ IsFiniteSet(T) /\ Len(q) \in Nat
    BY IndicesType, LenProperties
  <2> QED BY <2>1, <2>2
<1>3. f \in Bijection(S, T \ {1})
  <2>1. f \in [S -> T \ {1}]
    BY <1>2, IndicesTail
  <2>2. \A i, j \in S : f[i] = f[j] => i = j
    BY <1>2
  <2>3. \A j \in T \ {1} : \E i \in S : f[i] = j
    <3> TAKE j \in T \ {1}
    <3>1. j - 1 \in S /\ (j - 1) + 1 = j
      BY <1>2, IndicesTail
    <3> QED BY <3>1
  <2> QED BY <2>1, <2>2, <2>3 DEF Bijection, Injection, Surjection, IsInjective
<1>4. Cardinality(T \ {1}) = Cardinality(S)
  BY <1>2, <1>3, FS_Bijection DEF ExistsBijection
<1>5. Cardinality(T \ {1}) = IF 1 \in T THEN Cardinality(T) - 1 ELSE Cardinality(T)
  BY <1>2, FS_RemoveElement
<1>6. Cardinality(S) \in Nat /\ Cardinality(T) \in Nat
  BY <1>2, FS_CardinalityType
<1>7. 1 \in T <=> Head(q).kind = k /\ Head(q).c = c
  BY IndicesTail
<1> QED BY <1>4, <1>5, <1>6, <1>7 DEF Count, One

LEMMA CountEmpty ==
    ASSUME NEW k, NEW c PROVE Count(<<>>, k, c) = 0
<1>1. Indices(<<>>, k, c) = {}
  BY DEF Indices
<1> QED BY <1>1, FS_EmptySet DEF Count

-----------------------------------------------------------------------------
(* Queues: the credit on its way. *)

LEMMA UnitsType ==
    ASSUME NEW q \in Seq(Messages), NEW c
    PROVE  /\ \A u : u \in Units(q, c) <=>
                 \E i \in Indices(q, "window", c) : \E k \in 1..q[i].n : u = <<i, k>>
           /\ IsFiniteSet(Units(q, c))
           /\ Credit(q, c) \in Nat
           /\ Count(q, "window", c) = 0 => Credit(q, c) = 0
<1> DEFINE W == Indices(q, "window", c)
<1>1. \A u : u \in Units(q, c) <=> \E i \in W : \E k \in 1..q[i].n : u = <<i, k>>
  <2> TAKE u
  <2>1. u \in Units(q, c) <=> \E i \in W : u \in {i} \X (1..q[i].n)
    BY DEF Units
  <2>2. \A i \in W : u \in {i} \X (1..q[i].n) <=> \E k \in 1..q[i].n : u = <<i, k>>
    OBVIOUS
  <2> QED BY <2>1, <2>2
<1>2. IsFiniteSet(W) /\ W \subseteq 1..Len(q) /\ DOMAIN q = 1..Len(q)
  BY IndicesType, LenProperties
<1>3. \A i \in W : q[i].n \in Nat
  <2> TAKE i \in W
  <2>1. q[i] \in Messages
    BY <1>2, ElementOfSeq
  <2> QED BY <2>1 DEF Messages
<1>4. \A i \in W : IsFiniteSet({i} \X (1..q[i].n))
  <2> TAKE i \in W
  <2>1. IsFiniteSet({i})
    BY FS_Singleton
  <2>2. q[i].n \in Int
    BY <1>3
  <2>3. IsFiniteSet(1..q[i].n)
    BY <2>2, FS_Interval
  <2> QED BY <2>1, <2>3, FS_Product
<1>5. IsFiniteSet(Units(q, c))
  <2>1. IsFiniteSet({{i} \X (1..q[i].n) : i \in W})
    <3> DEFINE f == [i \in W |-> {i} \X (1..q[i].n)]
               T == {{i} \X (1..q[i].n) : i \in W}
    <3>1. f \in Surjection(W, T)
      BY DEF Surjection
    <3> QED BY <1>2, <3>1, FS_Surjection
  <2> QED BY <2>1, <1>4, FS_UNION DEF Units
<1>6. W = {} => Units(q, c) = {}
  BY <1>1
<1> QED BY <1>1, <1>5, <1>6, FS_CardinalityType, FS_EmptySet, IndicesType DEF Credit


\* The credit of a frame m to connection c.
Grant(m, c) == IF m.kind = "window" /\ m.c = c THEN m.n ELSE 0

LEMMA OneColumn ==
    ASSUME NEW i, NEW n \in Nat
    PROVE  IsFiniteSet({i} \X (1..n)) /\ Cardinality({i} \X (1..n)) = n
<1>1. IsFiniteSet({i}) /\ Cardinality({i}) = 1
  BY FS_Singleton
<1>2. IsFiniteSet(1..n)
  BY FS_Interval
<1>3. Cardinality(1..n) = n
  BY FS_Interval
<1>4. /\ IsFiniteSet({i} \X (1..n))
      /\ Cardinality({i} \X (1..n)) = Cardinality({i}) * Cardinality(1..n)
  BY <1>1, <1>2, FS_Product
<1>5. Cardinality({i}) * Cardinality(1..n) = n
  BY <1>1, <1>3
<1> QED BY <1>4, <1>5

LEMMA CreditAppend ==
    ASSUME NEW q \in Seq(Messages), NEW m \in Messages, NEW c
    PROVE  Credit(Append(q, m), c) = Credit(q, c) + Grant(m, c)
<1> DEFINE p == Append(q, m)
           W == Indices(q, "window", c)
<1>1. /\ p \in Seq(Messages) /\ Len(q) \in Nat
      /\ \A i \in 1..Len(q) : p[i] = q[i]
      /\ p[Len(q) + 1] = m
  BY AppendProperties, LenProperties
<1>2. W \subseteq 1..Len(q) /\ Len(q) + 1 \notin W
  BY <1>1, IndicesType
<1>3. \A i \in W : p[i].n = q[i].n
  BY <1>1, <1>2
<1>4. CASE m.kind = "window" /\ m.c = c
  <2> DEFINE C == {Len(q) + 1} \X (1..m.n)
  <2>1. Indices(p, "window", c) = W \cup {Len(q) + 1}
    BY <1>4, IndicesAppend
  <2>2. Units(p, c) = Units(q, c) \cup C
    <3>1. \A u : u \in C <=> \E k \in 1..m.n : u = <<Len(q) + 1, k>>
      OBVIOUS
    <3>2. \A u : u \in Units(p, c) <=>
            \E i \in Indices(p, "window", c) : \E k \in 1..p[i].n : u = <<i, k>>
      <4> HIDE DEF p
      <4> QED BY <1>1, UnitsType
    <3>3. \A u : u \in Units(q, c) <=> \E i \in W : \E k \in 1..q[i].n : u = <<i, k>>
      BY UnitsType
    <3>4. \A u : u \in Units(p, c) <=>
            \/ \E i \in W : \E k \in 1..p[i].n : u = <<i, k>>
            \/ \E k \in 1..m.n : u = <<Len(q) + 1, k>>
      <4> HIDE DEF p, W
      <4> QED BY <1>1, <2>1, <3>2, Zenon
    <3>5. \A u : u \in Units(p, c) <=> u \in Units(q, c) \/ u \in C
      <4> HIDE DEF p, W, C
      <4> QED BY <1>3, <3>1, <3>3, <3>4
    <3> HIDE DEF p, C
    <3> QED BY <3>5
  <2>3. Units(q, c) \cap C = {}
    <3>1. \A u \in C : u[1] = Len(q) + 1
      OBVIOUS
    <3>2. \A u \in Units(q, c) : u[1] \in W
      BY UnitsType
    <3> HIDE DEF C, W
    <3> QED BY <1>2, <3>1, <3>2
  <2>4. m.n \in Nat
    BY DEF Messages
  <2>5. IsFiniteSet(C) /\ Cardinality(C) = m.n
    BY <2>4, OneColumn
  <2>6. IsFiniteSet(Units(q, c)) /\ Cardinality(Units(q, c)) \in Nat
    BY UnitsType, FS_CardinalityType
  <2>7. Cardinality(Units(q, c) \cup C) =
          Cardinality(Units(q, c)) + Cardinality(C) - Cardinality(Units(q, c) \cap C)
    BY <2>5, <2>6, FS_Union
  <2>8. Cardinality(Units(q, c) \cap C) = 0
    BY <2>3, FS_EmptySet
  <2> QED BY <1>4, <2>2, <2>4, <2>5, <2>6, <2>7, <2>8 DEF Credit, Grant
<1>5. CASE ~(m.kind = "window" /\ m.c = c)
  <2>1. Indices(p, "window", c) = W
    BY <1>5, IndicesAppend
  <2>2. \A u : u \in Units(p, c) <=>
          \E i \in Indices(p, "window", c) : \E k \in 1..p[i].n : u = <<i, k>>
    <3> HIDE DEF p
    <3> QED BY <1>1, UnitsType
  <2>4. \A u : u \in Units(q, c) <=> \E i \in W : \E k \in 1..q[i].n : u = <<i, k>>
    BY UnitsType
  <2>5. Units(p, c) = Units(q, c)
    <3> HIDE DEF p, W
    <3> QED BY <1>3, <2>1, <2>2, <2>4
  <2>3. Credit(q, c) \in Nat
    BY UnitsType
  <2> QED BY <1>5, <2>3, <2>5 DEF Credit, Grant
<1> QED BY <1>4, <1>5

LEMMA CreditTail ==
    ASSUME NEW q \in Seq(Messages), q # <<>>, NEW c
    PROVE  Credit(Tail(q), c) + Grant(Head(q), c) = Credit(q, c)
<1> DEFINE p == Tail(q)
           V == Indices(p, "window", c)
           W == Indices(q, "window", c)
           C == IF Head(q).kind = "window" /\ Head(q).c = c
                THEN {1} \X (1..Head(q).n) ELSE {}
           f == [u \in Units(p, c) |-> <<u[1] + 1, u[2]>>]
<1>1. p \in Seq(Messages) /\ Head(q) \in Messages /\ Head(q) = q[1]
  BY HeadTailProperties
<1>2. V \subseteq Nat \ {0} /\ W \subseteq Nat \ {0}
  <2>1. V \subseteq 1..Len(p) /\ Len(p) \in Nat
    BY <1>1, IndicesType, LenProperties
  <2>2. W \subseteq 1..Len(q) /\ Len(q) \in Nat
    BY IndicesType, LenProperties
  <2> QED BY <2>1, <2>2
<1>3. /\ \A i \in V : i + 1 \in W /\ p[i] = q[i + 1]
      /\ \A i \in W : i # 1 => i - 1 \in V
      /\ 1 \in W <=> Head(q).kind = "window" /\ Head(q).c = c
  BY IndicesTail
<1>4. \A u : u \in Units(p, c) <=> \E i \in V : \E k \in 1..p[i].n : u = <<i, k>>
  BY <1>1, UnitsType
<1>5. \A u : u \in Units(q, c) <=> \E i \in W : \E k \in 1..q[i].n : u = <<i, k>>
  BY UnitsType
<1>6. \A u : u \in C <=> 1 \in W /\ \E k \in 1..q[1].n : u = <<1, k>>
  BY <1>1, <1>3
<1>f. f = [u \in Units(p, c) |-> <<u[1] + 1, u[2]>>]
  OBVIOUS
<1>c. C = IF Head(q).kind = "window" /\ Head(q).c = c
          THEN {1} \X (1..Head(q).n) ELSE {}
  OBVIOUS
<1>t. p = Tail(q)
  OBVIOUS
<1> HIDE DEF p, V, W, C, f
<1>7. f \in Bijection(Units(p, c), Units(q, c) \ C)
  <2>1. f \in [Units(p, c) -> Units(q, c) \ C]
    <3> SUFFICES ASSUME NEW u \in Units(p, c) PROVE f[u] \in Units(q, c) \ C
      BY <1>f
    <3>1. PICK i \in V, k \in Nat : k \in 1..p[i].n /\ u = <<i, k>>
      BY <1>4
    <3>2. f[u] = <<i + 1, k>>
      BY <1>f, <3>1
    <3>5. i + 1 \in W /\ p[i] = q[i + 1] /\ i + 1 # 1
      BY <1>2, <1>3
    <3>3. f[u] \in Units(q, c)
      BY <1>5, <3>1, <3>2, <3>5
    <3>4. f[u] \notin C
      BY <1>6, <3>2, <3>5
    <3> QED BY <3>3, <3>4
  <2>2. \A u, v \in Units(p, c) : f[u] = f[v] => u = v
    <3> SUFFICES ASSUME NEW u \in Units(p, c), NEW v \in Units(p, c), f[u] = f[v]
                 PROVE  u = v
      OBVIOUS
    <3>1. PICK i \in V, k \in Nat : k \in 1..p[i].n /\ u = <<i, k>>
      BY <1>4
    <3>2. PICK j \in V, l \in Nat : l \in 1..p[j].n /\ v = <<j, l>>
      BY <1>4
    <3>3. i + 1 = j + 1 /\ k = l
      BY <1>f, <3>1, <3>2
    <3> QED BY <1>2, <3>1, <3>2, <3>3
  <2>3. \A v \in Units(q, c) \ C : \E u \in Units(p, c) : f[u] = v
    <3> TAKE v \in Units(q, c) \ C
    <3>1. PICK i \in W, k \in Nat : k \in 1..q[i].n /\ v = <<i, k>>
      BY <1>5
    <3>2. i # 1
      BY <1>6, <3>1
    <3>3. i - 1 \in V /\ (i - 1) + 1 = i
      BY <1>2, <1>3, <3>2
    <3>4. p[i - 1] = q[i]
      BY <1>3, <3>3
    <3>5. <<i - 1, k>> \in Units(p, c)
      BY <1>4, <3>1, <3>3, <3>4
    <3> QED BY <1>f, <3>1, <3>3, <3>5
  <2> QED BY <2>1, <2>2, <2>3 DEF Bijection, Injection, Surjection, IsInjective
<1>8. IsFiniteSet(Units(p, c)) /\ IsFiniteSet(Units(q, c))
  BY <1>1, UnitsType
<1>9. Cardinality(Units(q, c) \ C) = Cardinality(Units(p, c))
  BY <1>7, <1>8, FS_Bijection DEF ExistsBijection
<1>10. C \subseteq Units(q, c)
  BY <1>5, <1>6
<1>11. IsFiniteSet(C) /\ Cardinality(C) = Grant(Head(q), c)
  <2>1. Head(q).n \in Nat
    BY <1>1 DEF Messages
  <2>2. CASE Head(q).kind = "window" /\ Head(q).c = c
    BY <1>c, <2>1, <2>2, OneColumn DEF Grant
  <2>3. CASE ~(Head(q).kind = "window" /\ Head(q).c = c)
    BY <1>c, <2>3, FS_EmptySet DEF Grant
  <2> QED BY <2>2, <2>3
<1>12. Cardinality(Units(q, c) \ C) =
         Cardinality(Units(q, c)) - Cardinality(Units(q, c) \cap C)
  BY <1>8, FS_Difference
<1>13. Units(q, c) \cap C = C
  BY <1>10
<1>14. Cardinality(Units(q, c)) \in Nat /\ Cardinality(C) \in Nat
  BY <1>8, <1>11, FS_CardinalityType
<1>15. Credit(p, c) = Credit(q, c) - Grant(Head(q), c)
  BY <1>9, <1>11, <1>12, <1>13 DEF Credit
<1>16. Credit(q, c) \in Nat /\ Grant(Head(q), c) \in Nat
  BY <1>11, <1>14 DEF Credit
<1> QED BY <1>15, <1>16, <1>t

LEMMA CreditEmpty ==
    ASSUME NEW c PROVE Credit(<<>>, c) = 0
<1>1. Units(<<>>, c) = {}
  BY DEF Units, Indices
<1> QED BY <1>1, FS_EmptySet DEF Credit


-----------------------------------------------------------------------------
(* Queues: the order of what is on its way. *)

LEMMA SeqAppend ==
    ASSUME NEW q \in Seq(Messages), NEW m \in Messages
    PROVE  /\ Append(q, m) \in Seq(Messages) /\ Len(q) \in Nat
           /\ \A i \in 1..Len(q) : Append(q, m)[i] = q[i]
           /\ Append(q, m)[Len(q) + 1] = m
           /\ \A k, c : \A i \in Indices(q, k, c) :
                 i \in 1..Len(q) /\ Append(q, m)[i] = q[i] /\ i < Len(q) + 1
<1>1. /\ Append(q, m) \in Seq(Messages) /\ Len(q) \in Nat
      /\ \A i \in 1..Len(q) : Append(q, m)[i] = q[i]
      /\ Append(q, m)[Len(q) + 1] = m
  BY AppendProperties, LenProperties
<1>2. \A k, c : Indices(q, k, c) \subseteq 1..Len(q)
  BY IndicesType
<1>3. \A i \in 1..Len(q) : i < Len(q) + 1
  BY <1>1
<1> QED BY <1>1, <1>2, <1>3

LEMMA SeqTail ==
    ASSUME NEW q \in Seq(Messages), q # <<>>
    PROVE  /\ Tail(q) \in Seq(Messages) /\ Head(q) \in Messages /\ Head(q) = q[1]
           /\ \A k, c : Indices(q, k, c) \subseteq Nat \ {0}
           /\ \A k, c : Indices(Tail(q), k, c) \subseteq Nat \ {0}
<1>1. Tail(q) \in Seq(Messages) /\ Head(q) \in Messages /\ Head(q) = q[1]
  BY HeadTailProperties
<1>2. ASSUME NEW p \in Seq(Messages), NEW k, NEW c
      PROVE  Indices(p, k, c) \subseteq Nat \ {0}
  BY IndicesType, LenProperties
<1> QED BY <1>1, <1>2

LEMMA SequencedNone ==
    ASSUME NEW q \in Seq(Messages), NEW c, Count(q, "data", c) = 0, NEW n \in Nat
    PROVE  Sequenced(q, c, n, n)
<1>1. Indices(q, "data", c) = {}
  BY IndicesType
<1> QED BY <1>1 DEF Sequenced

LEMMA SequencedAppend ==
    ASSUME NEW q \in Seq(Messages), NEW m \in Messages, NEW c,
           NEW lo \in Nat, NEW hi \in Nat, Sequenced(q, c, lo, hi),
           m.kind = "data", m.c = c, m.n = hi
    PROVE  Sequenced(Append(q, m), c, lo, hi + 1)
<1> DEFINE p == Append(q, m)
           D == Indices(q, "data", c)
           E == Indices(p, "data", c)
<1>1. E = D \cup {Len(q) + 1}
  BY IndicesAppend
<1>2. /\ p[Len(q) + 1] = m /\ Len(q) \in Nat
      /\ \A i \in D : p[i] = q[i] /\ i < Len(q) + 1 /\ i \in 1..Len(q)
  BY SeqAppend
<1>a. lo <= hi /\ lo <= hi + 1
  BY DEF Sequenced
<1>3. /\ \A i, j \in D : i < j => q[i].n < q[j].n
      /\ \A i \in D : lo <= q[i].n /\ q[i].n < hi
      /\ \A v \in Nat : lo <= v /\ v < hi => \E i \in D : q[i].n = v
  BY DEF Sequenced
<1>4. \A i \in D : q[i].n \in Nat
  <2>1. \A i \in 1..Len(q) : q[i] \in Messages
    BY ElementOfSeq
  <2> QED BY <1>2, <2>1 DEF Messages
<1> HIDE DEF p, D, E
<1>5. \A i, j \in E : i < j => p[i].n < p[j].n
  <2> SUFFICES ASSUME NEW i \in E, NEW j \in E, i < j PROVE p[i].n < p[j].n
    OBVIOUS
  <2>1. i \in D
    BY <1>1, <1>2
  <2>2. CASE j \in D
    BY <1>2, <1>3, <2>1, <2>2
  <2>3. CASE j = Len(q) + 1
    BY <1>2, <1>3, <2>1, <2>3
  <2> QED BY <1>1, <2>2, <2>3
<1>6. \A i \in E : lo <= p[i].n /\ p[i].n < hi + 1
  BY <1>1, <1>2, <1>3, <1>4, <1>a
<1>7. \A v \in Nat : lo <= v /\ v < hi + 1 => \E i \in E : p[i].n = v
  <2> SUFFICES ASSUME NEW v \in Nat, lo <= v, v < hi + 1
               PROVE  \E i \in E : p[i].n = v
    OBVIOUS
  <2>1. CASE v = hi
    BY <1>1, <1>2, <2>1
  <2>2. CASE v < hi
    BY <1>1, <1>2, <1>3, <2>2
  <2> QED BY <2>1, <2>2
<1> QED BY <1>5, <1>6, <1>7, <1>a DEF Sequenced, p, E

LEMMA SequencedTail ==
    ASSUME NEW q \in Seq(Messages), q # <<>>, NEW c,
           NEW lo \in Nat, NEW hi \in Nat, Sequenced(q, c, lo, hi),
           Head(q).kind = "data", Head(q).c = c
    PROVE  Head(q).n = lo /\ lo < hi /\ Sequenced(Tail(q), c, lo + 1, hi)
<1> DEFINE p == Tail(q)
           D == Indices(q, "data", c)
           E == Indices(p, "data", c)
<1>1. /\ \A i \in E : i + 1 \in D /\ p[i] = q[i + 1]
      /\ \A i \in D : i # 1 => i - 1 \in E
      /\ 1 \in D
  <2>1. \A i \in E : i + 1 \in D /\ p[i] = q[i + 1]
    <3> TAKE i \in E
    <3>1. i + 1 \in D
      BY IndicesTail
    <3>2. p[i] = q[i + 1]
      BY TailFrame
    <3> QED BY <3>1, <3>2
  <2>2. \A i \in D : i # 1 => i - 1 \in E
    BY IndicesTail
  <2>3. 1 \in D <=> Head(q).kind = "data" /\ Head(q).c = c
    BY IndicesTail
  <2> HIDE DEF p, D, E
  <2> QED BY <2>1, <2>2, <2>3
<1>2. D \subseteq Nat \ {0} /\ E \subseteq Nat \ {0} /\ Head(q) = q[1]
  <2>1. /\ \A k, e : Indices(q, k, e) \subseteq Nat \ {0}
        /\ \A k, e : Indices(Tail(q), k, e) \subseteq Nat \ {0}
        /\ Head(q) = q[1]
    BY SeqTail
  <2> QED BY <2>1
<1>3. /\ \A i, j \in D : i < j => q[i].n < q[j].n
      /\ \A i \in D : lo <= q[i].n /\ q[i].n < hi
      /\ \A v \in Nat : lo <= v /\ v < hi => \E i \in D : q[i].n = v
  BY DEF Sequenced
<1>4. \A i \in D : q[i].n \in Nat
  <2>1. \A i \in 1..Len(q) : q[i] \in Messages
    BY ElementOfSeq
  <2>2. D \subseteq 1..Len(q)
    BY IndicesType
  <2> QED BY <2>1, <2>2 DEF Messages
<1> HIDE DEF p, D, E
<1>5. q[1].n = lo /\ lo < hi
  <2>1. lo <= q[1].n /\ q[1].n < hi /\ q[1].n \in Nat
    BY <1>1, <1>3, <1>4
  <2>2. PICK i \in D : q[i].n = lo
    BY <1>3, <2>1
  <2>3. i = 1 \/ 1 < i
    BY <1>2
  <2>4. 1 < i => q[1].n < q[i].n
    BY <1>1, <1>3
  <2> QED BY <2>1, <2>2, <2>3, <2>4
<1>6. \A i, j \in E : i < j => p[i].n < p[j].n
  <2> SUFFICES ASSUME NEW i \in E, NEW j \in E, i < j PROVE p[i].n < p[j].n
    OBVIOUS
  <2>1. i + 1 < j + 1
    BY <1>2
  <2> QED BY <1>1, <1>3, <2>1
<1>7. \A i \in E : lo + 1 <= p[i].n /\ p[i].n < hi
  <2> TAKE i \in E
  <2>1. 1 < i + 1 /\ i + 1 \in D /\ p[i] = q[i + 1]
    BY <1>1, <1>2
  <2>2. q[1].n < q[i + 1].n /\ q[i + 1].n < hi /\ q[i + 1].n \in Nat
    BY <1>1, <1>3, <1>4, <2>1
  <2> QED BY <1>5, <2>1, <2>2
<1>8. \A v \in Nat : lo + 1 <= v /\ v < hi => \E i \in E : p[i].n = v
  <2> SUFFICES ASSUME NEW v \in Nat, lo + 1 <= v, v < hi
               PROVE  \E i \in E : p[i].n = v
    OBVIOUS
  <2>1. PICK i \in D : q[i].n = v
    BY <1>3
  <2>2. i # 1
    BY <1>5, <2>1
  <2>3. i - 1 \in E /\ (i - 1) + 1 = i
    BY <1>1, <1>2, <2>2
  <2>4. p[i - 1] = q[i]
    BY <1>1, <2>3
  <2> QED BY <2>1, <2>3, <2>4
<1>9. lo + 1 <= hi
  BY <1>5
<1> QED BY <1>2, <1>5, <1>6, <1>7, <1>8, <1>9 DEF Sequenced, p, E


LEMMA OpenedFirstAppend ==
    ASSUME NEW q \in Seq(Messages), NEW m \in Messages, NEW c,
           OpenedFirst(q, c) \/ (/\ m.kind = "connection_opened" /\ m.c = c
                                 /\ Count(q, "data", c) = 0)
    PROVE  OpenedFirst(Append(q, m), c)
<1> DEFINE p == Append(q, m)
<1>1. Indices(p, "data", c) \subseteq Indices(q, "data", c) \cup {Len(q) + 1}
  BY IndicesAppend
<1>2. /\ Indices(q, "connection_opened", c) \subseteq Indices(p, "connection_opened", c)
      /\ m.kind = "connection_opened" /\ m.c = c =>
            /\ Len(q) + 1 \in Indices(p, "connection_opened", c)
            /\ Indices(p, "data", c) = Indices(q, "data", c)
  BY IndicesAppend
<1>3. \A i \in Indices(q, "connection_opened", c) : i < Len(q) + 1
  BY SeqAppend
<1>4. Count(q, "data", c) = 0 => Indices(q, "data", c) = {}
  BY IndicesType
<1> HIDE DEF p
<1>5. CASE OpenedFirst(q, c)
  <2>1. PICK j \in Indices(q, "connection_opened", c) :
          \A i \in Indices(q, "data", c) : j < i
    BY <1>5 DEF OpenedFirst
  <2>2. \A i \in Indices(p, "data", c) : j < i
    BY <1>1, <1>3, <2>1
  <2> QED BY <1>2, <2>2 DEF OpenedFirst, p
<1>6. CASE m.kind = "connection_opened" /\ m.c = c /\ Count(q, "data", c) = 0
  BY <1>2, <1>4, <1>6 DEF OpenedFirst, p
<1> QED BY <1>5, <1>6

LEMMA OpenedFirstTail ==
    ASSUME NEW q \in Seq(Messages), q # <<>>, NEW c, OpenedFirst(q, c),
           ~(Head(q).kind = "connection_opened" /\ Head(q).c = c)
    PROVE  /\ ~(Head(q).kind = "data" /\ Head(q).c = c)
           /\ OpenedFirst(Tail(q), c)
<1> DEFINE p == Tail(q)
<1>1. PICK j \in Indices(q, "connection_opened", c) :
        \A i \in Indices(q, "data", c) : j < i
  BY DEF OpenedFirst
<1>2. /\ \A k, e : Indices(q, k, e) \subseteq Nat \ {0}
      /\ \A k, e : Indices(p, k, e) \subseteq Nat \ {0}
  BY SeqTail
<1>3. /\ \A i \in Indices(q, "connection_opened", c) :
            i # 1 => i - 1 \in Indices(p, "connection_opened", c)
      /\ 1 \notin Indices(q, "connection_opened", c)
  BY IndicesTail
<1>4. /\ \A i \in Indices(p, "data", c) : i + 1 \in Indices(q, "data", c)
      /\ Head(q).kind = "data" /\ Head(q).c = c => 1 \in Indices(q, "data", c)
  BY IndicesTail
<1>5. j - 1 \in Indices(p, "connection_opened", c) /\ j \in Nat /\ j > 1
  BY <1>1, <1>2, <1>3
<1>6. \A i \in Indices(p, "data", c) : j - 1 < i
  <2> TAKE i \in Indices(p, "data", c)
  <2>1. j < i + 1 /\ i \in Nat
    BY <1>1, <1>2, <1>4
  <2> QED BY <1>5, <2>1
<1>7. ~(Head(q).kind = "data" /\ Head(q).c = c)
  BY <1>1, <1>4, <1>5
<1> QED BY <1>5, <1>6, <1>7 DEF OpenedFirst

LEMMA DataFirstAppend ==
    ASSUME NEW q \in Seq(Messages), NEW m \in Messages, NEW c, DataFirst(q, c),
           ~(m.kind = "data" /\ m.c = c) \/ Count(q, "connection_end", c) = 0
    PROVE  DataFirst(Append(q, m), c)
<1> DEFINE p == Append(q, m)
<1>1. CASE m.kind = "data" /\ m.c = c
  <2>1. Indices(p, "connection_end", c) = Indices(q, "connection_end", c)
    BY <1>1, IndicesAppend
  <2>2. Indices(q, "connection_end", c) = {}
    BY <1>1, IndicesType
  <2> QED BY <2>1, <2>2 DEF DataFirst
<1>2. CASE ~(m.kind = "data" /\ m.c = c)
  <2>1. Indices(p, "data", c) = Indices(q, "data", c)
    BY <1>2, IndicesAppend
  <2>2. Indices(p, "connection_end", c) \subseteq
          Indices(q, "connection_end", c) \cup {Len(q) + 1}
    BY IndicesAppend
  <2>3. \A i \in Indices(q, "data", c) : i < Len(q) + 1
    BY SeqAppend
  <2> HIDE DEF p
  <2>4. DataFirst(p, c)
    BY <2>1, <2>2, <2>3 DEF DataFirst
  <2> QED BY <2>4 DEF p
<1> QED BY <1>1, <1>2

LEMMA DataFirstTail ==
    ASSUME NEW q \in Seq(Messages), q # <<>>, NEW c, DataFirst(q, c)
    PROVE  /\ DataFirst(Tail(q), c)
           /\ Head(q).kind = "connection_end" /\ Head(q).c = c =>
                 Count(q, "data", c) = 0
<1> DEFINE p == Tail(q)
<1>1. /\ \A k, e : Indices(q, k, e) \subseteq Nat \ {0}
      /\ \A k, e : Indices(p, k, e) \subseteq Nat \ {0}
  BY SeqTail
<1>2. \A i \in Indices(p, "data", c) : i + 1 \in Indices(q, "data", c)
  BY IndicesTail
<1>3. /\ \A i \in Indices(p, "connection_end", c) : i + 1 \in Indices(q, "connection_end", c)
      /\ Head(q).kind = "connection_end" /\ Head(q).c = c =>
            1 \in Indices(q, "connection_end", c)
  BY IndicesTail
<1>4. Indices(q, "data", c) = {} => Count(q, "data", c) = 0
  BY IndicesType
<1>5. DataFirst(p, c)
  <2> SUFFICES ASSUME NEW i \in Indices(p, "data", c),
                      NEW j \in Indices(p, "connection_end", c)
               PROVE  i < j
    BY DEF DataFirst
  <2>1. i + 1 < j + 1 /\ i \in Nat /\ j \in Nat
    BY <1>1, <1>2, <1>3 DEF DataFirst
  <2> QED BY <2>1
<1>6. ASSUME 1 \in Indices(q, "connection_end", c) PROVE Indices(q, "data", c) = {}
  BY <1>1, <1>6 DEF DataFirst
<1> QED BY <1>3, <1>4, <1>5, <1>6

LEMMA ReceiptsAppend ==
    ASSUME NEW q \in Seq(Messages), NEW m \in Messages, NEW c, NEW d, NEW t,
           Receipts(q, c, d, t),
           m.kind = "connection_end" /\ m.c = c => m.n <= d /\ m.m = t
    PROVE  Receipts(Append(q, m), c, d, t)
<1>1. /\ Indices(Append(q, m), "connection_end", c) \subseteq
            Indices(q, "connection_end", c) \cup {Len(q) + 1}
      /\ ~(m.kind = "connection_end" /\ m.c = c) =>
            Indices(Append(q, m), "connection_end", c) = Indices(q, "connection_end", c)
  BY IndicesAppend
<1>2. /\ \A i \in Indices(q, "connection_end", c) : Append(q, m)[i] = q[i]
      /\ Append(q, m)[Len(q) + 1] = m
  BY SeqAppend
<1> QED BY <1>1, <1>2 DEF Receipts

LEMMA ReceiptsTail ==
    ASSUME NEW q \in Seq(Messages), q # <<>>, NEW c, NEW d, NEW t,
           Receipts(q, c, d, t)
    PROVE  /\ Receipts(Tail(q), c, d, t)
           /\ Head(q).kind = "connection_end" /\ Head(q).c = c =>
                 Head(q).n <= d /\ Head(q).m = t
<1>1. \A i \in Indices(Tail(q), "connection_end", c) :
        i + 1 \in Indices(q, "connection_end", c) /\ Tail(q)[i] = q[i + 1]
  <2> TAKE i \in Indices(Tail(q), "connection_end", c)
  <2>1. i + 1 \in Indices(q, "connection_end", c)
    BY IndicesTail
  <2>2. Tail(q)[i] = q[i + 1]
    BY TailFrame
  <2> QED BY <2>1, <2>2
<1>3. /\ Head(q).kind = "connection_end" /\ Head(q).c = c =>
            1 \in Indices(q, "connection_end", c)
  BY IndicesTail
<1>2. Head(q) = q[1]
  BY SeqTail
<1> QED BY <1>1, <1>2, <1>3 DEF Receipts

LEMMA ReceiptsNone ==
    ASSUME NEW q \in Seq(Messages), NEW c, Count(q, "connection_end", c) = 0,
           NEW d, NEW t
    PROVE  Receipts(q, c, d, t)
  BY IndicesType DEF Receipts


\* To connection c the queue p is as good as q.
Kinds == {"data", "window", "connection_open", "connection_opened", "connection_end"}

Same(p, q, c) ==
    /\ \A k \in Kinds : Count(p, k, c) = Count(q, k, c)
    /\ Credit(p, c) = Credit(q, c)
    /\ \A lo, hi \in Int : Sequenced(q, c, lo, hi) => Sequenced(p, c, lo, hi)
    /\ OpenedFirst(q, c) => OpenedFirst(p, c)
    /\ DataFirst(q, c) => DataFirst(p, c)
    /\ \A d, t \in Nat : Receipts(q, c, d, t) => Receipts(p, c, d, t)

\* A frame that is not about c.
Other(m, c) == ~(m.c = c /\ m.kind \in Kinds)

LEMMA SequencedOtherAppend ==
    ASSUME NEW q \in Seq(Messages), NEW m \in Messages, NEW c, NEW lo, NEW hi,
           ~(m.kind = "data" /\ m.c = c), Sequenced(q, c, lo, hi)
    PROVE  Sequenced(Append(q, m), c, lo, hi)
<1> DEFINE D == Indices(q, "data", c)
<1>1. Indices(Append(q, m), "data", c) = D
  BY IndicesAppend
<1>2. \A i \in D : Append(q, m)[i] = q[i]
  BY SeqAppend
<1>3. /\ \A i, j \in D : i < j => q[i].n < q[j].n
      /\ \A i \in D : lo <= q[i].n /\ q[i].n < hi
      /\ \A v \in Nat : lo <= v /\ v < hi => \E i \in D : q[i].n = v
  BY DEF Sequenced
<1> HIDE DEF D
<1> QED BY <1>1, <1>2, <1>3 DEF Sequenced

LEMMA SequencedOtherTail ==
    ASSUME NEW q \in Seq(Messages), q # <<>>, NEW c, NEW lo \in Int, NEW hi \in Int,
           ~(Head(q).kind = "data" /\ Head(q).c = c), Sequenced(q, c, lo, hi)
    PROVE  Sequenced(Tail(q), c, lo, hi)
<1> DEFINE p == Tail(q)
           D == Indices(q, "data", c)
           E == Indices(p, "data", c)
<1>1. \A i \in E : i + 1 \in D /\ p[i] = q[i + 1]
  <2> TAKE i \in E
  <2>1. i + 1 \in D
    BY IndicesTail
  <2>2. p[i] = q[i + 1]
    BY TailFrame
  <2> QED BY <2>1, <2>2
<1>2. \A i \in D : i # 1 => i - 1 \in E
  BY IndicesTail
<1>3. 1 \notin D
  BY IndicesTail
<1>4. D \subseteq Nat \ {0} /\ E \subseteq Nat \ {0}
  <2>1. /\ \A k, e : Indices(q, k, e) \subseteq Nat \ {0}
        /\ \A k, e : Indices(Tail(q), k, e) \subseteq Nat \ {0}
    BY SeqTail
  <2> QED BY <2>1
<1>5. /\ \A i, j \in D : i < j => q[i].n < q[j].n
      /\ \A i \in D : lo <= q[i].n /\ q[i].n < hi
      /\ \A v \in Nat : lo <= v /\ v < hi => \E i \in D : q[i].n = v
  BY DEF Sequenced
<1> HIDE DEF p, D, E
<1>6. \A i, j \in E : i < j => p[i].n < p[j].n
  <2> SUFFICES ASSUME NEW i \in E, NEW j \in E, i < j PROVE p[i].n < p[j].n
    OBVIOUS
  <2>1. i + 1 < j + 1
    BY <1>4
  <2> QED BY <1>1, <1>5, <2>1
<1>7. \A i \in E : lo <= p[i].n /\ p[i].n < hi
  BY <1>1, <1>5
<1>8. \A v \in Nat : lo <= v /\ v < hi => \E i \in E : p[i].n = v
  <2> SUFFICES ASSUME NEW v \in Nat, lo <= v, v < hi
               PROVE  \E i \in E : p[i].n = v
    OBVIOUS
  <2>1. PICK i \in D : q[i].n = v
    BY <1>5
  <2>2. i - 1 \in E /\ (i - 1) + 1 = i
    BY <1>2, <1>3, <1>4
  <2>3. p[i - 1] = q[i]
    BY <1>1, <2>2
  <2> QED BY <2>1, <2>2, <2>3
<1> QED BY <1>6, <1>7, <1>8 DEF Sequenced, p, E

LEMMA SameAppend ==
    ASSUME NEW q \in Seq(Messages), NEW m \in Messages, NEW c, Other(m, c)
    PROVE  Same(Append(q, m), q, c)
<1>1. \A k \in Kinds : Count(Append(q, m), k, c) = Count(q, k, c)
  <2> TAKE k \in Kinds
  <2>1. ~(m.kind = k /\ m.c = c)
    BY DEF Other
  <2>2. Count(q, k, c) \in Nat
    BY IndicesType
  <2> QED BY <2>1, <2>2, CountAppend DEF One
<1>2. Credit(Append(q, m), c) = Credit(q, c)
  <2>1. Grant(m, c) = 0
    BY DEF Grant, Other, Kinds
  <2>2. Credit(q, c) \in Nat
    BY UnitsType
  <2> QED BY <2>1, <2>2, CreditAppend
<1>3. ~(m.kind = "data" /\ m.c = c) /\ ~(m.kind = "connection_end" /\ m.c = c)
  BY DEF Other, Kinds
<1>4. ASSUME NEW lo \in Int, NEW hi \in Int, Sequenced(q, c, lo, hi)
      PROVE  Sequenced(Append(q, m), c, lo, hi)
  BY <1>3, <1>4, SequencedOtherAppend
<1>5. OpenedFirst(q, c) => OpenedFirst(Append(q, m), c)
  BY OpenedFirstAppend
<1>6. DataFirst(q, c) => DataFirst(Append(q, m), c)
  BY <1>3, DataFirstAppend
<1>7. \A d, t \in Nat : Receipts(q, c, d, t) => Receipts(Append(q, m), c, d, t)
  BY <1>3, ReceiptsAppend
<1> QED BY <1>1, <1>2, <1>4, <1>5, <1>6, <1>7 DEF Same

LEMMA SameTail ==
    ASSUME NEW q \in Seq(Messages), q # <<>>, NEW c, Other(Head(q), c)
    PROVE  Same(Tail(q), q, c)
<1>0. Tail(q) \in Seq(Messages)
  BY SeqTail
<1>1. \A k \in Kinds : Count(Tail(q), k, c) = Count(q, k, c)
  <2> TAKE k \in Kinds
  <2>1. ~(Head(q).kind = k /\ Head(q).c = c)
    BY DEF Other
  <2>2. Count(q, k, c) \in Nat /\ Count(Tail(q), k, c) \in Nat
    BY <1>0, IndicesType
  <2> QED BY <2>1, <2>2, CountTail DEF One
<1>2. Credit(Tail(q), c) = Credit(q, c)
  <2>1. Grant(Head(q), c) = 0
    BY DEF Grant, Other, Kinds
  <2>2. Credit(q, c) \in Nat /\ Credit(Tail(q), c) \in Nat
    BY <1>0, UnitsType
  <2> QED BY <2>1, <2>2, CreditTail
<1>3. /\ ~(Head(q).kind = "data" /\ Head(q).c = c)
      /\ ~(Head(q).kind = "connection_opened" /\ Head(q).c = c)
  BY DEF Other, Kinds
<1>4. ASSUME NEW lo \in Int, NEW hi \in Int, Sequenced(q, c, lo, hi)
      PROVE  Sequenced(Tail(q), c, lo, hi)
  BY <1>3, <1>4, SequencedOtherTail
<1>5. OpenedFirst(q, c) => OpenedFirst(Tail(q), c)
  BY <1>3, OpenedFirstTail
<1>6. DataFirst(q, c) => DataFirst(Tail(q), c)
  BY DataFirstTail
<1>7. \A d, t \in Nat : Receipts(q, c, d, t) => Receipts(Tail(q), c, d, t)
  BY ReceiptsTail
<1> QED BY <1>1, <1>2, <1>4, <1>5, <1>6, <1>7 DEF Same

LEMMA SameRefl == ASSUME NEW q, NEW c PROVE Same(q, q, c)
  BY DEF Same

LEMMA SameTrans ==
    ASSUME NEW p, NEW q, NEW r, NEW c, Same(p, q, c), Same(q, r, c)
    PROVE  Same(p, r, c)
  BY DEF Same


-----------------------------------------------------------------------------
(* Frames and what is appended to a queue. *)

LEMMA AnyoneType == Anyone \in Conns
  BY PortForwardAssumption DEF Anyone

LEMMA FrameType ==
    /\ \A k \in {"open", "opened", "close", "end", "error", "final"} :
          Session(k) \in Messages /\ \A c : Other(Session(k), c)
    /\ \A k \in {"half_close", "connection_close"}, c \in Conns :
          Msg(k, c, 0) \in Messages /\ \A e : Other(Msg(k, c, 0), e)
    /\ \A k \in Kinds, c \in Conns, n \in Nat :
          /\ Msg(k, c, n) \in Messages
          /\ Msg(k, c, n).kind = k /\ Msg(k, c, n).c = c /\ Msg(k, c, n).n = n
          /\ \A e : e # c => Other(Msg(k, c, n), e)
    /\ \A k \in {"end", "connection_end"}, c \in Conns, d, t \in Nat :
          /\ Receipt(k, c, d, t) \in Messages
          /\ Receipt(k, c, d, t).kind = k /\ Receipt(k, c, d, t).c = c
          /\ Receipt(k, c, d, t).n = d /\ Receipt(k, c, d, t).m = t
          /\ \A e : e # c => Other(Receipt(k, c, d, t), e)
    /\ \A d, t \in Nat : \A e : Other(Receipt("end", Anyone, d, t), e)
  BY AnyoneType DEF Session, Msg, Receipt, Other, Kinds, Messages

LEMMA ConcatAppend ==
    ASSUME NEW q \in Seq(Messages), NEW m \in Messages, NEW n \in Messages
    PROVE  /\ q \o <<>> = q
           /\ q \o <<m>> = Append(q, m) /\ Append(q, m) \in Seq(Messages)
           /\ q \o <<m, n>> = Append(Append(q, m), n)
           /\ <<>> \o <<m>> = <<m>> /\ <<m>> \o <<>> = <<m>>
           /\ <<>> \o <<>> = <<>>
           /\ q \o (<<m>> \o <<n>>) = Append(Append(q, m), n)
<1>1. Append(q, m) \in Seq(Messages) /\ Append(Append(q, m), n) \in Seq(Messages)
  BY SeqAppend
<1>2. q \o <<m, n>> = Append(Append(q, m), n)
  <2>1. <<m, n>> \in Seq(Messages) /\ Len(<<m, n>>) = 2
    OBVIOUS
  <2>2. /\ q \o <<m, n>> \in Seq(Messages) /\ Len(q \o <<m, n>>) = Len(q) + 2
        /\ \A i \in 1..(Len(q) + 2) : (q \o <<m, n>>)[i] =
               IF i <= Len(q) THEN q[i] ELSE <<m, n>>[i - Len(q)]
    BY <2>1, ConcatProperties
  <2>3. Len(q) \in Nat /\ Len(Append(Append(q, m), n)) = Len(q) + 2
    BY <1>1, LenProperties
  <2>4. \A i \in 1..(Len(q) + 2) : (q \o <<m, n>>)[i] = Append(Append(q, m), n)[i]
    <3> TAKE i \in 1..(Len(q) + 2)
    <3>1. CASE i <= Len(q)
      BY <2>2, <2>3, <3>1
    <3>2. CASE i = Len(q) + 1
      BY <2>2, <2>3, <3>2
    <3>3. CASE i = Len(q) + 2
      BY <2>2, <2>3, <3>3
    <3> QED BY <2>3, <3>1, <3>2, <3>3
  <2> QED BY <1>1, <2>2, <2>3, <2>4, SeqEqual
<1>3. <<>> \in Seq(Messages) /\ <<m>> \in Seq(Messages)
  OBVIOUS
<1>4. q \o <<>> = q /\ <<>> \o <<m>> = <<m>> /\ <<m>> \o <<>> = <<m>> /\ <<>> \o <<>> = <<>>
  BY <1>3, ConcatEmptySeq
<1>5. q \o <<m>> = Append(q, m)
  BY AppendIsConcat
<1>6. q \o (<<m>> \o <<n>>) = Append(Append(q, m), n)
  <2>1. <<n>> \in Seq(Messages)
    OBVIOUS
  <2>2. q \o (<<m>> \o <<n>>) = (q \o <<m>>) \o <<n>>
    BY <1>3, <2>1, ConcatAssociative
  <2>3. Append(q, m) \o <<n>> = Append(Append(q, m), n)
    BY <1>1, AppendIsConcat
  <2> QED BY <1>5, <2>2, <2>3
<1> QED BY <1>1, <1>2, <1>4, <1>5, <1>6

\* A queue that was emptied, or holds nothing but the session's end.
Empty(q) == q = <<>> \/ q = <<Session("final")>>

LEMMA EmptyViews ==
    ASSUME NEW q, Empty(q), NEW c
    PROVE  /\ q \in Seq(Messages)
           /\ \A k \in Kinds : Count(q, k, c) = 0
           /\ Credit(q, c) = 0
           /\ DataFirst(q, c)
           /\ \A d, t : Receipts(q, c, d, t)
<1>1. <<>> \in Seq(Messages) /\ Session("final") \in Messages
  BY FrameType
<1>2. <<Session("final")>> = Append(<<>>, Session("final"))
  OBVIOUS
<1>3. q \in Seq(Messages)
  BY <1>1, <1>2, SeqAppend DEF Empty
<1>4. Same(q, <<>>, c)
  <2>1. CASE q = <<>>
    BY <2>1, SameRefl
  <2>2. CASE q = <<Session("final")>>
    <3>1. Other(Session("final"), c)
      BY FrameType
    <3>2. Same(Append(<<>>, Session("final")), <<>>, c)
      BY <1>1, <3>1, SameAppend
    <3> QED BY <1>2, <2>2, <3>2
  <2> QED BY <2>1, <2>2 DEF Empty
<1>5. Credit(q, c) = 0 /\ \A k \in Kinds : Count(q, k, c) = 0
  BY <1>4, CountEmpty, CreditEmpty DEF Same
<1>6. Count(q, "data", c) = 0 /\ Count(q, "connection_end", c) = 0
  BY <1>5 DEF Kinds
<1>7. Indices(q, "data", c) = {} /\ Indices(q, "connection_end", c) = {}
  BY <1>3, <1>6, IndicesType
<1> QED BY <1>3, <1>5, <1>7 DEF DataFirst, Receipts


-----------------------------------------------------------------------------
(* What the parts of the actions do. *)

Fields ==
    /\ \A c \in Conns :
          /\ g[c].st \in {"none", "pending", "open", "ended"}
          /\ g[c].dCredit \in 0..Window /\ g[c].tCredit \in 0..Window
          /\ g[c].dCredit \in Nat /\ g[c].tCredit \in Nat
          /\ g[c].d \in Nat /\ g[c].t \in Nat
          /\ a[c].st \in {"none", "open", "ending", "ended"}
          /\ a[c].credit \in 0..Window /\ a[c].credit \in Nat
          /\ a[c].in \in Nat /\ a[c].d \in Nat /\ a[c].t \in Nat
          /\ a[c].reader \in {"off", "reading", "emitting", "dead"}
          /\ desk[c].st \in {"none", "asked", "open", "closing", "ended"}
          /\ desk[c].credit \in 0..Window /\ desk[c].credit \in Nat
          /\ desk[c].sent \in Nat /\ desk[c].got \in Nat /\ desk[c].owed \in Nat
    /\ total.d \in Nat /\ total.t \in Nat /\ Window \in Nat

LEMMA FieldTypes == ASSUME TypeOK PROVE Fields
<1>1. /\ total.d \in Nat /\ total.t \in Nat /\ Window \in Nat
  BY PortForwardAssumption DEF TypeOK, GatewayTypes
<1>2. \A c \in Conns : g[c] \in GatewayConns /\ a[c] \in AgentConns /\ desk[c] \in DesktopConns
  BY DEF TypeOK, GatewayTypes, AgentTypes, DesktopTypes
<1> QED BY <1>1, <1>2, PortForwardAssumption
        DEF Fields, GatewayConns, AgentConns, DesktopConns

LEMMA FieldTypesNext == ASSUME TypeOK' PROVE Fields'
<1>1. /\ total'.d \in Nat /\ total'.t \in Nat /\ Window \in Nat
  BY PortForwardAssumption DEF TypeOK, GatewayTypes
<1>2. \A c \in Conns : g'[c] \in GatewayConns /\ a'[c] \in AgentConns /\ desk'[c] \in DesktopConns
  BY DEF TypeOK, GatewayTypes, AgentTypes, DesktopTypes
<1> QED BY <1>1, <1>2, PortForwardAssumption
        DEF Fields, GatewayConns, AgentConns, DesktopConns

LEMMA SendShape ==
    ASSUME TypeOK, NEW m \in Messages, Send(m)
    PROVE  /\ toAgent' \in Seq(Messages)
           /\ toAgent' = IF link = "up" THEN Append(toAgent, m) ELSE toAgent
           /\ \A c : Other(m, c) => Same(toAgent', toAgent, c)
<1>1. toAgent \in Seq(Messages)
  BY DEF TypeOK, GatewayTypes, AgentTypes, LinkTypes
<1> QED BY <1>1, SeqAppend, SameAppend, SameRefl DEF Send

LEMMA FinishShape ==
    ASSUME TypeOK, NEW r \in Reasons, Finish(r)
    PROVE  /\ gw' = "done"
           /\ gw = "done" => out' = out /\ audit' = audit
           /\ gw # "done" =>
                 /\ out' = <<Session("final")>> /\ out' \in Seq(Messages)
                 /\ audit' = [reason |-> r, d |-> total.d, t |-> total.t]
           /\ out' \in Seq(Messages) /\ Len(out') <= QueueMax
           /\ audit' \in Audits
<1>1. CASE gw = "done"
  BY <1>1 DEF Finish, TypeOK, GatewayTypes, AgentTypes, LinkTypes
<1>2. CASE gw # "done"
  <2>1. <<Session("final")>> \in Seq(Messages) /\ Len(<<Session("final")>>) = 1
    BY FrameType
  <2>2. /\ gw' = "done" /\ out' = <<Session("final")>>
        /\ audit' = [reason |-> r, d |-> total.d, t |-> total.t]
    BY <1>2 DEF Finish
  <2>3. 1 <= QueueMax
    BY PortForwardAssumption
  <2>4. total.d \in 0..ByteLimit /\ total.t \in 0..ByteLimit
    BY DEF TypeOK, GatewayTypes, AgentTypes, LinkTypes
  <2>5. audit' \in Audits
    BY <2>2, <2>4 DEF Audits
  <2>6. out' \in Seq(Messages) /\ Len(out') <= QueueMax
    BY <2>1, <2>2, <2>3
  <2> QED BY <1>2, <2>2, <2>5, <2>6
<1> QED BY <1>1, <1>2

LEMMA CloseShape ==
    ASSUME TypeOK, NEW k \in Tasks, NEW r \in Reasons, CloseWithReason(k, r)
    PROVE  /\ toAgent' \in Seq(Messages)
           /\ \A c : Same(toAgent', toAgent, c)
           /\ ending' = [ending EXCEPT ![k] = r]
           /\ ending' \in [Tasks -> Reasons \cup {NoEnd}]
           /\ UNCHANGED <<gw, out, audit>>
<1>1. Session("close") \in Messages /\ \A c : Other(Session("close"), c)
  BY FrameType
<1> QED BY <1>1, SendShape DEF CloseWithReason, TypeOK, GatewayTypes, AgentTypes, LinkTypes

LEMMA ForwardShape ==
    ASSUME TypeOK, NEW m \in Messages, Forward(m)
    PROVE  /\ toAgent' \in Seq(Messages)
           /\ toAgent' = IF link = "up" THEN Append(toAgent, m) ELSE toAgent
           /\ \A c : Other(m, c) => Same(toAgent', toAgent, c)
           /\ ending' = ending
           /\ gw' \in {gw, "done"}
           /\ out' \in Seq(Messages) /\ Len(out') <= QueueMax
           /\ out' = out \/ (gw' = "done" /\ Empty(out'))
           /\ audit' \in Audits
           /\ audit' = audit \/ (gw # "done" /\ audit'.reason = "error")
           /\ loop' \in {"receiving", "stopped"}
           /\ loop' = "stopped" => gw' = "done"
           /\ link = "up" => UNCHANGED <<gw, out, audit>>
<1>1. CASE link = "closed"
  <2>1. Finish("error") /\ loop' = "stopped" /\ toAgent' = toAgent /\ ending' = ending
    BY <1>1 DEF Forward
  <2>2. "error" \in Reasons
    BY DEF Reasons
  <2>3. /\ gw' = "done" /\ out' \in Seq(Messages) /\ Len(out') <= QueueMax
        /\ out' = out \/ Empty(out')
        /\ audit' \in Audits
        /\ audit' = audit \/ (gw # "done" /\ audit'.reason = "error")
    BY <2>1, <2>2, FinishShape DEF Empty
  <2> QED BY <1>1, <2>1, <2>3, SameRefl DEF TypeOK, GatewayTypes, AgentTypes, LinkTypes
<1>2. CASE link # "closed"
  BY <1>2, SendShape DEF Forward, TypeOK, GatewayTypes, AgentTypes, LinkTypes
<1> QED BY <1>1, <1>2

LEMMA OfferShape ==
    ASSUME TypeOK, NEW m \in Messages, Offer(m)
    PROVE  /\ toAgent' \in Seq(Messages)
           /\ \A c : Same(toAgent', toAgent, c)
           /\ ending' \in [Tasks -> Reasons \cup {NoEnd}]
           /\ ending'["desktop"] = ending["desktop"]
           /\ out' \in Seq(Messages) /\ Len(out') <= QueueMax
           /\ UNCHANGED <<gw, audit>>
           /\ \/ out' = Append(out, m) /\ ending' = ending
              \/ out' = out /\ ending'["agent"] = "error"
<1>1. CASE Len(out) < QueueMax
  <2>1. out \in Seq(Messages) /\ Len(Append(out, m)) = Len(out) + 1
    BY LenProperties DEF TypeOK, GatewayTypes, AgentTypes, LinkTypes
  <2>2. Append(out, m) \in Seq(Messages) /\ Len(out) \in Nat
    BY <2>1, SeqAppend
  <2>3. out' = Append(out, m) /\ UNCHANGED <<gw, audit, ending, toAgent>>
    BY <1>1 DEF Offer
  <2>4. out' \in Seq(Messages) /\ Len(out') <= QueueMax
    BY <1>1, <2>1, <2>2, <2>3, PortForwardAssumption
  <2>5. \A c : Same(toAgent', toAgent, c)
    BY <2>3, SameRefl
  <2>6. toAgent' \in Seq(Messages) /\ ending' \in [Tasks -> Reasons \cup {NoEnd}]
    BY <2>3 DEF TypeOK, GatewayTypes, AgentTypes, LinkTypes
  <2> QED BY <2>3, <2>4, <2>5, <2>6
<1>2. CASE ~(Len(out) < QueueMax)
  <2>1. "agent" \in Tasks /\ "error" \in Reasons /\ CloseWithReason("agent", "error")
    BY <1>2 DEF Offer, ProtocolError, Tasks, Reasons
  <2>2. /\ toAgent' \in Seq(Messages)
        /\ \A c : Same(toAgent', toAgent, c)
        /\ ending' = [ending EXCEPT !["agent"] = "error"]
        /\ ending' \in [Tasks -> Reasons \cup {NoEnd}]
        /\ UNCHANGED <<gw, out, audit>>
    BY <2>1, CloseShape
  <2> QED BY <2>1, <2>2 DEF TypeOK, GatewayTypes, AgentTypes, LinkTypes, Tasks
<1> QED BY <1>1, <1>2

LEMMA ExpectShape ==
    ASSUME TypeOK, NEW m \in Messages, NEW ok \in BOOLEAN, Expect(ok, m)
    PROVE  /\ toAgent' \in Seq(Messages)
           /\ \A c : Same(toAgent', toAgent, c)
           /\ ending' \in [Tasks -> Reasons \cup {NoEnd}]
           /\ ending'["desktop"] = ending["desktop"]
           /\ out' \in Seq(Messages) /\ Len(out') <= QueueMax
           /\ UNCHANGED <<gw, audit>>
           /\ \/ ok /\ out' = Append(out, m) /\ ending' = ending
              \/ out' = out /\ ending'["agent"] = "error"
<1>1. CASE ok
  BY <1>1, OfferShape DEF Expect
<1>2. CASE ~ok
  <2>1. "agent" \in Tasks /\ "error" \in Reasons /\ CloseWithReason("agent", "error")
    BY <1>2 DEF Expect, ProtocolError, Tasks, Reasons
  <2>2. /\ toAgent' \in Seq(Messages)
        /\ \A c : Same(toAgent', toAgent, c)
        /\ ending' = [ending EXCEPT !["agent"] = "error"]
        /\ ending' \in [Tasks -> Reasons \cup {NoEnd}]
        /\ UNCHANGED <<gw, out, audit>>
    BY <2>1, CloseShape
  <2> QED BY <2>1, <2>2 DEF TypeOK, GatewayTypes, AgentTypes, LinkTypes, Tasks
<1> QED BY <1>1, <1>2

LEMMA FrameShape ==
    ASSUME TypeOK, NEW k, Frame(k)
    PROVE  /\ toGateway # <<>> /\ toGateway \in Seq(Messages)
           /\ Head(toGateway) \in Messages /\ Head(toGateway).kind = k
           /\ toGateway' = Tail(toGateway) /\ toGateway' \in Seq(Messages)
           /\ link # "closed" /\ ending["agent"] = NoEnd
           /\ \A c : Other(Head(toGateway), c) => Same(toGateway', toGateway, c)
<1>1. toGateway \in Seq(Messages)
  BY DEF TypeOK, GatewayTypes, AgentTypes, LinkTypes
<1> QED BY <1>1, SeqTail, SameTail DEF Frame

LEMMA TakeShape ==
    ASSUME TypeOK, NEW k, Take(k)
    PROVE  /\ toAgent # <<>> /\ toAgent \in Seq(Messages)
           /\ Head(toAgent) \in Messages /\ Head(toAgent).kind = k
           /\ toAgent' = Tail(toAgent) /\ toAgent' \in Seq(Messages)
           /\ link = "up" /\ aloop = "idle"
           /\ \A c : Other(Head(toAgent), c) => Same(toAgent', toAgent, c)
<1>1. toAgent \in Seq(Messages)
  BY DEF TypeOK, GatewayTypes, AgentTypes, LinkTypes
<1> QED BY <1>1, SeqTail, SameTail DEF Take, LoopReady


LEMMA HasEndViews ==
    /\ ~HasEnd(<<>>)
    /\ \A q \in Seq(Messages), m \in Messages :
          m.kind # "end" /\ HasEnd(Append(q, m)) => HasEnd(q)
    /\ \A q \in Seq(Messages) : q # <<>> =>
          /\ HasEnd(Tail(q)) => HasEnd(q)
          /\ Head(q).kind = "end" => HasEnd(q)
<1>1. ~HasEnd(<<>>)
  BY DEF HasEnd
<1>2. ASSUME NEW q \in Seq(Messages), NEW m \in Messages, m.kind # "end",
             HasEnd(Append(q, m))
      PROVE  HasEnd(q)
  <2>1. /\ DOMAIN Append(q, m) = 1..(Len(q) + 1) /\ DOMAIN q = 1..Len(q)
        /\ Len(q) \in Nat
    BY AppendProperties, LenProperties
  <2>2. /\ \A i \in 1..Len(q) : Append(q, m)[i] = q[i]
        /\ Append(q, m)[Len(q) + 1] = m
    BY SeqAppend
  <2>3. PICK i \in 1..(Len(q) + 1) : Append(q, m)[i].kind = "end"
    BY <1>2, <2>1 DEF HasEnd
  <2>4. i \in 1..Len(q)
    BY <1>2, <2>1, <2>2, <2>3
  <2> QED BY <2>1, <2>2, <2>3, <2>4 DEF HasEnd
<1>3. ASSUME NEW q \in Seq(Messages), q # <<>>
      PROVE  /\ HasEnd(Tail(q)) => HasEnd(q)
             /\ Head(q).kind = "end" => HasEnd(q)
  <2>1. /\ Tail(q) \in Seq(Messages) /\ Len(Tail(q)) = Len(q) - 1
        /\ \A i \in 1..Len(Tail(q)) : Tail(q)[i] = q[i + 1]
        /\ Len(q) \in Nat \ {0} /\ DOMAIN q = 1..Len(q)
        /\ DOMAIN Tail(q) = 1..Len(Tail(q))
    BY <1>3, HeadTailProperties, LenProperties, EmptySeq
  <2>2. Head(q) = q[1]
    BY <1>3, SeqTail
  <2>3. \A i \in 1..(Len(q) - 1) : i + 1 \in 1..Len(q)
    BY <2>1
  <2>4. HasEnd(Tail(q)) => HasEnd(q)
    BY <2>1, <2>3 DEF HasEnd
  <2>5. 1 \in DOMAIN q
    BY <2>1
  <2> QED BY <2>2, <2>4, <2>5 DEF HasEnd
<1> QED BY <1>1, <1>2, <1>3

LEMMA EmitShape ==
    ASSUME TypeOK, NEW m \in Messages, Emit(<<m>>)
    PROVE  /\ toGateway' \in Seq(Messages)
           /\ toGateway' = IF link = "up" THEN Append(toGateway, m) ELSE toGateway
           /\ \A c : Other(m, c) => Same(toGateway', toGateway, c)
           /\ m.kind # "end" /\ HasEnd(toGateway') => HasEnd(toGateway)
<1>1. toGateway \in Seq(Messages)
  BY DEF TypeOK, GatewayTypes, AgentTypes, LinkTypes
<1>2. toGateway' = IF link = "up" THEN Append(toGateway, m) ELSE toGateway
  BY <1>1, ConcatAppend DEF Emit
<1>3. toGateway' \in Seq(Messages) /\ \A c : Other(m, c) => Same(toGateway', toGateway, c)
  BY <1>1, <1>2, SeqAppend, SameAppend, SameRefl
<1>4. m.kind # "end" /\ HasEnd(toGateway') => HasEnd(toGateway)
  BY <1>1, <1>2, HasEndViews
<1> QED BY <1>2, <1>3, <1>4

\* What FinishConnection leaves of the agent's socket: at most a frame that
\* is not counted (an error, a half close) and at most one of data.
Trailing(c) ==
    /\ toGateway' \in Seq(Messages)
    /\ \A e : e # c => Same(toGateway', toGateway, e)
    /\ Count(toGateway', "connection_end", c) = Count(toGateway, "connection_end", c)
    /\ HasEnd(toGateway') => HasEnd(toGateway)

LEMMA TrailingRefl ==
    ASSUME TypeOK, toGateway' = toGateway, NEW c PROVE Trailing(c)
  BY SameRefl DEF Trailing, TypeOK, GatewayTypes, AgentTypes, LinkTypes

\* A frame that counts for no connection.
Plain(m) == m \in Messages /\ m.kind # "end" /\ \A e : Other(m, e)

LEMMA PlainFrames ==
    ASSUME NEW c \in Conns
    PROVE  /\ Plain(Session("error")) /\ Plain(Session("opened"))
           /\ Plain(Msg("half_close", c, 0))
  BY AnyoneType DEF Plain, Session, Msg, Other, Kinds, Messages

LEMMA TrailingAppend ==
    ASSUME NEW q \in Seq(Messages), NEW m \in Messages, NEW c \in Conns,
           m.kind \notin {"end", "connection_end"}, \A e : e # c => Other(m, e)
    PROVE  /\ Append(q, m) \in Seq(Messages)
           /\ \A e : e # c => Same(Append(q, m), q, e)
           /\ Count(Append(q, m), "connection_end", c) = Count(q, "connection_end", c)
           /\ HasEnd(Append(q, m)) => HasEnd(q)
<1>1. Count(q, "connection_end", c) \in Nat
  BY IndicesType
<1>2. Count(Append(q, m), "connection_end", c) = Count(q, "connection_end", c)
  BY <1>1, CountAppend DEF One
<1> QED BY <1>2, SeqAppend, SameAppend, HasEndViews

LEMMA FinishConnectionShape ==
    ASSUME TypeOK, NEW c \in Conns, a[c].reader = "emitting" => a[c].t > 0,
           NEW by, NEW ms, ms = <<>> \/ \E m : Plain(m) /\ ms = <<m>>,
           FinishConnection(c, by, ms)
    PROVE  /\ Trailing(c)
           /\ a' = [a EXCEPT ![c].st = "ending", ![c].by = by, ![c].reader = "off"]
           /\ tcp' = tcp \ {c}
<1> DEFINE f == Msg("data", c, a[c].t - 1)
<1>0. toGateway \in Seq(Messages)
  BY DEF TypeOK, GatewayTypes, AgentTypes, LinkTypes
<1>1. PICK frame \in Unsent(c, by) : Emit(ms \o frame)
  BY DEF FinishConnection
<1>2. /\ a' = [a EXCEPT ![c].st = "ending", ![c].by = by, ![c].reader = "off"]
      /\ tcp' = tcp \ {c}
  BY DEF FinishConnection
<1>3. frame = <<>> \/ (frame = <<f>> /\ f \in Messages /\ f.kind = "data"
                       /\ \A e : e # c => Other(f, e))
  <2>1. CASE frame = <<>>
    BY <2>1
  <2>2. CASE frame # <<>>
    <3>1. frame = <<f>> /\ a[c].reader = "emitting"
      BY <1>1, <2>2 DEF Unsent
    <3>2. a[c].t - 1 \in Nat
      <4>1. a[c].t \in Nat /\ a[c].t > 0
        BY <3>1, FieldTypes DEF Fields
      <4> QED BY <4>1
    <3>3. "data" \in Kinds
      BY DEF Kinds
    <3>4. f \in Messages /\ f.kind = "data" /\ \A e : e # c => Other(f, e)
      BY <3>2, <3>3, FrameType
    <3> QED BY <3>1, <3>4
  <2> QED BY <2>1, <2>2
<1> HIDE DEF f
<1>4. CASE link # "up"
  <2>1. toGateway' = toGateway
    BY <1>1, <1>4 DEF Emit
  <2> QED BY <1>2, <2>1, TrailingRefl
<1>5. CASE link = "up"
  <2>1. toGateway' = toGateway \o (ms \o frame)
    BY <1>1, <1>5 DEF Emit
  <2>2. CASE ms = <<>> /\ frame = <<>>
    <3>1. toGateway' = toGateway
      BY <1>0, <2>1, <2>2, ConcatEmptySeq
    <3> QED BY <1>2, <3>1, TrailingRefl
  <2>3. CASE ms = <<>> /\ frame = <<f>> /\ f \in Messages
    <3>1. toGateway' = Append(toGateway, f)
      BY <1>0, <2>1, <2>3, ConcatAppend
    <3>2. f.kind \notin {"end", "connection_end"} /\ \A e : e # c => Other(f, e)
      BY <1>3, <2>3
    <3>3. Trailing(c)
      BY <1>0, <2>3, <3>1, <3>2, TrailingAppend DEF Trailing
    <3> QED BY <1>2, <3>3
  <2>4. ASSUME NEW m, Plain(m), ms = <<m>>, frame = <<>> PROVE Trailing(c)
    <3>1. toGateway' = Append(toGateway, m) /\ m \in Messages
      BY <1>0, <2>1, <2>4, ConcatAppend DEF Plain
    <3>2. m.kind # "end" /\ \A e : Other(m, e)
      BY <2>4 DEF Plain
    <3>3. Count(toGateway', "connection_end", c) = Count(toGateway, "connection_end", c)
      BY <1>0, <3>1, <3>2, SameAppend DEF Same, Kinds
    <3> QED BY <1>0, <3>1, <3>2, <3>3, SeqAppend, SameAppend, HasEndViews DEF Trailing
  <2>5. ASSUME NEW m, Plain(m), ms = <<m>>, frame = <<f>>, f \in Messages
        PROVE  Trailing(c)
    <3>1. /\ m \in Messages /\ m.kind # "end" /\ \A e : Other(m, e)
          /\ f.kind \notin {"end", "connection_end"} /\ \A e : e # c => Other(f, e)
      BY <1>3, <2>5 DEF Plain
    <3>2. toGateway' = Append(Append(toGateway, m), f)
      BY <1>0, <2>1, <2>5, <3>1, ConcatAppend
    <3>3. Append(toGateway, m) \in Seq(Messages)
      BY <1>0, <3>1, SeqAppend
    <3>4. \A e : Same(Append(toGateway, m), toGateway, e)
      BY <1>0, <3>1, SameAppend
    <3>5. HasEnd(Append(toGateway, m)) => HasEnd(toGateway)
      BY <1>0, <3>1, HasEndViews
    <3>6. Count(Append(toGateway, m), "connection_end", c)
            = Count(toGateway, "connection_end", c)
      BY <3>4 DEF Same, Kinds
    <3>7. /\ toGateway' \in Seq(Messages)
          /\ \A e : e # c => Same(toGateway', Append(toGateway, m), e)
          /\ Count(toGateway', "connection_end", c)
               = Count(Append(toGateway, m), "connection_end", c)
          /\ HasEnd(toGateway') => HasEnd(Append(toGateway, m))
      BY <2>5, <3>1, <3>2, <3>3, TrailingAppend
    <3> QED BY <3>4, <3>5, <3>6, <3>7, SameTrans DEF Trailing
  <2> QED BY <1>2, <1>3, <2>2, <2>3, <2>4, <2>5
<1> QED BY <1>4, <1>5 DEF TypeOK, GatewayTypes, AgentTypes, LinkTypes

-----------------------------------------------------------------------------
(* Types. *)

LEMMA TypesKept ==
    ASSUME TypeOK
    PROVE  /\ UNCHANGED gatewayVars => GatewayTypes'
           /\ UNCHANGED agentVars => AgentTypes'
           /\ UNCHANGED deskVars => DesktopTypes'
<1>1. UNCHANGED gatewayVars => GatewayTypes'
  BY DEF TypeOK, GatewayTypes, gatewayVars
<1>2. UNCHANGED agentVars => AgentTypes'
  BY DEF TypeOK, AgentTypes, agentVars, tableVars
<1>3. UNCHANGED deskVars => DesktopTypes'
  BY DEF TypeOK, DesktopTypes, deskVars
<1> QED BY <1>1, <1>2, <1>3

LEMMA ConnTypes ==
    ASSUME TypeOK, NEW c \in Conns
    PROVE  g[c] \in GatewayConns /\ a[c] \in AgentConns /\ desk[c] \in DesktopConns
  BY DEF TypeOK, GatewayTypes, AgentTypes, DesktopTypes

\* The gateway's side of its handlers: what is left of the type invariant when
\* the queue, the session and its end are known to be right.
GatewayRest ==
    /\ out' \in Seq(Messages) /\ Len(out') <= QueueMax
    /\ gw' \in {"absent", "auditing", "open", "done", "refused"}
    /\ ending' \in [Tasks -> Reasons \cup {NoEnd}]
    /\ loop' \in {"off", "opening", "receiving", "stopped"}
    /\ audit' \in Audits

LEMMA GatewayKept ==
    ASSUME TypeOK, GatewayRest, opened' \in BOOLEAN, UNCHANGED <<g, total>>
    PROVE  GatewayTypes'
  BY DEF TypeOK, GatewayTypes, GatewayRest

LEMMA ForwardTypes ==
    ASSUME TypeOK, NEW m \in Messages, Forward(m)
    PROVE  GatewayRest /\ toAgent' \in Seq(Messages)
<1>1. gw \in {"absent", "auditing", "open", "done", "refused"}
      /\ ending \in [Tasks -> Reasons \cup {NoEnd}]
  BY DEF TypeOK, GatewayTypes
<1> QED BY <1>1, ForwardShape DEF GatewayRest

LEMMA CloseTypes ==
    ASSUME TypeOK, NEW k \in Tasks, NEW r \in Reasons, CloseWithReason(k, r),
           UNCHANGED loop
    PROVE  GatewayRest /\ toAgent' \in Seq(Messages)
<1>1. /\ out \in Seq(Messages) /\ Len(out) <= QueueMax
      /\ gw \in {"absent", "auditing", "open", "done", "refused"}
      /\ loop \in {"off", "opening", "receiving", "stopped"}
      /\ audit \in Audits
  BY DEF TypeOK, GatewayTypes
<1> QED BY <1>1, CloseShape DEF GatewayRest

LEMMA ErrorTypes ==
    ASSUME TypeOK, NEW k \in Tasks, ProtocolError(k), UNCHANGED loop
    PROVE  GatewayRest /\ toAgent' \in Seq(Messages)
  BY CloseTypes DEF ProtocolError, Reasons

LEMMA ExpectTypes ==
    ASSUME TypeOK, NEW m \in Messages, NEW ok \in BOOLEAN,
           Expect(ok, m) \/ Offer(m), UNCHANGED loop
    PROVE  GatewayRest /\ toAgent' \in Seq(Messages)
<1>1. /\ gw \in {"absent", "auditing", "open", "done", "refused"}
      /\ loop \in {"off", "opening", "receiving", "stopped"}
      /\ audit \in Audits
  BY DEF TypeOK, GatewayTypes
<1> QED BY <1>1, ExpectShape, OfferShape DEF GatewayRest

LEMMA FinishTypes ==
    ASSUME TypeOK, NEW r \in Reasons, Finish(r), UNCHANGED <<ending, loop>>
    PROVE  GatewayRest
<1>1. /\ ending \in [Tasks -> Reasons \cup {NoEnd}]
      /\ loop \in {"off", "opening", "receiving", "stopped"}
  BY DEF TypeOK, GatewayTypes
<1> QED BY <1>1, FinishShape DEF GatewayRest

\* The steps that change one connection's record.
LEMMA RecordTypes ==
    ASSUME TypeOK, NEW c \in Conns
    PROVE  /\ \A s \in {"none", "pending", "open", "ended"} :
                 [g EXCEPT ![c].st = s] \in [Conns -> GatewayConns]
           /\ [g EXCEPT ![c].closing = TRUE] \in [Conns -> GatewayConns]
           /\ \A n \in Nat : g[c].dCredit + n <= Window =>
                 [g EXCEPT ![c].dCredit = @ + n] \in [Conns -> GatewayConns]
           /\ g[c].tCredit < Window =>
                 [g EXCEPT ![c].tCredit = @ + 1] \in [Conns -> GatewayConns]
           /\ g[c].dCredit > 0 /\ g[c].d < ByteLimit =>
                 [g EXCEPT ![c].dCredit = @ - 1, ![c].d = @ + 1] \in [Conns -> GatewayConns]
           /\ g[c].tCredit > 0 /\ g[c].t < ByteLimit =>
                 [g EXCEPT ![c].tCredit = @ - 1, ![c].t = @ + 1] \in [Conns -> GatewayConns]
<1>0. g \in [Conns -> GatewayConns] /\ g[c] \in GatewayConns
      /\ Window \in Nat /\ ByteLimit \in Nat
  BY ConnTypes, PortForwardAssumption DEF TypeOK, GatewayTypes
<1>1. \A s \in {"none", "pending", "open", "ended"} :
         [g EXCEPT ![c].st = s] \in [Conns -> GatewayConns]
  BY <1>0 DEF GatewayConns
<1>2. [g EXCEPT ![c].closing = TRUE] \in [Conns -> GatewayConns]
  BY <1>0 DEF GatewayConns
<1>3. \A n \in Nat : g[c].dCredit + n <= Window =>
         [g EXCEPT ![c].dCredit = @ + n] \in [Conns -> GatewayConns]
  BY <1>0 DEF GatewayConns
<1>4. g[c].tCredit < Window =>
         [g EXCEPT ![c].tCredit = @ + 1] \in [Conns -> GatewayConns]
  BY <1>0 DEF GatewayConns
<1>5. g[c].dCredit > 0 /\ g[c].d < ByteLimit =>
         [g EXCEPT ![c].dCredit = @ - 1, ![c].d = @ + 1] \in [Conns -> GatewayConns]
  <2>1. \A x \in 0..Window, y \in 0..ByteLimit :
           [g EXCEPT ![c].dCredit = x, ![c].d = y] \in [Conns -> GatewayConns]
    BY <1>0 DEF GatewayConns
  <2>2. g[c].dCredit \in 0..Window /\ g[c].d \in 0..ByteLimit
    BY <1>0 DEF GatewayConns
  <2>3. g[c].dCredit > 0 /\ g[c].d < ByteLimit =>
           g[c].dCredit - 1 \in 0..Window /\ g[c].d + 1 \in 0..ByteLimit
    BY <1>0, <2>2
  <2> QED BY <2>1, <2>3
<1>6. g[c].tCredit > 0 /\ g[c].t < ByteLimit =>
         [g EXCEPT ![c].tCredit = @ - 1, ![c].t = @ + 1] \in [Conns -> GatewayConns]
  <2>1. \A x \in 0..Window, y \in 0..ByteLimit :
           [g EXCEPT ![c].tCredit = x, ![c].t = y] \in [Conns -> GatewayConns]
    BY <1>0 DEF GatewayConns
  <2>2. g[c].tCredit \in 0..Window /\ g[c].t \in 0..ByteLimit
    BY <1>0 DEF GatewayConns
  <2>3. g[c].tCredit > 0 /\ g[c].t < ByteLimit =>
           g[c].tCredit - 1 \in 0..Window /\ g[c].t + 1 \in 0..ByteLimit
    BY <1>0, <2>2
  <2> QED BY <2>1, <2>3
<1> QED BY <1>1, <1>2, <1>3, <1>4, <1>5, <1>6

LEMMA DeskTypes ==
    ASSUME TypeOK, NEW c \in Conns
    PROVE  /\ \A s \in {"asked", "open", "closing", "ended"} :
                 [desk EXCEPT ![c].st = s] \in [Conns -> DesktopConns]
           /\ [desk EXCEPT ![c].half = TRUE] \in [Conns -> DesktopConns]
           /\ desk[c].owed > 0 =>
                 [desk EXCEPT ![c].owed = @ - 1] \in [Conns -> DesktopConns]
           /\ desk[c].credit > 0 /\ desk[c].sent < MaxFrames =>
                 [desk EXCEPT ![c].credit = @ - 1, ![c].sent = @ + 1] \in [Conns -> DesktopConns]
           /\ \A n \in Nat : desk[c].credit + n <= Window =>
                 [desk EXCEPT ![c].credit = @ + n] \in [Conns -> DesktopConns]
           /\ [desk EXCEPT ![c].got = @ + 1, ![c].owed = @ + 1] \in [Conns -> DesktopConns]
<1>0. desk \in [Conns -> DesktopConns] /\ desk[c] \in DesktopConns
      /\ Window \in Nat /\ MaxFrames \in Nat
  BY ConnTypes, PortForwardAssumption DEF TypeOK, DesktopTypes
<1>1. \A s \in {"asked", "open", "closing", "ended"} :
         [desk EXCEPT ![c].st = s] \in [Conns -> DesktopConns]
  BY <1>0 DEF DesktopConns
<1>2. [desk EXCEPT ![c].half = TRUE] \in [Conns -> DesktopConns]
  BY <1>0 DEF DesktopConns
<1>3. desk[c].owed > 0 => [desk EXCEPT ![c].owed = @ - 1] \in [Conns -> DesktopConns]
  BY <1>0 DEF DesktopConns
<1>4. desk[c].credit > 0 /\ desk[c].sent < MaxFrames =>
         [desk EXCEPT ![c].credit = @ - 1, ![c].sent = @ + 1] \in [Conns -> DesktopConns]
  <2>1. \A x \in 0..Window, y \in 0..MaxFrames :
           [desk EXCEPT ![c].credit = x, ![c].sent = y] \in [Conns -> DesktopConns]
    BY <1>0 DEF DesktopConns
  <2>2. desk[c].credit \in 0..Window /\ desk[c].sent \in 0..MaxFrames
    BY <1>0 DEF DesktopConns
  <2>3. desk[c].credit > 0 /\ desk[c].sent < MaxFrames =>
           desk[c].credit - 1 \in 0..Window /\ desk[c].sent + 1 \in 0..MaxFrames
    BY <1>0, <2>2
  <2> QED BY <2>1, <2>3
<1>5. \A n \in Nat : desk[c].credit + n <= Window =>
         [desk EXCEPT ![c].credit = @ + n] \in [Conns -> DesktopConns]
  BY <1>0 DEF DesktopConns
<1>6. [desk EXCEPT ![c].got = @ + 1, ![c].owed = @ + 1] \in [Conns -> DesktopConns]
  <2>1. \A x, y \in Nat :
           [desk EXCEPT ![c].got = x, ![c].owed = y] \in [Conns -> DesktopConns]
    BY <1>0 DEF DesktopConns
  <2>2. desk[c].got \in Nat /\ desk[c].owed \in Nat
    BY <1>0 DEF DesktopConns
  <2>3. desk[c].got + 1 \in Nat /\ desk[c].owed + 1 \in Nat
    BY <2>2
  <2> QED BY <2>1, <2>3
<1> QED BY <1>1, <1>2, <1>3, <1>4, <1>5, <1>6

LEMMA AgentRecordTypes ==
    ASSUME TypeOK, NEW c \in Conns
    PROVE  /\ \A by \in {"loop", "reader", "closer"} :
                 [a EXCEPT ![c].st = "ending", ![c].by = by, ![c].reader = "off"]
                   \in [Conns -> AgentConns]
           /\ [a EXCEPT ![c].st = "ended"] \in [Conns -> AgentConns]
           /\ [a EXCEPT ![c].st = "open", ![c].reader = "reading"] \in [Conns -> AgentConns]
           /\ [a EXCEPT ![c].in = @ + 1] \in [Conns -> AgentConns]
           /\ [a EXCEPT ![c].d = @ + 1] \in [Conns -> AgentConns]
           /\ a[c].credit < Window => [a EXCEPT ![c].credit = @ + 1] \in [Conns -> AgentConns]
           /\ [a EXCEPT ![c].dHalf = TRUE] \in [Conns -> AgentConns]
           /\ a[c].credit > 0 /\ a[c].t < MaxFrames =>
                 [a EXCEPT ![c].credit = @ - 1, ![c].t = @ + 1, ![c].reader = "emitting"]
                   \in [Conns -> AgentConns]
           /\ \A r \in {"off", "reading", "dead"} :
                 /\ [a EXCEPT ![c].reader = r] \in [Conns -> AgentConns]
                 /\ [a EXCEPT ![c].tHalf = TRUE, ![c].reader = r] \in [Conns -> AgentConns]
<1>0. a \in [Conns -> AgentConns] /\ a[c] \in AgentConns
      /\ Window \in Nat /\ MaxFrames \in Nat
  BY ConnTypes, PortForwardAssumption DEF TypeOK, AgentTypes
<1>1. \A by \in {"loop", "reader", "closer"} :
         [a EXCEPT ![c].st = "ending", ![c].by = by, ![c].reader = "off"]
           \in [Conns -> AgentConns]
  BY <1>0 DEF AgentConns
<1>2. [a EXCEPT ![c].st = "ended"] \in [Conns -> AgentConns]
  BY <1>0 DEF AgentConns
<1>3. [a EXCEPT ![c].st = "open", ![c].reader = "reading"] \in [Conns -> AgentConns]
  BY <1>0 DEF AgentConns
<1>4. [a EXCEPT ![c].in = @ + 1] \in [Conns -> AgentConns]
  BY <1>0 DEF AgentConns
<1>5. [a EXCEPT ![c].d = @ + 1] \in [Conns -> AgentConns]
  BY <1>0 DEF AgentConns
<1>6. a[c].credit < Window => [a EXCEPT ![c].credit = @ + 1] \in [Conns -> AgentConns]
  BY <1>0 DEF AgentConns
<1>7. [a EXCEPT ![c].dHalf = TRUE] \in [Conns -> AgentConns]
  BY <1>0 DEF AgentConns
<1>8. a[c].credit > 0 /\ a[c].t < MaxFrames =>
         [a EXCEPT ![c].credit = @ - 1, ![c].t = @ + 1, ![c].reader = "emitting"]
           \in [Conns -> AgentConns]
  <2>1. \A x \in 0..Window, y \in 0..MaxFrames :
           [a EXCEPT ![c].credit = x, ![c].t = y, ![c].reader = "emitting"]
             \in [Conns -> AgentConns]
    BY <1>0 DEF AgentConns
  <2>2. a[c].credit \in 0..Window /\ a[c].t \in 0..MaxFrames
    BY <1>0 DEF AgentConns
  <2>3. a[c].credit > 0 /\ a[c].t < MaxFrames =>
           a[c].credit - 1 \in 0..Window /\ a[c].t + 1 \in 0..MaxFrames
    BY <1>0, <2>2
  <2> QED BY <2>1, <2>3
<1>9. \A r \in {"off", "reading", "dead"} :
         /\ [a EXCEPT ![c].reader = r] \in [Conns -> AgentConns]
         /\ [a EXCEPT ![c].tHalf = TRUE, ![c].reader = r] \in [Conns -> AgentConns]
  BY <1>0 DEF AgentConns
<1> QED BY <1>1, <1>2, <1>3, <1>4, <1>5, <1>6, <1>7, <1>8, <1>9

LEMMA DesktopFrames ==
    ASSUME NEW c \in Conns, NEW n \in Nat
    PROVE  /\ Msg("connection_open", c, 0) \in Messages
           /\ Msg("data", c, n) \in Messages
           /\ Msg("window", c, 1) \in Messages
           /\ Msg("half_close", c, 0) \in Messages
           /\ Msg("connection_close", c, 0) \in Messages
           /\ Session("close") \in Messages /\ Session("open") \in Messages
  BY FrameType DEF Kinds

LEMMA TypeDesktop ==
    ASSUME IInv, Desktop
    PROVE  TypeOK'
<1> TypeOK /\ "desktop" \in Tasks /\ "closed" \in Reasons
  BY DEF IInv, Tasks, Reasons
<1>1. agentVars' = agentVars /\ link' = link /\ toGateway' = toGateway /\ opened' = opened
  BY DEF Desktop, OpenConnection, DesktopData, GrantCredit, HalfClose, CloseConnection,
         CloseSession
<1>2. /\ AgentTypes' /\ link' \in {"up", "lost", "closed"}
      /\ toGateway' \in Seq(Messages) /\ opened' \in BOOLEAN
  BY <1>1, TypesKept DEF TypeOK, LinkTypes, GatewayTypes
<1>3. seen \in BOOLEAN /\ told \in BOOLEAN /\ g \in [Conns -> GatewayConns]
      /\ total \in [d : 0..ByteLimit, t : 0..ByteLimit] /\ desk \in [Conns -> DesktopConns]
  BY DEF TypeOK, DesktopTypes, GatewayTypes
<1> SUFFICES /\ GatewayRest /\ toAgent' \in Seq(Messages)
             /\ g' \in [Conns -> GatewayConns]
             /\ total' \in [d : 0..ByteLimit, t : 0..ByteLimit]
             /\ desk' \in [Conns -> DesktopConns] /\ seen' \in BOOLEAN /\ told' \in BOOLEAN
  BY <1>2 DEF TypeOK, GatewayTypes, LinkTypes, DesktopTypes, GatewayRest
<1>4. ASSUME NEW c \in Conns, OpenConnection(c)
      PROVE  /\ GatewayRest /\ toAgent' \in Seq(Messages)
             /\ g' \in [Conns -> GatewayConns] /\ desk' \in [Conns -> DesktopConns]
  <2>1. desk' \in [Conns -> DesktopConns]
    BY <1>4, DeskTypes DEF OpenConnection
  <2>2. CASE opened /\ c \notin Known
    <3>1. GatewayRest /\ toAgent' \in Seq(Messages)
      BY <1>4, <2>2, DesktopFrames, ForwardTypes DEF OpenConnection
    <3>2. g' \in [Conns -> GatewayConns]
      <4>1. g' = [g EXCEPT ![c].st = "pending"]
        BY <1>4, <2>2 DEF OpenConnection
      <4> QED BY <4>1, RecordTypes
    <3> QED BY <2>1, <3>1, <3>2
  <2>3. CASE ~(opened /\ c \notin Known)
    BY <1>3, <1>4, <2>1, <2>3, ErrorTypes DEF OpenConnection
  <2> QED BY <2>2, <2>3
<1>5. ASSUME NEW c \in Conns, DesktopData(c)
      PROVE  /\ GatewayRest /\ toAgent' \in Seq(Messages)
             /\ g' \in [Conns -> GatewayConns] /\ desk' \in [Conns -> DesktopConns]
             /\ total' \in [d : 0..ByteLimit, t : 0..ByteLimit]
  <2>1. desk' \in [Conns -> DesktopConns]
    BY <1>5, DeskTypes DEF DesktopData
  <2>2. CASE /\ total.d < ByteLimit
             /\ g' = [g EXCEPT ![c].dCredit = @ - 1, ![c].d = @ + 1]
             /\ total' = [total EXCEPT !.d = @ + 1]
             /\ Forward(Msg("data", c, desk[c].sent))
             /\ g[c].dCredit > 0
    <3>1. desk[c].sent \in Nat
      BY FieldTypes DEF Fields
    <3>2. GatewayRest /\ toAgent' \in Seq(Messages)
      BY <2>2, <3>1, DesktopFrames, ForwardTypes
    <3>3. g[c].d < ByteLimit
      <4>1. g[c].d <= total.d
        BY DEF IInv, Parts, Holds, Bounds
      <4>2. g[c].d \in Nat /\ total.d \in Nat
        BY FieldTypes DEF Fields
      <4> QED BY <2>2, <4>1, <4>2, PortForwardAssumption
    <3>4. g' \in [Conns -> GatewayConns]
      BY <2>2, <3>3, RecordTypes
    <3>5. total' \in [d : 0..ByteLimit, t : 0..ByteLimit]
      BY <1>3, <2>2, PortForwardAssumption
    <3> QED BY <2>1, <3>2, <3>4, <3>5
  <2>3. CASE CloseWithReason("desktop", "closed") /\ UNCHANGED <<g, total, loop>>
    BY <1>3, <2>1, <2>3, CloseTypes
  <2>4. CASE ProtocolError("desktop") /\ UNCHANGED <<g, total, loop>>
    BY <1>3, <2>1, <2>4, ErrorTypes
  <2> QED BY <1>5, <2>2, <2>3, <2>4 DEF DesktopData
<1>6. ASSUME NEW c \in Conns, GrantCredit(c)
      PROVE  /\ GatewayRest /\ toAgent' \in Seq(Messages)
             /\ g' \in [Conns -> GatewayConns] /\ desk' \in [Conns -> DesktopConns]
  <2>1. desk' \in [Conns -> DesktopConns]
    BY <1>6, DeskTypes DEF GrantCredit
  <2>2. CASE c \in Known /\ g[c].tCredit < Window
    <3>1. GatewayRest /\ toAgent' \in Seq(Messages)
      BY <1>6, <2>2, DesktopFrames, ForwardTypes DEF GrantCredit
    <3>2. g' \in [Conns -> GatewayConns]
      BY <1>6, <2>2, RecordTypes DEF GrantCredit
    <3> QED BY <2>1, <3>1, <3>2
  <2>3. CASE ~(c \in Known /\ g[c].tCredit < Window)
    BY <1>3, <1>6, <2>1, <2>3, ErrorTypes DEF GrantCredit
  <2> QED BY <2>2, <2>3
<1>7. ASSUME NEW c \in Conns, HalfClose(c)
      PROVE  /\ GatewayRest /\ toAgent' \in Seq(Messages)
             /\ desk' \in [Conns -> DesktopConns]
  <2>1. desk' \in [Conns -> DesktopConns]
    BY <1>7, DeskTypes DEF HalfClose
  <2> QED BY <1>7, <2>1, DesktopFrames, ForwardTypes, ErrorTypes DEF HalfClose
<1>8. ASSUME NEW c \in Conns, CloseConnection(c)
      PROVE  /\ GatewayRest /\ toAgent' \in Seq(Messages)
             /\ g' \in [Conns -> GatewayConns] /\ desk' \in [Conns -> DesktopConns]
  <2>1. desk' \in [Conns -> DesktopConns]
    BY <1>8, DeskTypes DEF CloseConnection
  <2>2. CASE c \in Known /\ ~g[c].closing
    <3>1. GatewayRest /\ toAgent' \in Seq(Messages)
      BY <1>8, <2>2, DesktopFrames, ForwardTypes DEF CloseConnection
    <3>2. g' \in [Conns -> GatewayConns]
      <4>1. g' = [g EXCEPT ![c].closing = TRUE]
        BY <1>8, <2>2 DEF CloseConnection
      <4> QED BY <4>1, RecordTypes
    <3> QED BY <2>1, <3>1, <3>2
  <2>3. CASE ~(c \in Known /\ ~g[c].closing)
    BY <1>3, <1>8, <2>1, <2>3, ErrorTypes DEF CloseConnection
  <2> QED BY <2>2, <2>3
<1>9. ASSUME CloseSession
      PROVE  GatewayRest /\ toAgent' \in Seq(Messages) /\ told' \in BOOLEAN
  <2>1. CASE Forward(Session("close")) /\ UNCHANGED told
    BY <1>3, <2>1, AnyoneType, FrameType, ForwardTypes
  <2>2. CASE CloseWithReason("desktop", "closed") /\ UNCHANGED loop /\ told' \in BOOLEAN
    BY <2>2, CloseTypes
  <2>3. CASE /\ loop' = "stopped" /\ told' = TRUE
             /\ UNCHANGED <<gw, out, audit, ending, toAgent>>
    BY <2>3 DEF TypeOK, GatewayTypes, LinkTypes, GatewayRest
  <2> QED BY <1>3, <1>9, <2>1, <2>2, <2>3 DEF CloseSession
<1>10. /\ (\E c \in Conns : OpenConnection(c) \/ GrantCredit(c) \/ CloseConnection(c)) =>
             UNCHANGED <<total, seen, told>>
       /\ (\E c \in Conns : DesktopData(c)) => UNCHANGED <<seen, told>>
       /\ (\E c \in Conns : HalfClose(c)) => UNCHANGED <<g, total, seen, told>>
       /\ CloseSession => UNCHANGED <<g, total, desk, seen>>
  BY DEF OpenConnection, DesktopData, GrantCredit, HalfClose, CloseConnection, CloseSession
<1> QED BY <1>3, <1>4, <1>5, <1>6, <1>7, <1>8, <1>9, <1>10 DEF Desktop

LEMMA TypeAgentLive ==
    ASSUME IInv, AgentLive
    PROVE  TypeOK'
<1> TypeOK /\ "agent" \in Tasks /\ "error" \in Reasons /\ "ended" \in Reasons
    /\ "closed" \in Reasons
  BY DEF IInv, Tasks, Reasons
<1>0. /\ seen \in BOOLEAN /\ told \in BOOLEAN /\ opened \in BOOLEAN
      /\ g \in [Conns -> GatewayConns] /\ total \in [d : 0..ByteLimit, t : 0..ByteLimit]
      /\ link \in {"up", "lost", "closed"}
      /\ toAgent \in Seq(Messages) /\ toGateway \in Seq(Messages)
  BY DEF TypeOK, DesktopTypes, GatewayTypes, LinkTypes
<1>1. agentVars' = agentVars /\ deskVars' = deskVars
  BY DEF AgentLive, FrameOfNoSession, OnOpened, OnEnd, OnError, OnConnectionOpened, OnWindow,
         OnHalfClose, OnConnectionEnd, OnData, AgentDisconnected, FinishAfterClose
<1>2. AgentTypes' /\ DesktopTypes'
  BY <1>1, TypesKept
<1> SUFFICES GatewayTypes' /\ LinkTypes'
  BY <1>2 DEF TypeOK
<1> USE DEF LinkTypes
<1>3. ASSUME NEW k, Frame(k)
      PROVE  /\ toGateway' \in Seq(Messages) /\ Head(toGateway) \in Messages
             /\ Head(toGateway).n \in Nat
  BY <1>3, FrameShape DEF Messages
<1>4. CASE FrameOfNoSession
  <2>1. UNCHANGED <<gatewayVars, link, toAgent>> /\ toGateway' \in Seq(Messages)
    BY <1>3, <1>4 DEF FrameOfNoSession
  <2> QED BY <1>0, <2>1, TypesKept
<1>5. CASE OnOpened
  <2>1. /\ Frame("opened") /\ opened' = TRUE /\ Expect(~opened, Head(toGateway))
        /\ UNCHANGED <<g, total, loop, link>> /\ (~opened) \in BOOLEAN
    BY <1>5 DEF OnOpened
  <2>2. GatewayRest /\ toAgent' \in Seq(Messages)
    BY <1>3, <2>1, ExpectTypes
  <2> QED BY <1>0, <1>3, <2>1, <2>2, GatewayKept
<1>6. CASE OnEnd
  <2>1. Frame("end") /\ UNCHANGED <<opened, g, total, loop, link>>
    BY <1>6 DEF OnEnd
  <2>2. CASE Finish("ended") /\ UNCHANGED <<ending, toAgent>>
    <3>1. GatewayRest
      BY <2>1, <2>2, FinishTypes
    <3> QED BY <1>0, <1>3, <2>1, <2>2, <3>1, GatewayKept
  <2>3. CASE ProtocolError("agent")
    <3>1. GatewayRest /\ toAgent' \in Seq(Messages)
      BY <2>1, <2>3, ErrorTypes
    <3> QED BY <1>0, <1>3, <2>1, <3>1, GatewayKept
  <2> QED BY <1>6, <2>2, <2>3 DEF OnEnd
<1>7. CASE OnError
  <2>1. /\ Frame("error") /\ Finish("error")
        /\ UNCHANGED <<opened, g, total, ending, loop, link, toAgent>>
    BY <1>7 DEF OnError
  <2>2. GatewayRest
    BY <2>1, FinishTypes
  <2> QED BY <1>0, <1>3, <2>1, <2>2, GatewayKept
<1>8. ASSUME NEW c \in Conns, OnConnectionOpened(c) PROVE GatewayTypes' /\ LinkTypes'
  <2>1. /\ Frame("connection_opened") /\ Expect(g[c].st = "pending", Head(toGateway))
        /\ UNCHANGED <<opened, total, loop, link>> /\ (g[c].st = "pending") \in BOOLEAN
    BY <1>8 DEF OnConnectionOpened
  <2>2. GatewayRest /\ toAgent' \in Seq(Messages)
    BY <1>3, <2>1, ExpectTypes
  <2>3. g' \in [Conns -> GatewayConns]
    <3>1. g' = [g EXCEPT ![c].st = IF g[c].st = "pending" THEN "open" ELSE g[c].st]
      BY <1>8 DEF OnConnectionOpened
    <3>2. (IF g[c].st = "pending" THEN "open" ELSE g[c].st)
             \in {"none", "pending", "open", "ended"}
      BY FieldTypes DEF Fields
    <3> QED BY <3>1, <3>2, RecordTypes
  <2> QED BY <1>0, <1>3, <2>1, <2>2, <2>3 DEF GatewayTypes, GatewayRest
<1>9. ASSUME NEW c \in Conns, OnWindow(c) PROVE GatewayTypes' /\ LinkTypes'
  <2> DEFINE n == Head(toGateway).n
             ok == c \in Known /\ g[c].dCredit + n <= Window
  <2>1. /\ Frame("window") /\ Expect(ok, Head(toGateway))
        /\ UNCHANGED <<opened, total, loop, link>> /\ ok \in BOOLEAN
    BY <1>9 DEF OnWindow
  <2>2. GatewayRest /\ toAgent' \in Seq(Messages)
    BY <1>3, <2>1, ExpectTypes
  <2>3. g' \in [Conns -> GatewayConns]
    <3>1. g' = IF ok THEN [g EXCEPT ![c].dCredit = @ + n] ELSE g
      BY <1>9 DEF OnWindow
    <3>2. n \in Nat
      BY <1>3, <2>1
    <3>3. CASE ok
      <4>1. g' = [g EXCEPT ![c].dCredit = @ + n] /\ g[c].dCredit + n <= Window
        BY <3>1, <3>3
      <4> HIDE DEF n
      <4> QED BY <3>2, <4>1, RecordTypes
    <3> QED BY <1>0, <3>1, <3>3
  <2> QED BY <1>0, <1>3, <2>1, <2>2, <2>3 DEF GatewayTypes, GatewayRest
<1>10. ASSUME NEW c \in Conns, OnHalfClose(c) PROVE GatewayTypes' /\ LinkTypes'
  <2>1. /\ Frame("half_close") /\ Expect(c \in Known, Head(toGateway))
        /\ UNCHANGED <<opened, g, total, loop, link>> /\ (c \in Known) \in BOOLEAN
    BY <1>10 DEF OnHalfClose
  <2>2. GatewayRest /\ toAgent' \in Seq(Messages)
    BY <1>3, <2>1, ExpectTypes
  <2> QED BY <1>0, <1>3, <2>1, <2>2, GatewayKept
<1>11. ASSUME NEW c \in Conns, OnConnectionEnd(c) PROVE GatewayTypes' /\ LinkTypes'
  <2> DEFINE ok == /\ c \in Known
                   /\ Head(toGateway).n = g[c].d /\ Head(toGateway).m = g[c].t
  <2>1. /\ Frame("connection_end") /\ Expect(ok, Head(toGateway))
        /\ UNCHANGED <<opened, total, loop, link>> /\ ok \in BOOLEAN
        /\ g' = IF ok THEN [g EXCEPT ![c].st = "ended"] ELSE g
    BY <1>11 DEF OnConnectionEnd
  <2> HIDE DEF ok
  <2>2. GatewayRest /\ toAgent' \in Seq(Messages)
    BY <1>3, <2>1, ExpectTypes
  <2>3. g' \in [Conns -> GatewayConns]
    BY <1>0, <2>1, RecordTypes
  <2> QED BY <1>0, <1>3, <2>1, <2>2, <2>3 DEF GatewayTypes, GatewayRest
<1>12. ASSUME NEW c \in Conns, OnData(c) PROVE GatewayTypes' /\ LinkTypes'
  <2>1. /\ Frame("data") /\ UNCHANGED <<opened, loop, link>>
    BY <1>12 DEF OnData
  <2>2. CASE ProtocolError("agent") /\ UNCHANGED <<g, total>>
    <3>1. GatewayRest /\ toAgent' \in Seq(Messages)
      BY <2>1, <2>2, ErrorTypes
    <3> QED BY <1>0, <1>3, <2>1, <2>2, <3>1, GatewayKept
  <2>3. CASE Finish("closed") /\ UNCHANGED <<g, total, ending, toAgent>>
    <3>1. GatewayRest
      BY <2>1, <2>3, FinishTypes
    <3> QED BY <1>0, <1>3, <2>1, <2>3, <3>1, GatewayKept
  <2>4. CASE /\ g[c].tCredit > 0 /\ ~(total.t >= ByteLimit)
             /\ g' = [g EXCEPT ![c].tCredit = @ - 1, ![c].t = @ + 1]
             /\ total' = [total EXCEPT !.t = @ + 1]
             /\ Offer(Head(toGateway))
    <3>1. GatewayRest /\ toAgent' \in Seq(Messages)
      BY <1>3, <2>1, <2>4, ExpectTypes
    <3>2. g[c].t < ByteLimit /\ total' \in [d : 0..ByteLimit, t : 0..ByteLimit]
      <4>1. g[c].t <= total.t
        BY DEF IInv, Parts, Holds, Bounds
      <4>2. g[c].t \in Nat /\ total.t \in Nat /\ ByteLimit \in Nat
        BY FieldTypes, PortForwardAssumption DEF Fields
      <4>3. total.t + 1 \in 0..ByteLimit
        BY <2>4, <4>2
      <4>4. total' \in [d : 0..ByteLimit, t : 0..ByteLimit]
        BY <1>0, <2>4, <4>3
      <4> QED BY <2>4, <4>1, <4>2, <4>4
    <3>3. g' \in [Conns -> GatewayConns]
      BY <2>4, <3>2, RecordTypes
    <3> QED BY <1>0, <1>3, <2>1, <3>1, <3>2, <3>3 DEF GatewayTypes, GatewayRest
  <2> QED BY <1>12, <2>2, <2>3, <2>4 DEF OnData
<1>13. CASE AgentDisconnected
  <2>1. /\ link' = "closed" /\ toGateway' = <<>>
        /\ UNCHANGED <<opened, g, total, ending, loop, toAgent>>
        /\ Finish("error") \/ UNCHANGED <<gw, out, audit>>
    BY <1>13 DEF AgentDisconnected
  <2>2. CASE Finish("error")
    BY <1>0, <2>1, <2>2, FinishTypes, GatewayKept
  <2>3. CASE UNCHANGED <<gw, out, audit>>
    BY <1>0, <2>1, <2>3, TypesKept DEF gatewayVars
  <2> QED BY <2>1, <2>2, <2>3
<1>14. CASE FinishAfterClose("agent")
  <2>1. ending["agent"] \in Reasons
    BY <1>14 DEF FinishAfterClose, TypeOK, GatewayTypes
  <2>2. /\ Finish(ending["agent"]) /\ ending' = [ending EXCEPT !["agent"] = NoEnd]
        /\ loop' = loop /\ UNCHANGED <<opened, g, total, link, toAgent, toGateway>>
    BY <1>14 DEF FinishAfterClose
  <2>3. /\ gw' = "done" /\ out' \in Seq(Messages) /\ Len(out') <= QueueMax
        /\ audit' \in Audits
    BY <2>1, <2>2, FinishShape
  <2>4. /\ ending' \in [Tasks -> Reasons \cup {NoEnd}]
        /\ loop \in {"off", "opening", "receiving", "stopped"}
    BY <2>2 DEF TypeOK, GatewayTypes
  <2>5. GatewayRest
    BY <2>2, <2>3, <2>4 DEF GatewayRest
  <2> QED BY <1>0, <2>2, <2>5, GatewayKept
<1> QED BY <1>4, <1>5, <1>6, <1>7, <1>8, <1>9, <1>10, <1>11, <1>12, <1>13, <1>14
        DEF AgentLive

LEMMA TypeServeBrowser ==
    ASSUME IInv, Start \/ AuditFails \/ ServeBrowser \/ Timeout \/ LinkLost
    PROVE  TypeOK'
<1> TypeOK /\ "desktop" \in Tasks /\ "closed" \in Reasons
  BY DEF IInv, Tasks, Reasons
<1>0. /\ seen \in BOOLEAN /\ told \in BOOLEAN /\ opened \in BOOLEAN
      /\ desk \in [Conns -> DesktopConns] /\ link \in {"up", "lost", "closed"}
      /\ toAgent \in Seq(Messages) /\ toGateway \in Seq(Messages)
      /\ loop \in {"off", "opening", "receiving", "stopped"}
      /\ out \in Seq(Messages) /\ Len(out) <= QueueMax /\ QueueMax \in Nat
      /\ gw \in {"absent", "auditing", "open", "done", "refused"}
      /\ ending \in [Tasks -> Reasons \cup {NoEnd}] /\ audit \in Audits
  BY PortForwardAssumption DEF TypeOK, DesktopTypes, GatewayTypes, LinkTypes
<1>1. agentVars' = agentVars /\ desk' = desk /\ seen' = seen /\ toGateway' = toGateway
  BY DEF Start, AuditFails, ServeBrowser, Timeout, LinkLost, AuditStarted, OpenAtAgent,
         LoopEnds, Hangup, FinishAfterClose, deskVars
<1>2. AgentTypes'
  BY <1>1, TypesKept
<1> SUFFICES /\ GatewayTypes' /\ toAgent' \in Seq(Messages)
             /\ link' \in {"up", "lost", "closed"} /\ told' \in BOOLEAN
  BY <1>0, <1>1, <1>2 DEF TypeOK, LinkTypes, DesktopTypes
<1>3. CASE Start \/ AuditFails \/ AuditStarted \/ LoopEnds
  <2>1. /\ UNCHANGED <<opened, g, total, out, ending, audit, link, toAgent>>
        /\ gw' \in {gw, "auditing", "refused", "open"}
        /\ loop' \in {loop, "opening", "stopped"} /\ told' \in {told, TRUE}
    BY <1>3 DEF Start, AuditFails, AuditStarted, LoopEnds, deskVars
  <2>2. GatewayRest
    BY <1>0, <2>1 DEF GatewayRest
  <2> QED BY <1>0, <2>1, <2>2, GatewayKept
<1>4. CASE OpenAtAgent
  <2>1. Forward(Session("open")) /\ UNCHANGED <<opened, g, total, link, told>>
    BY <1>4 DEF OpenAtAgent, deskVars
  <2>2. GatewayRest /\ toAgent' \in Seq(Messages)
    BY <2>1, FrameType, ForwardTypes
  <2> QED BY <1>0, <2>1, <2>2, GatewayKept
<1>5. CASE Hangup
  <2>1. /\ UNCHANGED <<gw, opened, g, total, ending, loop, audit, link, toAgent>>
        /\ told' = TRUE /\ out' = <<>>
    BY <1>5 DEF Hangup
  <2>2. GatewayRest
    BY <1>0, <2>1 DEF GatewayRest
  <2> QED BY <1>0, <2>1, <2>2, GatewayKept
<1>6. CASE FinishAfterClose("desktop")
  <2>1. ending["desktop"] \in Reasons
    BY <1>6 DEF FinishAfterClose, TypeOK, GatewayTypes
  <2>2. /\ Finish(ending["desktop"]) /\ ending' = [ending EXCEPT !["desktop"] = NoEnd]
        /\ loop' = "stopped" /\ UNCHANGED <<opened, g, total, link, toAgent, told>>
    BY <1>6 DEF FinishAfterClose, deskVars
  <2>3. /\ gw' = "done" /\ out' \in Seq(Messages) /\ Len(out') <= QueueMax
        /\ audit' \in Audits
    BY <2>1, <2>2, FinishShape
  <2>4. ending' \in [Tasks -> Reasons \cup {NoEnd}]
    BY <1>0, <2>2
  <2>5. GatewayRest
    BY <2>2, <2>3, <2>4 DEF GatewayRest
  <2> QED BY <1>0, <2>2, <2>5, GatewayKept
<1>7. CASE Timeout
  <2>1. /\ CloseWithReason("desktop", "closed")
        /\ UNCHANGED <<opened, g, total, loop, link, told>>
    BY <1>7 DEF Timeout, deskVars
  <2>2. GatewayRest /\ toAgent' \in Seq(Messages)
    BY <2>1, CloseTypes
  <2> QED BY <1>0, <2>1, <2>2, GatewayKept
<1>8. CASE LinkLost
  <2>1. link' = "lost" /\ toAgent' = <<>> /\ UNCHANGED <<gatewayVars, told>>
    BY <1>8 DEF LinkLost, deskVars
  <2> QED BY <1>0, <2>1, TypesKept
<1> QED BY <1>3, <1>4, <1>5, <1>6, <1>7, <1>8 DEF ServeBrowser

LEMMA DeliverShape ==
    ASSUME TypeOK, Deliver
    PROVE  LET m == Head(out)
               c == m.c
           IN  /\ m.kind = "window" => desk' = [desk EXCEPT ![c].credit = @ + m.n]
               /\ m.kind = "data" => desk' = [desk EXCEPT ![c].got = @ + 1, ![c].owed = @ + 1]
               /\ m.kind = "connection_end" => desk' = [desk EXCEPT ![c].st = "ended"]
               /\ m.kind \notin {"window", "data", "connection_end"} =>
                     desk' \in {desk, [desk EXCEPT ![c].st = "open"]}
<1> DEFINE m == Head(out)
           c == m.c
<1> SUFFICES
      /\ m.kind = "window" => desk' = [desk EXCEPT ![c].credit = @ + m.n]
      /\ m.kind = "data" => desk' = [desk EXCEPT ![c].got = @ + 1, ![c].owed = @ + 1]
      /\ m.kind = "connection_end" => desk' = [desk EXCEPT ![c].st = "ended"]
      /\ m.kind \notin {"window", "data", "connection_end"} =>
            desk' \in {desk, [desk EXCEPT ![c].st = "open"]}
  OBVIOUS
<1>1. desk' = CASE m.kind = "connection_opened" /\ desk[c].st = "asked" ->
                      [desk EXCEPT ![c].st = "open"]
               [] m.kind = "window" -> [desk EXCEPT ![c].credit = @ + m.n]
               [] m.kind = "data" ->
                      [desk EXCEPT ![c].got = @ + 1, ![c].owed = @ + 1]
               [] m.kind = "connection_end" -> [desk EXCEPT ![c].st = "ended"]
               [] OTHER -> desk
  BY DEF Deliver
<1> HIDE DEF m, c
<1>2. ASSUME m.kind = "window" PROVE desk' = [desk EXCEPT ![c].credit = @ + m.n]
  BY <1>1, <1>2
<1>3. ASSUME m.kind = "data"
      PROVE  desk' = [desk EXCEPT ![c].got = @ + 1, ![c].owed = @ + 1]
  BY <1>1, <1>3
<1>4. ASSUME m.kind = "connection_end" PROVE desk' = [desk EXCEPT ![c].st = "ended"]
  BY <1>1, <1>4
<1>5. ASSUME m.kind \notin {"window", "data", "connection_end"}
      PROVE  desk' \in {desk, [desk EXCEPT ![c].st = "open"]}
  <2>1. CASE m.kind = "connection_opened" /\ desk[c].st = "asked"
    BY <1>1, <1>5, <2>1
  <2>2. CASE ~(m.kind = "connection_opened" /\ desk[c].st = "asked")
    BY <1>1, <1>5, <2>2
  <2> QED BY <2>1, <2>2
<1> QED BY <1>2, <1>3, <1>4, <1>5

LEMMA TypeDeliver ==
    ASSUME IInv, Deliver
    PROVE  TypeOK'
<1> TypeOK
  BY DEF IInv
<1> DEFINE m == Head(out)
           c == m.c
<1>1. out # <<>> /\ out \in Seq(Messages) /\ Len(out) <= QueueMax
  BY DEF Deliver, TypeOK, GatewayTypes
<1>2. m \in Messages /\ c \in Conns /\ m.n \in Nat
      /\ out' = Tail(out) /\ Tail(out) \in Seq(Messages)
  BY <1>1, SeqTail DEF Deliver, Messages
<1>3. Len(out') <= QueueMax
  <2>1. Len(Tail(out)) = Len(out) - 1 /\ Len(out) \in Nat /\ QueueMax \in Nat
    BY <1>1, HeadTailProperties, LenProperties, PortForwardAssumption
  <2> QED BY <1>1, <1>2, <2>1
<1>4. UNCHANGED <<gw, opened, g, total, ending, loop, audit, agentVars, link,
                  toAgent, toGateway>>
  BY DEF Deliver
<1>5. AgentTypes' /\ LinkTypes'
  BY <1>4, TypesKept DEF TypeOK, LinkTypes
<1>6. GatewayTypes'
  BY <1>2, <1>3, <1>4 DEF TypeOK, GatewayTypes
<1>7. m.kind = "window" => desk[c].credit + m.n <= Window
  <2> SUFFICES ASSUME m.kind = "window" PROVE desk[c].credit + m.n <= Window
    OBVIOUS
  <2>1. desk[c].credit + Credit(out, c) <= g[c].dCredit
    BY <1>2 DEF IInv, Parts, Holds, Bounds
  <2>2. Credit(Tail(out), c) + Grant(m, c) = Credit(out, c) /\ Credit(Tail(out), c) \in Nat
    BY <1>1, <1>2, CreditTail, UnitsType
  <2>3. Grant(m, c) = m.n
    BY DEF Grant
  <2>4. desk[c].credit \in Nat /\ g[c].dCredit \in 0..Window /\ Window \in Nat
    BY <1>2, FieldTypes DEF Fields
  <2>5. m.n \in Nat
    BY <1>2
  <2> HIDE DEF m, c
  <2> QED BY <2>1, <2>2, <2>3, <2>4, <2>5
<1>8. seen' \in BOOLEAN /\ told' \in BOOLEAN
  BY DEF Deliver, TypeOK, DesktopTypes
<1>9. desk \in [Conns -> DesktopConns]
  BY DEF TypeOK, DesktopTypes
<1> HIDE DEF m, c
<1>10. desk' \in [Conns -> DesktopConns]
  <2>1. /\ m.kind = "window" => desk' = [desk EXCEPT ![c].credit = @ + m.n]
        /\ m.kind = "data" => desk' = [desk EXCEPT ![c].got = @ + 1, ![c].owed = @ + 1]
        /\ m.kind = "connection_end" => desk' = [desk EXCEPT ![c].st = "ended"]
        /\ m.kind \notin {"window", "data", "connection_end"} =>
              desk' \in {desk, [desk EXCEPT ![c].st = "open"]}
    BY DeliverShape DEF m, c
  <2>2. CASE m.kind = "window"
    <3>1. desk[c].credit + m.n <= Window /\ m.n \in Nat /\ c \in Conns
      BY <1>2, <1>7, <2>2
    <3>2. [desk EXCEPT ![c].credit = @ + m.n] \in [Conns -> DesktopConns]
      BY <3>1, DeskTypes
    <3> QED BY <2>1, <2>2, <3>2
  <2>3. CASE m.kind = "data"
    <3>1. [desk EXCEPT ![c].got = @ + 1, ![c].owed = @ + 1] \in [Conns -> DesktopConns]
      BY <1>2, DeskTypes
    <3> QED BY <2>1, <2>3, <3>1
  <2>4. CASE m.kind = "connection_end"
    <3>1. [desk EXCEPT ![c].st = "ended"] \in [Conns -> DesktopConns]
      BY <1>2, DeskTypes
    <3> QED BY <2>1, <2>4, <3>1
  <2>5. CASE m.kind \notin {"window", "data", "connection_end"}
    <3>1. [desk EXCEPT ![c].st = "open"] \in [Conns -> DesktopConns]
      BY <1>2, DeskTypes
    <3> QED BY <1>9, <2>1, <2>5, <3>1
  <2> QED BY <2>2, <2>3, <2>4, <2>5
<1> QED BY <1>5, <1>6, <1>8, <1>10 DEF TypeOK, DesktopTypes

\* _finish_connection, whoever runs it.
Finishes(c, by) ==
    \/ FinishConnection(c, by, <<>>) \/ FailConnection(c, by)
    \/ FinishConnection(c, by, <<Msg("half_close", c, 0)>>)

LEMMA EndingShape ==
    ASSUME IInv, NEW c \in Conns, NEW by \in {"loop", "reader", "closer"}, Finishes(c, by)
    PROVE  /\ Trailing(c) /\ toGateway' \in Seq(Messages)
           /\ a' = [a EXCEPT ![c].st = "ending", ![c].by = by, ![c].reader = "off"]
           /\ a' \in [Conns -> AgentConns]
           /\ tcp' \in SUBSET Conns
<1>1. TypeOK /\ (a[c].reader = "emitting" => a[c].t > 0)
  BY DEF IInv, Parts, Holds, Bounds
<1>2. Plain(Session("error")) /\ Plain(Msg("half_close", c, 0))
  BY PlainFrames
<1>3. PICK ms : /\ ms = <<>> \/ \E m : Plain(m) /\ ms = <<m>>
                /\ FinishConnection(c, by, ms)
  BY <1>2 DEF FailConnection, Finishes
<1>4. /\ Trailing(c)
      /\ a' = [a EXCEPT ![c].st = "ending", ![c].by = by, ![c].reader = "off"]
      /\ tcp' = tcp \ {c}
  BY <1>1, <1>3, FinishConnectionShape, Zenon
<1>5. [a EXCEPT ![c].st = "ending", ![c].by = by, ![c].reader = "off"] \in [Conns -> AgentConns]
  BY <1>1, AgentRecordTypes
<1>6. tcp \in SUBSET Conns
  BY <1>1 DEF TypeOK, AgentTypes
<1> QED BY <1>4, <1>5, <1>6 DEF Trailing

\* What the agent's steps leave alone.
AgentOnly == gatewayVars' = gatewayVars /\ deskVars' = deskVars /\ link' = link

LEMMA AgentSteps ==
    ASSUME Loop \/ Watch \/ Closer \/ (\E c \in Conns : SendFrame(c) \/ Target(c))
    PROVE  AgentOnly
<1>1. Loop => AgentOnly
  BY DEF AgentOnly, Loop, Open, Ignore, TcpOpened, TcpRefused, Drained, DrainFails, CloseFrame,
         StreamEnds, OpenTcp, WriteData, TakeCredit, DesktopHalfClosed, CloseTcp
<1>2. Watch \/ Closer => AgentOnly
  BY DEF AgentOnly, Watch, Closer, SessionEnds, CloseNext, EmitConnectionEnd
<1>3. ASSUME NEW c \in Conns, SendFrame(c) \/ Target(c) PROVE AgentOnly
  BY <1>3 DEF AgentOnly, SendFrame, Target, ReadFrame, ReadEof, ReadFails
<1> QED BY <1>1, <1>2, <1>3

LEMMA AgentTypeRest ==
    ASSUME TypeOK, AgentOnly, AgentTypes',
           toAgent' \in Seq(Messages), toGateway' \in Seq(Messages)
    PROVE  TypeOK'
<1>1. GatewayTypes' /\ DesktopTypes' /\ link' \in {"up", "lost", "closed"}
  BY TypesKept DEF AgentOnly, TypeOK, LinkTypes
<1> QED BY <1>1 DEF TypeOK, LinkTypes

LEMMA AgentFrames ==
    ASSUME TypeOK, NEW c \in Conns
    PROVE  /\ Msg("connection_opened", c, 0) \in Messages
           /\ Msg("window", c, Window) \in Messages
           /\ Msg("window", c, 1) \in Messages
           /\ a[c].t > 0 => Msg("data", c, a[c].t - 1) \in Messages
           /\ Receipt("connection_end", c, a[c].d, a[c].t) \in Messages
           /\ Receipt("end", Anyone, atotal.d, atotal.t) \in Messages
<1>1. Window \in Nat /\ a[c].t \in Nat /\ a[c].d \in Nat
  BY FieldTypes DEF Fields
<1>2. atotal.d \in Nat /\ atotal.t \in Nat
  BY DEF TypeOK, AgentTypes
<1>3. a[c].t > 0 => a[c].t - 1 \in Nat
  BY <1>1
<1>4. "connection_opened" \in Kinds /\ "window" \in Kinds /\ "data" \in Kinds
  BY DEF Kinds
<1>5. 0 \in Nat /\ 1 \in Nat /\ Anyone \in Conns
  BY AnyoneType
<1> QED BY <1>1, <1>2, <1>3, <1>4, <1>5, FrameType

LEMMA TypeLoop ==
    ASSUME IInv, Loop
    PROVE  TypeOK'
<1> TypeOK /\ AgentOnly /\ "loop" \in {"loop", "reader", "closer"}
  BY AgentSteps DEF IInv
<1>0. /\ slot \in {"none", "open", "closing", "gone"}
      /\ closer \in {"none", "loop", "watcher", "dead"}
      /\ rest \in SUBSET Conns /\ a \in [Conns -> AgentConns]
      /\ atotal \in [d : Nat, t : Nat] /\ tcp \in SUBSET Conns
      /\ aloop \in {"idle", "connecting", "draining", "stopped"} /\ acur \in Conns
      /\ toAgent \in Seq(Messages) /\ toGateway \in Seq(Messages)
  BY DEF TypeOK, AgentTypes, LinkTypes
<1> SUFFICES AgentTypes' /\ toAgent' \in Seq(Messages) /\ toGateway' \in Seq(Messages)
  BY AgentTypeRest
<1> USE DEF AgentTypes
<1>1. ASSUME NEW k, Take(k) PROVE toAgent' \in Seq(Messages)
  BY <1>1, TakeShape
<1>2. CASE Open
  <2>1. /\ Take("open") /\ slot' \in {slot, "open"}
        /\ Emit(<<Session("opened")>>) \/ Emit(<<Session("error")>>)
        /\ UNCHANGED <<closer, rest, a, atotal, tcp, aloop, acur>>
    BY <1>2 DEF Open
  <2>2. toGateway' \in Seq(Messages)
    BY <2>1, FrameType, EmitShape
  <2> QED BY <1>0, <1>1, <2>1, <2>2
<1>3. CASE Ignore
  BY <1>0, <1>1, <1>3, TypesKept DEF Ignore
<1>4. CASE TcpOpened
  <2>1. /\ tcp' = tcp \cup {acur}
        /\ a' = [a EXCEPT ![acur].st = "open", ![acur].reader = "reading"]
        /\ Emit(<<Msg("connection_opened", acur, 0), Msg("window", acur, Window)>>)
        /\ aloop' \in {"idle", "stopped"}
        /\ UNCHANGED <<slot, closer, rest, atotal, acur, toAgent>>
    BY <1>4 DEF TcpOpened, tableVars
  <2>2. a' \in [Conns -> AgentConns]
    BY <1>0, <2>1, AgentRecordTypes
  <2>3. toGateway' \in Seq(Messages)
    <3>1. /\ Msg("connection_opened", acur, 0) \in Messages
          /\ Msg("window", acur, Window) \in Messages
      BY <1>0, AgentFrames
    <3> QED BY <1>0, <2>1, <3>1, ConcatAppend, SeqAppend DEF Emit
  <2> QED BY <1>0, <2>1, <2>2, <2>3
<1>5. CASE TcpRefused
  <2>1. /\ Emit(<<Session("error")>>) /\ aloop' \in {"idle", "stopped"}
        /\ UNCHANGED <<slot, closer, rest, a, atotal, tcp, acur, toAgent>>
    BY <1>5 DEF TcpRefused, tableVars
  <2>2. toGateway' \in Seq(Messages)
    BY <2>1, FrameType, EmitShape
  <2> QED BY <1>0, <2>1, <2>2
<1>6. CASE Drained
  <2>1. /\ a' = [a EXCEPT ![acur].d = @ + 1] /\ Emit(<<Msg("window", acur, 1)>>)
        /\ aloop' \in {"idle", "stopped"}
        /\ UNCHANGED <<slot, closer, rest, atotal, tcp, acur, toAgent>>
    BY <1>6 DEF Drained, tableVars
  <2>2. a' \in [Conns -> AgentConns]
    BY <1>0, <2>1, AgentRecordTypes
  <2>3. toGateway' \in Seq(Messages)
    BY <1>0, <2>1, AgentFrames, EmitShape
  <2> QED BY <1>0, <2>1, <2>2, <2>3
<1>7. CASE DrainFails
  <2>1. /\ FailConnection(acur, "loop") \/ (Emit(<<Session("error")>>) /\ UNCHANGED <<a, tcp>>)
        /\ aloop' \in {"idle", "stopped"}
        /\ UNCHANGED <<slot, closer, rest, atotal, acur, toAgent>>
    BY <1>7 DEF DrainFails, tableVars
  <2>2. a' \in [Conns -> AgentConns] /\ tcp' \in SUBSET Conns /\ toGateway' \in Seq(Messages)
    <3>1. CASE FailConnection(acur, "loop")
      <4>1. Finishes(acur, "loop")
        BY <3>1 DEF Finishes
      <4> QED BY <1>0, <4>1, EndingShape
    <3>2. CASE Emit(<<Session("error")>>) /\ UNCHANGED <<a, tcp>>
      BY <1>0, <3>2, FrameType, EmitShape
    <3> QED BY <2>1, <3>1, <3>2
  <2> QED BY <1>0, <2>1, <2>2
<1>8. CASE CloseFrame
  <2>1. /\ Take("close") /\ slot' = "closing" /\ closer' = "loop" /\ rest' = Live
        /\ UNCHANGED <<a, atotal, tcp, aloop, acur, toGateway>>
    BY <1>8 DEF CloseFrame, Closes
  <2> QED BY <1>0, <1>1, <2>1 DEF Live
<1>9. CASE StreamEnds
  <2>1. /\ UNCHANGED <<slot, closer, rest>> \/ (slot' = "closing" /\ closer' = "loop" /\ rest' = Live)
        /\ aloop' \in {aloop, "stopped"}
        /\ UNCHANGED <<a, atotal, tcp, acur, toAgent, toGateway>>
    BY <1>9 DEF StreamEnds, Closes, tableVars
  <2> QED BY <1>0, <2>1 DEF Live
<1>10. ASSUME NEW c \in Conns, OpenTcp(c)
       PROVE  AgentTypes' /\ toAgent' \in Seq(Messages) /\ toGateway' \in Seq(Messages)
  <2>1. /\ Take("connection_open") /\ aloop' = "connecting" /\ acur' = c
        /\ UNCHANGED <<slot, closer, rest, a, atotal, tcp, toGateway>>
    BY <1>10 DEF OpenTcp, tableVars
  <2> QED BY <1>0, <1>1, <2>1
<1>11. ASSUME NEW c \in Conns, WriteData(c)
       PROVE  AgentTypes' /\ toAgent' \in Seq(Messages) /\ toGateway' \in Seq(Messages)
  <2>1. /\ Take("data") /\ UNCHANGED <<slot, closer, rest, atotal>>
        /\ \/ (FailConnection(c, "loop") \/ FinishConnection(c, "loop", <<>>))
                /\ UNCHANGED <<aloop, acur>>
           \/ /\ a' = [a EXCEPT ![c].in = @ + 1]
              /\ aloop' = "draining" /\ acur' = c /\ UNCHANGED <<tcp, toGateway>>
    BY <1>11 DEF WriteData, tableVars
  <2>2. a' \in [Conns -> AgentConns] /\ tcp' \in SUBSET Conns /\ toGateway' \in Seq(Messages)
    <3>1. CASE FailConnection(c, "loop") \/ FinishConnection(c, "loop", <<>>)
      BY <3>1, EndingShape DEF Finishes
    <3>2. CASE a' = [a EXCEPT ![c].in = @ + 1] /\ UNCHANGED <<tcp, toGateway>>
      BY <1>0, <3>2, AgentRecordTypes
    <3> QED BY <2>1, <3>1, <3>2
  <2> QED BY <1>0, <1>1, <2>1, <2>2
<1>12. ASSUME NEW c \in Conns, TakeCredit(c) \/ DesktopHalfClosed(c) \/ CloseTcp(c)
       PROVE  AgentTypes' /\ toAgent' \in Seq(Messages) /\ toGateway' \in Seq(Messages)
  <2>1. /\ Take("window") \/ Take("half_close") \/ Take("connection_close")
        /\ UNCHANGED <<slot, closer, rest, atotal, aloop, acur>>
        /\ \/ FailConnection(c, "loop") \/ FinishConnection(c, "loop", <<>>)
           \/ a[c].credit < Window /\ a' = [a EXCEPT ![c].credit = @ + 1]
                /\ UNCHANGED <<tcp, toGateway>>
           \/ a' = [a EXCEPT ![c].dHalf = TRUE] /\ UNCHANGED <<tcp, toGateway>>
    BY <1>12 DEF TakeCredit, DesktopHalfClosed, CloseTcp, tableVars
  <2>2. a' \in [Conns -> AgentConns] /\ tcp' \in SUBSET Conns /\ toGateway' \in Seq(Messages)
    <3>1. CASE FailConnection(c, "loop") \/ FinishConnection(c, "loop", <<>>)
      BY <3>1, EndingShape DEF Finishes
    <3>2. CASE a[c].credit < Window /\ a' = [a EXCEPT ![c].credit = @ + 1]
                 /\ UNCHANGED <<tcp, toGateway>>
      BY <1>0, <3>2, AgentRecordTypes, Zenon
    <3>3. CASE a' = [a EXCEPT ![c].dHalf = TRUE] /\ UNCHANGED <<tcp, toGateway>>
      BY <1>0, <3>3, AgentRecordTypes
    <3> QED BY <2>1, <3>1, <3>2, <3>3
  <2>3. toAgent' \in Seq(Messages)
    BY <1>1, <2>1
  <2> QED BY <1>0, <2>1, <2>2, <2>3
<1> QED BY <1>2, <1>3, <1>4, <1>5, <1>6, <1>7, <1>8, <1>9, <1>10, <1>11, <1>12 DEF Loop

LEMMA TypeTasks ==
    ASSUME IInv, Watch \/ Closer \/ (\E c \in Conns : SendFrame(c) \/ Target(c))
    PROVE  TypeOK'
<1> TypeOK /\ AgentOnly /\ "reader" \in {"loop", "reader", "closer"}
    /\ "closer" \in {"loop", "reader", "closer"}
  BY AgentSteps DEF IInv
<1>0. /\ slot \in {"none", "open", "closing", "gone"}
      /\ closer \in {"none", "loop", "watcher", "dead"}
      /\ rest \in SUBSET Conns /\ a \in [Conns -> AgentConns]
      /\ atotal \in [d : Nat, t : Nat] /\ tcp \in SUBSET Conns
      /\ aloop \in {"idle", "connecting", "draining", "stopped"} /\ acur \in Conns
      /\ toAgent \in Seq(Messages) /\ toGateway \in Seq(Messages)
  BY DEF TypeOK, AgentTypes, LinkTypes
<1> SUFFICES AgentTypes' /\ toAgent' \in Seq(Messages) /\ toGateway' \in Seq(Messages)
  BY AgentTypeRest
<1> USE DEF AgentTypes
<1>1. CASE Watch
  <2>1. /\ slot' = "closing" /\ closer' = "watcher" /\ rest' = Live
        /\ UNCHANGED <<a, atotal, tcp, aloop, acur, toAgent, toGateway>>
    BY <1>1 DEF Watch, Closes
  <2> QED BY <1>0, <2>1 DEF Live
<1>2. CASE SessionEnds
  <2>1. /\ slot' = "gone" /\ closer' = "none"
        /\ Emit(<<Receipt("end", Anyone, atotal.d, atotal.t)>>)
        /\ UNCHANGED <<rest, a, atotal, tcp, aloop, acur, toAgent>>
    BY <1>2 DEF SessionEnds
  <2>2. toGateway' \in Seq(Messages)
    BY <1>0, <2>1, AgentFrames, EmitShape
  <2> QED BY <1>0, <2>1, <2>2
<1>3. ASSUME NEW c \in Conns, CloseNext(c)
      PROVE  AgentTypes' /\ toAgent' \in Seq(Messages) /\ toGateway' \in Seq(Messages)
  <2>1. /\ rest' = rest \ {c}
        /\ \/ UNCHANGED <<a, tcp, closer, toGateway>>
           \/ FinishConnection(c, "closer", <<>>) /\ UNCHANGED closer
           \/ a' = [a EXCEPT ![c].st = "ended"] /\ closer' = "dead" /\ UNCHANGED <<tcp, toGateway>>
        /\ UNCHANGED <<slot, atotal, aloop, acur, toAgent>>
    BY <1>3 DEF CloseNext
  <2>2. a' \in [Conns -> AgentConns] /\ tcp' \in SUBSET Conns /\ toGateway' \in Seq(Messages)
    <3>1. CASE FinishConnection(c, "closer", <<>>)
      BY <3>1, EndingShape DEF Finishes
    <3>2. CASE a' = [a EXCEPT ![c].st = "ended"] /\ UNCHANGED <<tcp, toGateway>>
      BY <1>0, <3>2, AgentRecordTypes
    <3> QED BY <1>0, <2>1, <3>1, <3>2
  <2> QED BY <1>0, <2>1, <2>2
<1>4. ASSUME NEW c \in Conns, EmitConnectionEnd(c)
      PROVE  AgentTypes' /\ toAgent' \in Seq(Messages) /\ toGateway' \in Seq(Messages)
  <2>1. /\ a' = [a EXCEPT ![c].st = "ended"]
        /\ atotal' = [d |-> atotal.d + a[c].d, t |-> atotal.t + a[c].t]
        /\ Emit(<<Receipt("connection_end", c, a[c].d, a[c].t)>>)
        /\ aloop' \in {aloop, "stopped"} /\ closer' \in {closer, "dead"}
        /\ UNCHANGED <<slot, rest, tcp, acur, toAgent>>
    BY <1>4 DEF EmitConnectionEnd
  <2>2. a' \in [Conns -> AgentConns]
    BY <1>0, <2>1, AgentRecordTypes
  <2>3. atotal' \in [d : Nat, t : Nat]
    <3>1. a[c].d \in Nat /\ a[c].t \in Nat
      BY FieldTypes DEF Fields
    <3> QED BY <1>0, <2>1, <3>1
  <2>4. toGateway' \in Seq(Messages)
    BY <2>1, AgentFrames, EmitShape
  <2> QED BY <1>0, <2>1, <2>2, <2>3, <2>4
<1>5. ASSUME NEW c \in Conns, SendFrame(c)
      PROVE  AgentTypes' /\ toAgent' \in Seq(Messages) /\ toGateway' \in Seq(Messages)
  <2>1. /\ a[c].reader = "emitting" /\ Emit(<<Msg("data", c, a[c].t - 1)>>)
        /\ UNCHANGED <<slot, closer, rest, atotal, tcp, aloop, acur, toAgent>>
    BY <1>5 DEF SendFrame, tableVars
  <2>2. a' \in [Conns -> AgentConns]
    <3>1. PICK r \in {"off", "reading", "dead"} : a' = [a EXCEPT ![c].reader = r]
      BY <1>5 DEF SendFrame
    <3> QED BY <3>1, AgentRecordTypes
  <2>3. a[c].t > 0
    BY <2>1 DEF IInv, Parts, Holds, Bounds
  <2>4. toGateway' \in Seq(Messages)
    BY <2>1, <2>3, AgentFrames, EmitShape
  <2> QED BY <1>0, <2>1, <2>2, <2>4
<1>6. ASSUME NEW c \in Conns, Target(c)
      PROVE  AgentTypes' /\ toAgent' \in Seq(Messages) /\ toGateway' \in Seq(Messages)
  <2>1. UNCHANGED <<slot, closer, rest, atotal, aloop, acur, toAgent>>
    BY <1>6 DEF Target, ReadFrame, ReadEof, ReadFails, tableVars
  <2> SUFFICES a' \in [Conns -> AgentConns] /\ tcp' \in SUBSET Conns /\ toGateway' \in Seq(Messages)
    BY <1>0, <2>1
  <2>2. CASE \/ FinishConnection(c, "reader", <<>>) \/ FailConnection(c, "reader")
             \/ FinishConnection(c, "reader", <<Msg("half_close", c, 0)>>)
    BY <2>2, EndingShape DEF Finishes
  <2>3. CASE /\ a[c].credit > 0 /\ a[c].t < MaxFrames
             /\ a' = [a EXCEPT ![c].credit = @ - 1, ![c].t = @ + 1, ![c].reader = "emitting"]
             /\ UNCHANGED <<tcp, toGateway>>
    BY <1>0, <2>3, AgentRecordTypes, Zenon
  <2>4. CASE /\ a' = [a EXCEPT ![c].tHalf = TRUE, ![c].reader = "dead"]
             /\ UNCHANGED <<tcp, toGateway>>
    BY <1>0, <2>4, AgentRecordTypes, Zenon
  <2>5. CASE /\ a' = [a EXCEPT ![c].tHalf = TRUE, ![c].reader = "off"]
             /\ Emit(<<Msg("half_close", c, 0)>>)
             /\ UNCHANGED tcp
    <3>1. Msg("half_close", c, 0) \in Messages
      BY FrameType
    <3>2. toGateway' \in Seq(Messages)
      BY <2>5, <3>1, EmitShape
    <3> QED BY <1>0, <2>5, <3>2, AgentRecordTypes
  <2>6. CASE a' = [a EXCEPT ![c].reader = "dead"] /\ UNCHANGED <<tcp, toGateway>>
    BY <1>0, <2>6, AgentRecordTypes
  <2>7. CASE ReadFrame(c)
    BY <2>2, <2>3, <2>7 DEF ReadFrame, Reading
  <2>8. CASE ReadEof(c)
    BY <2>2, <2>4, <2>5, <2>8 DEF ReadEof
  <2>9. CASE ReadFails(c)
    BY <2>2, <2>6, <2>9 DEF ReadFails
  <2> QED BY <1>6, <2>7, <2>8, <2>9 DEF Target
<1> QED BY <1>1, <1>2, <1>3, <1>4, <1>5, <1>6 DEF Closer

LEMMA TypeNext == ASSUME IInv, [Next]_vars PROVE TypeOK'
<1>1. CASE UNCHANGED vars
  <2>1. /\ GatewayTypes' /\ AgentTypes' /\ DesktopTypes'
        /\ UNCHANGED <<link, toAgent, toGateway>>
    BY <1>1, TypesKept DEF IInv, vars
  <2> QED BY <2>1 DEF IInv, TypeOK, LinkTypes
<1> QED BY <1>1, TypeDesktop, TypeAgentLive, TypeServeBrowser, TypeDeliver, TypeLoop,
           TypeTasks DEF Next

-----------------------------------------------------------------------------
(* Connections that a step does not act on. *)

\* To connection c the queue p has nothing that q has not.
Fewer(p, q, c) ==
    /\ \A k \in Kinds : Count(p, k, c) <= Count(q, k, c)
    /\ Credit(p, c) <= Credit(q, c)
    /\ DataFirst(q, c) => DataFirst(p, c)
    /\ \A d, t \in Nat : Receipts(q, c, d, t) => Receipts(p, c, d, t)

LEMMA SameFewer ==
    ASSUME NEW p, NEW q \in Seq(Messages), NEW c, Same(p, q, c)
    PROVE  Fewer(p, q, c)
<1>1. \A k \in Kinds : Count(q, k, c) \in Nat
  BY IndicesType
<1>2. Credit(q, c) \in Nat
  BY UnitsType
<1>3. \A k \in Kinds : Count(p, k, c) <= Count(q, k, c)
  BY <1>1 DEF Same
<1>4. Credit(p, c) <= Credit(q, c)
  BY <1>2 DEF Same
<1> QED BY <1>3, <1>4 DEF Fewer, Same

LEMMA EmptyFewer ==
    ASSUME NEW p, Empty(p), NEW q \in Seq(Messages), NEW c
    PROVE  Fewer(p, q, c)
<1>1. \A k \in Kinds : Count(q, k, c) \in Nat
  BY IndicesType
<1>2. Credit(q, c) \in Nat
  BY UnitsType
<1> QED BY <1>1, <1>2, EmptyViews DEF Fewer

LEMMA TailFewer ==
    ASSUME NEW q \in Seq(Messages), q # <<>>, NEW c
    PROVE  Fewer(Tail(q), q, c)
<1>1. Tail(q) \in Seq(Messages) /\ Head(q) \in Messages
  BY SeqTail
<1>2. \A k \in Kinds : Count(Tail(q), k, c) <= Count(q, k, c)
  <2> TAKE k \in Kinds
  <2>1. Count(Tail(q), k, c) \in Nat /\ Count(q, k, c) \in Nat
    BY <1>1, IndicesType
  <2>2. Count(Tail(q), k, c) + One(Head(q).kind = k /\ Head(q).c = c) = Count(q, k, c)
    BY CountTail
  <2> QED BY <2>1, <2>2 DEF One
<1>3. Credit(Tail(q), c) <= Credit(q, c)
  <2>1. Credit(Tail(q), c) \in Nat /\ Credit(q, c) \in Nat
    BY <1>1, UnitsType
  <2>2. Credit(Tail(q), c) + Grant(Head(q), c) = Credit(q, c)
    BY CreditTail
  <2>3. Grant(Head(q), c) \in Nat
    BY <1>1 DEF Grant, Messages
  <2> QED BY <2>1, <2>2, <2>3
<1>4. DataFirst(q, c) => DataFirst(Tail(q), c)
  BY DataFirstTail
<1>5. \A d, t \in Nat : Receipts(q, c, d, t) => Receipts(Tail(q), c, d, t)
  BY ReceiptsTail
<1> QED BY <1>2, <1>3, <1>4, <1>5 DEF Fewer

\* What every step keeps of the session.
Onward ==
    /\ gw = "done" => gw' = "done"
    /\ \A k \in Tasks : gw' # "done" /\ ending'[k] = NoEnd => ending[k] = NoEnd
    /\ link' = "up" => link = "up"
    /\ slot = "gone" => slot' = "gone"
    /\ slot' = "none" => slot = "none"
    /\ loop' = "off" => loop = "off"

\* A step that leaves connection c where it is.
StillGateway(c) ==
    /\ g'[c].st = g[c].st /\ g'[c].dCredit = g[c].dCredit /\ g'[c].tCredit = g[c].tCredit
    /\ g'[c].d = g[c].d /\ g'[c].t = g[c].t
    /\ total.d <= total'.d /\ total.t <= total'.t

StillAgent(c) ==
    /\ a'[c].st = a[c].st /\ a'[c].credit = a[c].credit
    /\ a'[c].d = a[c].d /\ a'[c].t = a[c].t
    /\ a'[c].reader = "emitting" <=> a[c].reader = "emitting"
    /\ a[c].st = "none" => a'[c].reader = a[c].reader
    /\ Connecting(c)' => Connecting(c)
    /\ Draining(c)' => Draining(c)
    /\ Flowing(c)' => (Draining(c) => Draining(c)')

StillDesk(c) ==
    /\ desk'[c].st = "none" => desk[c].st = "none"
    /\ desk'[c].st = "ended" => desk[c].st = "ended"
    /\ desk'[c].credit <= desk[c].credit /\ desk'[c].got = desk[c].got
    /\ gw' # "done" /\ ending'["desktop"] = NoEnd => desk'[c].sent = desk[c].sent

StillQueues(c) ==
    /\ Fewer(toAgent', toAgent, c) /\ Fewer(toGateway', toGateway, c) /\ Fewer(out', out, c)
    /\ Flowing(c)' => Same(toAgent', toAgent, c) /\ Same(toGateway', toGateway, c)
    /\ gw' # "done" /\ ending'["agent"] = NoEnd => Count(out', "data", c) = Count(out, "data", c)

Still(c) == StillGateway(c) /\ StillAgent(c) /\ StillDesk(c) /\ StillQueues(c)

\* The views of the three queues are numbers.
Views(c) ==
    /\ \A k \in Kinds : /\ Count(toAgent, k, c) \in Nat /\ Count(toGateway, k, c) \in Nat
                        /\ Count(out, k, c) \in Nat
    /\ Credit(toGateway, c) \in Nat /\ Credit(out, c) \in Nat

LEMMA ViewTypes == ASSUME TypeOK, NEW c PROVE Views(c)
<1>1. toAgent \in Seq(Messages) /\ toGateway \in Seq(Messages) /\ out \in Seq(Messages)
  BY DEF TypeOK, LinkTypes, GatewayTypes
<1> QED BY <1>1, IndicesType, UnitsType DEF Views

LEMMA ViewTypesNext == ASSUME TypeOK', NEW c PROVE Views(c)'
<1>1. toAgent' \in Seq(Messages) /\ toGateway' \in Seq(Messages) /\ out' \in Seq(Messages)
  BY DEF TypeOK, LinkTypes, GatewayTypes
<1> QED BY <1>1, IndicesType, UnitsType DEF Views

LEMMA KindNames ==
    /\ "data" \in Kinds /\ "window" \in Kinds /\ "connection_open" \in Kinds
    /\ "connection_opened" \in Kinds /\ "connection_end" \in Kinds
  BY DEF Kinds

LEMMA CountsLess ==
    ASSUME TypeOK, TypeOK', NEW c \in Conns, StillQueues(c)
    PROVE  /\ Count(toAgent, "data", c) = 0 => Count(toAgent', "data", c) = 0
           /\ Count(toAgent, "window", c) = 0 => Count(toAgent', "window", c) = 0
           /\ Count(toGateway, "connection_opened", c) = 0 =>
                 Count(toGateway', "connection_opened", c) = 0
           /\ Count(toGateway, "window", c) = 0 => Count(toGateway', "window", c) = 0
           /\ Count(toGateway, "data", c) = 0 => Count(toGateway', "data", c) = 0
           /\ Count(toGateway, "connection_end", c) = 0 =>
                 Count(toGateway', "connection_end", c) = 0
           /\ Count(toAgent', "connection_open", c) > 0 =>
                 Count(toAgent, "connection_open", c) > 0
           /\ Count(toGateway', "connection_end", c) > 0 =>
                 Count(toGateway, "connection_end", c) > 0
           /\ Count(out', "connection_end", c) > 0 => Count(out, "connection_end", c) > 0
           /\ Count(toAgent', "data", c) <= Count(toAgent, "data", c)
           /\ Count(out, "data", c) = 0 => Count(out', "data", c) = 0
<1>1. Views(c) /\ Views(c)'
  BY ViewTypes, ViewTypesNext
<1>2. \A k \in Kinds : /\ Count(toAgent', k, c) <= Count(toAgent, k, c)
                       /\ Count(toGateway', k, c) <= Count(toGateway, k, c)
                       /\ Count(out', k, c) <= Count(out, k, c)
  BY DEF StillQueues, Fewer
<1>3. \A k \in Kinds : /\ Count(toAgent', k, c) \in Nat /\ Count(toGateway', k, c) \in Nat
                       /\ Count(out', k, c) \in Nat
                       /\ Count(toAgent, k, c) \in Nat /\ Count(toGateway, k, c) \in Nat
                       /\ Count(out, k, c) \in Nat
  BY <1>1 DEF Views
<1> QED BY <1>2, <1>3, KindNames

LEMMA StillBounds ==
    ASSUME TypeOK, TypeOK', NEW c \in Conns, Still(c), Bounds(c)
    PROVE  Bounds(c)'
<1>1. Fields /\ Fields' /\ Views(c) /\ Views(c)'
  BY FieldTypes, FieldTypesNext, ViewTypes, ViewTypesNext
<1>2. g'[c].d <= total'.d /\ g'[c].t <= total'.t
  <2>1. /\ g[c].d \in Nat /\ g[c].t \in Nat /\ total.d \in Nat /\ total.t \in Nat
        /\ total'.d \in Nat /\ total'.t \in Nat
    BY <1>1 DEF Fields
  <2>2. g'[c].d = g[c].d /\ g'[c].t = g[c].t /\ total.d <= total'.d /\ total.t <= total'.t
    BY DEF Still, StillGateway
  <2> QED BY <2>1, <2>2 DEF Bounds
<1>3. desk'[c].credit + Credit(out', c) <= g'[c].dCredit
  <2>1. /\ desk[c].credit \in Nat /\ desk'[c].credit \in Nat /\ g[c].dCredit \in Nat
        /\ Credit(out, c) \in Nat /\ Credit(out', c) \in Nat
    BY <1>1 DEF Fields, Views
  <2>2. /\ desk'[c].credit <= desk[c].credit /\ Credit(out', c) <= Credit(out, c)
        /\ g'[c].dCredit = g[c].dCredit
    BY DEF Still, StillGateway, StillDesk, StillQueues, Fewer
  <2> QED BY <2>1, <2>2 DEF Bounds
<1>4. a'[c].reader = "emitting" => a'[c].t > 0
  BY DEF Still, StillAgent, Bounds
<1> QED BY <1>2, <1>3, <1>4 DEF Bounds

LEMMA StillLife ==
    ASSUME TypeOK, TypeOK', Onward, NEW c \in Conns, Still(c), Life(c)
    PROVE  Life(c)'
<1>1. Fields /\ Fields' /\ Views(c) /\ Views(c)'
  BY FieldTypes, FieldTypesNext, ViewTypes, ViewTypesNext
<1>2. /\ g'[c].st = g[c].st /\ g'[c].dCredit = g[c].dCredit /\ g'[c].tCredit = g[c].tCredit
      /\ g'[c].d = g[c].d /\ g'[c].t = g[c].t
      /\ a'[c].st = a[c].st /\ a'[c].credit = a[c].credit
      /\ a'[c].d = a[c].d /\ a'[c].t = a[c].t
      /\ a[c].st = "none" => a'[c].reader = a[c].reader
      /\ Connecting(c)' => Connecting(c)
      /\ Draining(c)' => Draining(c)
      /\ desk'[c].st = "none" => desk[c].st = "none"
  BY DEF Still, StillGateway, StillAgent, StillDesk
<1>3. StillQueues(c)
  BY DEF Still
<1>4. a'[c].st = "none" => Untouched(c)'
  <2> SUFFICES ASSUME a'[c].st = "none" PROVE Untouched(c)'
    OBVIOUS
  <2>1. Untouched(c) /\ a[c].st = "none"
    BY <1>2 DEF Life
  <2> QED BY <1>2, <1>3, <2>1, CountsLess DEF Untouched
<1>5. Receipts(toGateway', c, a'[c].d, a'[c].t)
  <2>1. a[c].d \in Nat /\ a[c].t \in Nat /\ Receipts(toGateway, c, a[c].d, a[c].t)
    BY <1>1 DEF Fields, Life
  <2> QED BY <1>2, <1>3, <2>1 DEF StillQueues, Fewer
<1>6. a'[c].d + One(Draining(c)') + Count(toAgent', "data", c) <= g'[c].d
  <2>1. /\ a[c].d \in Nat /\ g[c].d \in Nat
        /\ Count(toAgent, "data", c) \in Nat /\ Count(toAgent', "data", c) \in Nat
    BY <1>1, KindNames DEF Fields, Views
  <2>2. Count(toAgent', "data", c) <= Count(toAgent, "data", c)
    BY <1>3, CountsLess
  <2>3. a[c].d + One(Draining(c)) + Count(toAgent, "data", c) <= g[c].d
    BY DEF Life
  <2>4. One(Draining(c)') <= One(Draining(c)) /\ One(Draining(c)') \in 0..1
        /\ One(Draining(c)) \in 0..1
    BY <1>2 DEF One
  <2>5. a[c].d + One(Draining(c)') + Count(toAgent', "data", c) <= g[c].d
    BY <2>1, <2>2, <2>3, <2>4
  <2> QED BY <1>2, <2>5
<1>7. /\ Count(toAgent', "connection_open", c) > 0 => Count(toAgent, "connection_open", c) > 0
      /\ Count(toGateway', "connection_end", c) > 0 => Count(toGateway, "connection_end", c) > 0
  BY <1>3, CountsLess
<1>8. (slot' = "none" => slot = "none") /\ (loop' = "off" => loop = "off")
  BY DEF Onward
<1> QED BY <1>2, <1>4, <1>5, <1>6, <1>7, <1>8 DEF Life

LEMMA StillShown ==
    ASSUME TypeOK, TypeOK', Onward, NEW c \in Conns, Still(c), Shown(c)
    PROVE  Shown(c)'
<1>1. StillQueues(c) /\ StillDesk(c) /\ StillGateway(c)
  BY DEF Still
<1>2. /\ gw' # "done" => gw # "done"
      /\ gw' # "done" /\ ending'["desktop"] = NoEnd => ending["desktop"] = NoEnd
      /\ gw' # "done" /\ ending'["agent"] = NoEnd => ending["agent"] = NoEnd
  BY DEF Onward, Tasks
<1>3. gw' # "done" /\ ending'["desktop"] = NoEnd => desk'[c].sent = g'[c].d
  BY <1>1, <1>2 DEF Shown, StillDesk, StillGateway
<1>4. gw' # "done" /\ ending'["agent"] = NoEnd =>
        desk'[c].got + Count(out', "data", c) = g'[c].t
  BY <1>1, <1>2 DEF Shown, StillDesk, StillGateway, StillQueues
<1>5. DataFirst(out', c)
  BY <1>1 DEF Shown, StillQueues, Fewer
<1>6. Count(out', "connection_end", c) > 0 => g'[c].st = "ended"
  BY <1>1, CountsLess DEF Shown, StillGateway
<1>7. desk'[c].st = "ended" => g'[c].st = "ended" /\ Count(out', "data", c) = 0
  BY <1>1, CountsLess DEF Shown, StillGateway, StillDesk
<1> QED BY <1>3, <1>4, <1>5, <1>6, <1>7 DEF Shown

LEMMA StillFlow ==
    ASSUME TypeOK, TypeOK', Onward, NEW c \in Conns, Still(c), Flow(c)
    PROVE  Flow(c)'
<1> SUFFICES ASSUME Flowing(c)'
             PROVE  (/\ g[c].dCredit + Count(toAgent, "data", c) + One(Draining(c))
                         + Credit(toGateway, c) = Window
                     /\ a[c].credit + One(a[c].reader = "emitting")
                         + Count(toGateway, "data", c) + Count(toAgent, "window", c)
                         = g[c].tCredit
                     /\ g[c].st = "pending" => OpenedFirst(toGateway, c)
                     /\ Sequenced(toGateway, c, g[c].t,
                                  a[c].t - One(a[c].reader = "emitting")))'
  BY DEF Flow
<1>1. Flowing(c)
  BY DEF Flowing, Onward, Still, StillAgent
<1>2. /\ g[c].dCredit + Count(toAgent, "data", c) + One(Draining(c))
            + Credit(toGateway, c) = Window
      /\ a[c].credit + One(a[c].reader = "emitting")
            + Count(toGateway, "data", c) + Count(toAgent, "window", c)
            = g[c].tCredit
      /\ g[c].st = "pending" => OpenedFirst(toGateway, c)
      /\ Sequenced(toGateway, c, g[c].t, a[c].t - One(a[c].reader = "emitting"))
  BY <1>1 DEF Flow
<1>3. /\ g'[c].st = g[c].st /\ g'[c].dCredit = g[c].dCredit /\ g'[c].tCredit = g[c].tCredit
      /\ g'[c].t = g[c].t
      /\ a'[c].credit = a[c].credit /\ a'[c].t = a[c].t
      /\ One(a'[c].reader = "emitting") = One(a[c].reader = "emitting")
      /\ One(Draining(c)') = One(Draining(c))
  BY DEF Still, StillGateway, StillAgent, One
<1>4. Same(toAgent', toAgent, c) /\ Same(toGateway', toGateway, c)
  BY DEF Still, StillQueues
<1>5. /\ Count(toAgent', "data", c) = Count(toAgent, "data", c)
      /\ Count(toAgent', "window", c) = Count(toAgent, "window", c)
      /\ Count(toGateway', "data", c) = Count(toGateway, "data", c)
      /\ Credit(toGateway', c) = Credit(toGateway, c)
      /\ OpenedFirst(toGateway, c) => OpenedFirst(toGateway', c)
  BY <1>4, KindNames DEF Same
<1>6. Sequenced(toGateway', c, g[c].t, a[c].t - One(a[c].reader = "emitting"))
  <2>1. a[c].t - One(a[c].reader = "emitting") \in Int /\ g[c].t \in Int
    BY FieldTypes DEF Fields, One
  <2> QED BY <1>2, <1>4, <2>1 DEF Same
<1> QED BY <1>2, <1>3, <1>5, <1>6

LEMMA StillKeeps ==
    ASSUME TypeOK, TypeOK', Onward, NEW c \in Conns, Still(c), Holds(c)
    PROVE  Holds(c)'
  BY StillBounds, StillLife, StillShown, StillFlow DEF Holds

-----------------------------------------------------------------------------
(* What the handlers of the gateway have in common. *)

LEMMA InvParts ==
    ASSUME IInv
    PROVE  /\ TypeOK /\ LoopInv /\ Totals /\ AuditInv
           /\ \A c \in Conns : Bounds(c) /\ Life(c) /\ Shown(c) /\ Flow(c) /\ Holds(c)
  BY DEF IInv, Parts, Holds

LEMMA QueuesStill ==
    ASSUME TypeOK, NEW c,
           Same(toAgent', toAgent, c) \/ (Fewer(toAgent', toAgent, c) /\ ~Flowing(c)'),
           Same(toGateway', toGateway, c) \/ (Fewer(toGateway', toGateway, c) /\ ~Flowing(c)'),
           Same(out', out, c) \/ (gw' = "done" /\ Fewer(out', out, c))
    PROVE  StillQueues(c)
<1>1. toAgent \in Seq(Messages) /\ toGateway \in Seq(Messages) /\ out \in Seq(Messages)
  BY DEF TypeOK, LinkTypes, GatewayTypes
<1>2. Fewer(toAgent', toAgent, c) /\ Fewer(toGateway', toGateway, c) /\ Fewer(out', out, c)
  BY <1>1, SameFewer
<1>3. gw' # "done" => Count(out', "data", c) = Count(out, "data", c)
  BY KindNames DEF Same
<1> QED BY <1>2, <1>3 DEF StillQueues

LEMMA PartsKept ==
    ASSUME TypeOK, NEW c \in Conns
    PROVE  /\ UNCHANGED <<a, aloop, acur>> => StillAgent(c)
           /\ UNCHANGED <<g, total>> => StillGateway(c)
           /\ desk' = desk => StillDesk(c)
           /\ UNCHANGED <<toAgent, toGateway, out>> => StillQueues(c)
<1>1. UNCHANGED <<a, aloop, acur>> => StillAgent(c)
  BY DEF StillAgent, Connecting, Draining
<1>2. UNCHANGED <<g, total>> => StillGateway(c)
  BY FieldTypes DEF StillGateway, Fields
<1>3. desk' = desk => StillDesk(c)
  BY FieldTypes DEF StillDesk, Fields
<1>4. UNCHANGED <<toAgent, toGateway, out>> => StillQueues(c)
  BY SameRefl, QueuesStill
<1> QED BY <1>1, <1>2, <1>3, <1>4

\* The session as a whole keeps its invariant.
SessionKept ==
    /\ audit'.reason = "ended" => audit.reason = "ended"
    /\ HasEnd(toGateway') => slot' = "gone"
    /\ LoopInv'

\* Nothing is counted.
TotalsKept == total' = total /\ \A c \in Conns : g'[c].d = g[c].d /\ g'[c].t = g[c].t

LEMMA ForwardStep ==
    ASSUME IInv, NEW m \in Messages, Forward(m), loop # "off",
           agentVars' = agentVars, link' = link, toGateway' = toGateway
    PROVE  /\ Onward /\ SessionKept
           /\ \A e : Same(out', out, e) \/ (gw' = "done" /\ Fewer(out', out, e))
           /\ \A e : Other(m, e) => StillQueues(e)
           /\ \A e \in Conns : StillAgent(e)
<1>1. TypeOK /\ LoopInv /\ AuditInv /\ out \in Seq(Messages) /\ "error" # "ended"
  BY InvParts DEF TypeOK, GatewayTypes
<1>2. /\ ending' = ending /\ gw' \in {gw, "done"}
      /\ out' = out \/ (gw' = "done" /\ Empty(out'))
      /\ audit' = audit \/ (gw # "done" /\ audit'.reason = "error")
      /\ loop' \in {"receiving", "stopped"}
      /\ loop' = "stopped" => gw' = "done"
      /\ \A c : Other(m, c) => Same(toAgent', toAgent, c)
  BY <1>1, ForwardShape
<1>3. slot' = slot /\ UNCHANGED <<a, aloop, acur>>
  BY DEF agentVars, tableVars
<1>4. Onward
  BY <1>2, <1>3 DEF Onward
<1>5. SessionKept
  <2>1. LoopInv'
    BY <1>1, <1>2 DEF LoopInv
  <2>2. audit'.reason = "ended" => audit.reason = "ended"
    BY <1>2
  <2>3. HasEnd(toGateway') => slot' = "gone"
    BY <1>1, <1>3 DEF AuditInv
  <2> QED BY <2>1, <2>2, <2>3 DEF SessionKept
<1>6. \A e : Same(out', out, e) \/ (gw' = "done" /\ Fewer(out', out, e))
  BY <1>1, <1>2, SameRefl, EmptyFewer
<1>7. ASSUME NEW e, Other(m, e) PROVE StillQueues(e)
  BY <1>1, <1>2, <1>6, <1>7, SameRefl, QueuesStill
<1>8. \A e \in Conns : StillAgent(e)
  BY <1>1, <1>3, PartsKept
<1> QED BY <1>4, <1>5, <1>6, <1>7, <1>8

LEMMA CloseStep ==
    ASSUME IInv, NEW k \in Tasks, NEW r \in {"closed", "error"}, CloseWithReason(k, r),
           loop' = loop, agentVars' = agentVars, link' = link, toGateway' = toGateway
    PROVE  /\ Onward /\ SessionKept
           /\ ending'[k] # NoEnd
           /\ \A e : StillQueues(e)
           /\ \A e \in Conns : StillAgent(e)
<1>1. TypeOK /\ LoopInv /\ AuditInv /\ r \in Reasons
      /\ ending \in [Tasks -> Reasons \cup {NoEnd}]
  BY InvParts DEF TypeOK, GatewayTypes, Reasons
<1>2. /\ \A c : Same(toAgent', toAgent, c)
      /\ ending' = [ending EXCEPT ![k] = r]
      /\ UNCHANGED <<gw, out, audit>>
  BY <1>1, CloseShape
<1>3. slot' = slot /\ UNCHANGED <<a, aloop, acur>>
  BY DEF agentVars, tableVars
<1>4. \A i \in Tasks : ending'[i] = (IF i = k THEN r ELSE ending[i])
  BY <1>1, <1>2
<1>5. r # NoEnd /\ r # "ended"
  BY DEF NoEnd
<1>6. Onward
  BY <1>2, <1>3, <1>4, <1>5 DEF Onward
<1>7. SessionKept
  <2>1. LoopInv'
    BY <1>1, <1>2, <1>4, <1>5 DEF LoopInv
  <2>2. HasEnd(toGateway') => slot' = "gone"
    BY <1>1, <1>3 DEF AuditInv
  <2> QED BY <1>2, <2>1, <2>2 DEF SessionKept
<1>8. ASSUME NEW e PROVE StillQueues(e)
  BY <1>1, <1>2, SameRefl, QueuesStill
<1>9. \A e \in Conns : StillAgent(e)
  BY <1>1, <1>3, PartsKept
<1> QED BY <1>4, <1>5, <1>6, <1>7, <1>8, <1>9

\* A frame of the agent is handed to the desktop, or the session is to end.
LEMMA ExpectStep ==
    ASSUME IInv, NEW k, Frame(k), gw = "open", NEW ok \in BOOLEAN,
           Expect(ok, Head(toGateway)) \/ (ok /\ Offer(Head(toGateway))),
           loop' = loop, agentVars' = agentVars, link' = link
    PROVE  /\ Onward /\ SessionKept /\ gw' = gw
           /\ \/ ok /\ out' = Append(out, Head(toGateway)) /\ ending' = ending
              \/ out' = out /\ ending'["agent"] # NoEnd
           /\ \A e : Same(toAgent', toAgent, e)
           /\ \A e : Other(Head(toGateway), e) => StillQueues(e)
           /\ \A e \in Conns : StillAgent(e)
<1> DEFINE m == Head(toGateway)
<1>1. TypeOK /\ LoopInv /\ AuditInv /\ out \in Seq(Messages)
      /\ ending \in [Tasks -> Reasons \cup {NoEnd}]
  BY InvParts DEF TypeOK, GatewayTypes
<1>2. /\ m \in Messages /\ ending["agent"] = NoEnd /\ toGateway # <<>>
      /\ toGateway' = Tail(toGateway) /\ toGateway \in Seq(Messages)
      /\ \A c : Other(m, c) => Same(toGateway', toGateway, c)
  BY <1>1, FrameShape
<1>3. /\ \A c : Same(toAgent', toAgent, c)
      /\ ending'["desktop"] = ending["desktop"]
      /\ UNCHANGED <<gw, audit>>
      /\ \/ ok /\ out' = Append(out, m) /\ ending' = ending
         \/ out' = out /\ ending'["agent"] = "error"
  BY <1>1, <1>2, ExpectShape, OfferShape
<1>4. slot' = slot /\ UNCHANGED <<a, aloop, acur>>
  BY DEF agentVars, tableVars
<1>5. Onward
  BY <1>2, <1>3, <1>4 DEF Onward, Tasks
<1> HIDE DEF m
<1>6. SessionKept
  <2>1. LoopInv'
    BY <1>1, <1>3 DEF LoopInv, Tasks
  <2>2. HasEnd(toGateway') => slot' = "gone"
    BY <1>1, <1>2, <1>4, HasEndViews DEF AuditInv
  <2> QED BY <1>3, <2>1, <2>2 DEF SessionKept
<1>7. ASSUME NEW e, Other(m, e) PROVE StillQueues(e)
  <2>1. Same(out', out, e)
    BY <1>1, <1>2, <1>3, <1>7, SameRefl, SameAppend
  <2> QED BY <1>1, <1>2, <1>3, <1>7, <2>1, QueuesStill
<1>8. \A e \in Conns : StillAgent(e)
  BY <1>1, <1>4, PartsKept
<1> QED BY <1>3, <1>5, <1>6, <1>7, <1>8 DEF m, NoEnd

\* The session ends.
LEMMA FinishStep ==
    ASSUME IInv, NEW r \in Reasons, Finish(r), loop' \in {loop, "stopped"},
           \A k \in Tasks : ending'[k] # "ended",
           agentVars' = agentVars, link' = "up" => link = "up", toAgent' = toAgent,
           toGateway' \in {toGateway, <<>>} \/ (toGateway # <<>> /\ toGateway' = Tail(toGateway))
    PROVE  /\ Onward /\ gw' = "done"
           /\ r # "ended" => SessionKept
           /\ HasEnd(toGateway') => slot' = "gone"
           /\ LoopInv'
           /\ \A e : StillQueues(e)
           /\ \A e \in Conns : StillAgent(e)
<1>1. TypeOK /\ LoopInv /\ AuditInv /\ out \in Seq(Messages) /\ toGateway \in Seq(Messages)
  BY InvParts DEF TypeOK, GatewayTypes, LinkTypes
<1>2. /\ gw' = "done"
      /\ gw = "done" => out' = out /\ audit' = audit
      /\ gw # "done" =>
            /\ out' = <<Session("final")>>
            /\ audit' = [reason |-> r, d |-> total.d, t |-> total.t]
  BY <1>1, FinishShape
<1>3. slot' = slot /\ UNCHANGED <<a, aloop, acur>>
  BY DEF agentVars, tableVars
<1>4. Onward
  BY <1>2, <1>3 DEF Onward
<1>5. LoopInv'
  BY <1>2 DEF LoopInv
<1>6. HasEnd(toGateway') => slot' = "gone"
  BY <1>1, <1>3, HasEndViews DEF AuditInv
<1>7. r # "ended" => SessionKept
  BY <1>2, <1>5, <1>6 DEF SessionKept
<1>8. ASSUME NEW e PROVE StillQueues(e)
  <2>1. ~Flowing(e)'
    BY <1>2 DEF Flowing
  <2>2. Fewer(toGateway', toGateway, e)
    BY <1>1, SameRefl, SameFewer, EmptyFewer, TailFewer DEF Empty
  <2>3. Fewer(out', out, e)
    BY <1>1, <1>2, SameRefl, SameFewer, EmptyFewer DEF Empty
  <2> QED BY <1>1, <1>2, <2>1, <2>2, <2>3, SameRefl, QueuesStill
<1>9. \A e \in Conns : StillAgent(e)
  BY <1>1, <1>3, PartsKept
<1> QED BY <1>2, <1>4, <1>5, <1>6, <1>7, <1>8, <1>9

-----------------------------------------------------------------------------
(* The counters, and the session after its end. *)

LEMMA TotalsUnchanged ==
    ASSUME Totals, TotalsKept
    PROVE  Totals'
<1>1. /\ [c \in Conns |-> g'[c].d] = [c \in Conns |-> g[c].d]
      /\ [c \in Conns |-> g'[c].t] = [c \in Conns |-> g[c].t]
  BY DEF TotalsKept
<1>2. FromDesktop' = FromDesktop /\ FromTarget' = FromTarget
  BY <1>1 DEF FromDesktop, FromTarget, Frames
<1> QED BY <1>2 DEF Totals, TotalsKept

LEMMA FrameOf ==
    ASSUME NEW f \in [Conns -> Nat], NEW u
    PROVE  u \in Frames(f) <=> \E c \in Conns : \E k \in 1..f[c] : u = <<c, k>>
<1>1. u \in Frames(f) <=> \E c \in Conns : u \in {c} \X (1..f[c])
  BY DEF Frames
<1>2. \A c \in Conns : u \in {c} \X (1..f[c]) <=> \E k \in 1..f[c] : u = <<c, k>>
  OBVIOUS
<1> QED BY <1>1, <1>2

\* One more frame of connection c.
LEMMA CountFrame ==
    ASSUME NEW f \in [Conns -> Nat], NEW h \in [Conns -> Nat], NEW c \in Conns,
           h[c] = f[c] + 1, \A e \in Conns : e # c => h[e] = f[e],
           IsFiniteSet(Frames(f))
    PROVE  /\ IsFiniteSet(Frames(h))
           /\ Cardinality(Frames(h)) = Cardinality(Frames(f)) + 1
<1> DEFINE u == <<c, f[c] + 1>>
<1>1. u \notin Frames(f)
  <2> SUFFICES ASSUME u \in Frames(f) PROVE FALSE
    OBVIOUS
  <2>1. \E e \in Conns : \E k \in 1..f[e] : u = <<e, k>>
    BY FrameOf
  <2>2. PICK e \in Conns : \E k \in 1..f[e] : u = <<e, k>>
    BY <2>1
  <2>3. PICK k \in 1..f[e] : u = <<e, k>>
    BY <2>2
  <2>4. e = c /\ k = f[c] + 1
    BY <2>3
  <2>5. f[c] \in Nat
    OBVIOUS
  <2> QED BY <2>3, <2>4, <2>5
<1>2. Frames(h) = Frames(f) \cup {u}
  <2>1. ASSUME NEW v \in Frames(h) PROVE v \in Frames(f) \cup {u}
    <3>1. PICK e \in Conns : \E k \in 1..h[e] : v = <<e, k>>
      BY FrameOf
    <3>2. PICK k \in 1..h[e] : v = <<e, k>>
      BY <3>1
    <3>3. CASE k \in 1..f[e]
      BY <3>2, <3>3, FrameOf
    <3>4. CASE k \notin 1..f[e]
      <4>1. f[e] \in Nat /\ h[e] \in Nat
        OBVIOUS
      <4>2. e = c /\ k = f[c] + 1
        BY <3>2, <3>4, <4>1
      <4> QED BY <3>2, <4>2
    <3> QED BY <3>3, <3>4
  <2>2. ASSUME NEW v \in Frames(f) PROVE v \in Frames(h)
    <3>1. PICK e \in Conns : \E k \in 1..f[e] : v = <<e, k>>
      BY FrameOf
    <3>2. PICK k \in 1..f[e] : v = <<e, k>>
      BY <3>1
    <3>3. f[e] \in Nat /\ h[e] \in Nat /\ f[e] <= h[e]
      OBVIOUS
    <3>4. k \in 1..h[e]
      BY <3>2, <3>3
    <3> QED BY <3>2, <3>4, FrameOf
  <2>3. u \in Frames(h)
    <3>1. f[c] + 1 \in 1..h[c]
      OBVIOUS
    <3> QED BY <3>1, FrameOf
  <2> QED BY <2>1, <2>2, <2>3
<1> QED BY <1>1, <1>2, FS_AddElement

LEMMA CountsAreNat ==
    ASSUME TypeOK
    PROVE  /\ [c \in Conns |-> g[c].d] \in [Conns -> Nat]
           /\ [c \in Conns |-> g[c].t] \in [Conns -> Nat]
           /\ total.d \in Nat /\ total.t \in Nat
  BY FieldTypes DEF Fields

LEMMA CountsAreNatNext ==
    ASSUME TypeOK'
    PROVE  /\ [c \in Conns |-> g'[c].d] \in [Conns -> Nat]
           /\ [c \in Conns |-> g'[c].t] \in [Conns -> Nat]
  BY FieldTypesNext DEF Fields

LEMMA CountDesktop ==
    ASSUME TypeOK, TypeOK', Totals, NEW c \in Conns,
           g' = [g EXCEPT ![c].dCredit = @ - 1, ![c].d = @ + 1],
           total' = [total EXCEPT !.d = @ + 1]
    PROVE  Totals'
<1> DEFINE f == [e \in Conns |-> g[e].d]
           h == [e \in Conns |-> g'[e].d]
<1>1. f \in [Conns -> Nat] /\ h \in [Conns -> Nat]
  BY CountsAreNat, CountsAreNatNext
<1>2. /\ g'[c].d = g[c].d + 1 /\ \A e \in Conns : e # c => g'[e].d = g[e].d
      /\ \A e \in Conns : g'[e].t = g[e].t
      /\ total'.d = total.d + 1 /\ total'.t = total.t
  <2>1. g \in [Conns -> GatewayConns] /\ total \in [d : 0..ByteLimit, t : 0..ByteLimit]
    BY DEF TypeOK, GatewayTypes
  <2> QED BY <2>1 DEF GatewayConns
<1>3. h[c] = f[c] + 1 /\ \A e \in Conns : e # c => h[e] = f[e]
  BY <1>2
<1>4. IsFiniteSet(Frames(f)) /\ total.d = Cardinality(Frames(f))
  BY DEF Totals, FromDesktop
<1> HIDE DEF f, h
<1>5. IsFiniteSet(Frames(h)) /\ total'.d = Cardinality(Frames(h))
  BY <1>1, <1>2, <1>3, <1>4, CountFrame
<1>6. Frames(h) = FromDesktop'
  BY DEF h, FromDesktop, Frames
<1>7. FromTarget' = FromTarget
  <2>1. [e \in Conns |-> g'[e].t] = [e \in Conns |-> g[e].t]
    BY <1>2
  <2> QED BY <2>1 DEF FromTarget, Frames
<1> QED BY <1>2, <1>5, <1>6, <1>7 DEF Totals

LEMMA CountTarget ==
    ASSUME TypeOK, TypeOK', Totals, NEW c \in Conns,
           g' = [g EXCEPT ![c].tCredit = @ - 1, ![c].t = @ + 1],
           total' = [total EXCEPT !.t = @ + 1]
    PROVE  Totals'
<1> DEFINE f == [e \in Conns |-> g[e].t]
           h == [e \in Conns |-> g'[e].t]
<1>1. f \in [Conns -> Nat] /\ h \in [Conns -> Nat]
  BY CountsAreNat, CountsAreNatNext
<1>2. /\ g'[c].t = g[c].t + 1 /\ \A e \in Conns : e # c => g'[e].t = g[e].t
      /\ \A e \in Conns : g'[e].d = g[e].d
      /\ total'.t = total.t + 1 /\ total'.d = total.d
  <2>1. g \in [Conns -> GatewayConns] /\ total \in [d : 0..ByteLimit, t : 0..ByteLimit]
    BY DEF TypeOK, GatewayTypes
  <2> QED BY <2>1 DEF GatewayConns
<1>3. h[c] = f[c] + 1 /\ \A e \in Conns : e # c => h[e] = f[e]
  BY <1>2
<1>4. IsFiniteSet(Frames(f)) /\ total.t = Cardinality(Frames(f))
  BY DEF Totals, FromTarget
<1> HIDE DEF f, h
<1>5. IsFiniteSet(Frames(h)) /\ total'.t = Cardinality(Frames(h))
  BY <1>1, <1>2, <1>3, <1>4, CountFrame
<1>6. Frames(h) = FromTarget'
  BY DEF h, FromTarget, Frames
<1>7. FromDesktop' = FromDesktop
  <2>1. [e \in Conns |-> g'[e].d] = [e \in Conns |-> g[e].d]
    BY <1>2
  <2> QED BY <2>1 DEF FromDesktop, Frames
<1> QED BY <1>2, <1>5, <1>6, <1>7 DEF Totals

\* After the agent's end is recorded a step changes none of what it says.
LEMMA EndedKept ==
    ASSUME Ended, gw' = "done", slot' = "gone", audit' = audit, total' = total,
           a' = a, acur' = acur, aloop' \in {aloop, "stopped"},
           \A c \in Conns : g'[c].st # "open" /\ g'[c].d = g[c].d /\ g'[c].t = g[c].t
    PROVE  Ended'
  BY DEF Ended, Connecting

LEMMA EndedForward ==
    ASSUME TypeOK, Ended, NEW m \in Messages, Forward(m)
    PROVE  gw' = "done" /\ audit' = audit
<1>1. gw = "done"
  BY DEF Ended
<1> QED BY <1>1 DEF Forward, Finish

LEMMA EndedGateway ==
    ASSUME IInv, Ended,
           Start \/ AuditFails \/ Desktop \/ ServeBrowser \/ AgentLive \/ Deliver
             \/ Timeout \/ LinkLost
    PROVE  Ended'
<1>1. TypeOK /\ gw = "done" /\ slot = "gone" /\ \A c \in Conns : g[c].st # "open"
  BY DEF IInv, Ended
<1>2. agentVars' = agentVars
  BY DEF Desktop, OpenConnection, DesktopData, GrantCredit, HalfClose, CloseConnection,
         CloseSession, AgentLive, FrameOfNoSession, OnOpened, OnEnd, OnError,
         OnConnectionOpened, OnWindow, OnHalfClose, OnConnectionEnd, OnData,
         AgentDisconnected, FinishAfterClose, Start, AuditFails, ServeBrowser, AuditStarted,
         OpenAtAgent, LoopEnds, Hangup, Deliver, Timeout, LinkLost
<1>3. slot' = "gone" /\ a' = a /\ acur' = acur /\ aloop' = aloop
  BY <1>1, <1>2 DEF agentVars, tableVars
<1>4. \A c \in Conns : g[c] \in GatewayConns
  BY <1>1, ConnTypes
<1>5. g \in [Conns -> GatewayConns]
  BY <1>1 DEF TypeOK, GatewayTypes
<1> SUFFICES /\ gw' = "done" /\ audit' = audit /\ total' = total
             /\ \A c \in Conns : g'[c].st # "open" /\ g'[c].d = g[c].d /\ g'[c].t = g[c].t
  BY <1>3, EndedKept
<1>6. CASE g' = g /\ UNCHANGED <<gw, audit, total>>
  BY <1>1, <1>6
<1>7. ASSUME NEW c \in Conns, OpenConnection(c)
      PROVE  /\ gw' = "done" /\ audit' = audit /\ total' = total
             /\ \A e \in Conns : g'[e].st # "open" /\ g'[e].d = g[e].d /\ g'[e].t = g[e].t
  <2>1. CASE g' = [g EXCEPT ![c].st = "pending"] /\ Forward(Msg("connection_open", c, 0))
    <3>1. gw' = "done" /\ audit' = audit
      BY <1>1, <2>1, DesktopFrames, EndedForward
    <3>2. \A e \in Conns : g'[e].st # "open" /\ g'[e].d = g[e].d /\ g'[e].t = g[e].t
      BY <1>1, <1>4, <1>5, <2>1 DEF GatewayConns
    <3> QED BY <1>7, <3>1, <3>2 DEF OpenConnection
  <2>2. CASE ProtocolError("desktop") /\ UNCHANGED g
    BY <1>1, <1>7, <2>2 DEF OpenConnection, ProtocolError, CloseWithReason
  <2> QED BY <1>7, <2>1, <2>2 DEF OpenConnection
<1>8. ASSUME NEW c \in Conns, DesktopData(c)
      PROVE  g' = g /\ UNCHANGED <<gw, audit, total>>
  BY <1>1, <1>8 DEF DesktopData, ProtocolError, CloseWithReason
<1>9. ASSUME NEW c \in Conns, GrantCredit(c) \/ HalfClose(c) \/ CloseConnection(c)
      PROVE  /\ gw' = "done" /\ audit' = audit /\ total' = total
             /\ \A e \in Conns : g'[e].st # "open" /\ g'[e].d = g[e].d /\ g'[e].t = g[e].t
  <2>1. PICK m \in Messages : Forward(m) \/ ProtocolError("desktop")
    BY <1>9, DesktopFrames DEF GrantCredit, HalfClose, CloseConnection
  <2>2. gw' = "done" /\ audit' = audit
    BY <1>1, <2>1, EndedForward DEF ProtocolError, CloseWithReason
  <2>3. total' = total
    BY <1>9 DEF GrantCredit, HalfClose, CloseConnection
  <2>4. \/ g' = g \/ g' = [g EXCEPT ![c].tCredit = @ + 1]
        \/ g' = [g EXCEPT ![c].closing = TRUE]
    BY <1>9 DEF GrantCredit, HalfClose, CloseConnection
  <2>5. \A e \in Conns : g'[e].st # "open" /\ g'[e].d = g[e].d /\ g'[e].t = g[e].t
    BY <1>1, <1>4, <1>5, <2>4 DEF GatewayConns
  <2> QED BY <2>2, <2>3, <2>5
<1>10. ASSUME CloseSession PROVE g' = g /\ gw' = "done" /\ UNCHANGED <<audit, total>>
  <2>1. g' = g /\ total' = total
    BY <1>10 DEF CloseSession
  <2>2. Session("close") \in Messages
    BY FrameType
  <2>3. CASE Forward(Session("close"))
    BY <1>1, <2>1, <2>2, <2>3, EndedForward
  <2>4. CASE CloseWithReason("desktop", "closed") \/ UNCHANGED <<gw, out, audit, ending, toAgent>>
    BY <1>1, <2>1, <2>4 DEF CloseWithReason
  <2> QED BY <1>10, <2>3, <2>4 DEF CloseSession
<1>11. CASE ServeBrowser
  <2>1. CASE OpenAtAgent
    <3>1. Session("open") \in Messages /\ Forward(Session("open")) /\ UNCHANGED <<g, total>>
      BY <2>1, FrameType DEF OpenAtAgent
    <3> QED BY <1>1, <3>1, EndedForward
  <2>2. CASE AuditStarted \/ LoopEnds \/ Hangup \/ FinishAfterClose("desktop")
    BY <1>1, <1>6, <2>2 DEF AuditStarted, LoopEnds, Hangup, FinishAfterClose, Finish
  <2> QED BY <1>11, <2>1, <2>2 DEF ServeBrowser
<1>12. CASE AgentLive
  BY <1>1, <1>6, <1>12 DEF AgentLive, FrameOfNoSession, OnOpened, OnEnd, OnError,
         OnConnectionOpened, OnWindow, OnHalfClose, OnConnectionEnd, OnData,
         AgentDisconnected, FinishAfterClose, Finish, gatewayVars
<1>13. CASE Start \/ AuditFails \/ Deliver \/ Timeout \/ LinkLost
  BY <1>1, <1>6, <1>13 DEF Start, AuditFails, Deliver, Timeout, LinkLost, gatewayVars
<1> QED BY <1>1, <1>6, <1>7, <1>8, <1>9, <1>10, <1>11, <1>12, <1>13 DEF Desktop

LEMMA EndedAgent ==
    ASSUME IInv, Ended, Loop \/ Watch \/ Closer \/ (\E c \in Conns : SendFrame(c) \/ Target(c))
    PROVE  Ended'
<1>1. /\ gw' = gw /\ audit' = audit /\ total' = total /\ g' = g
  BY AgentSteps DEF AgentOnly, gatewayVars
<1>2. /\ gw = "done" /\ slot = "gone" /\ acur \in Conns /\ aloop # "connecting"
      /\ \A c \in Conns : a[c].st \in {"none", "ended"} /\ g[c].st # "open"
  BY DEF IInv, TypeOK, AgentTypes, Ended, Connecting
<1>3. aloop # "draining"
  <2> SUFFICES ASSUME aloop = "draining" PROVE FALSE
    OBVIOUS
  <2>1. One(Draining(acur)) = 1
    BY DEF One, Draining
  <2>2. a[acur].d + One(Draining(acur)) + Count(toAgent, "data", acur) <= g[acur].d
    BY <1>2, InvParts DEF Life
  <2>3. a[acur].d = g[acur].d
    BY <1>2 DEF Ended
  <2>4. Count(toAgent, "data", acur) \in Nat /\ g[acur].d \in Nat
    BY <1>2, InvParts, ViewTypes, FieldTypes, KindNames DEF Views, Fields
  <2> QED BY <2>1, <2>2, <2>3, <2>4
<1>4. Live = {} /\ ~InTable /\ slot # "none" /\ slot # "open"
  BY <1>2 DEF Live, InTable
<1>5. slot' = "gone" /\ a' = a /\ acur' = acur /\ aloop' \in {aloop, "stopped"}
  <2>1. CASE Loop
    BY <1>2, <1>3, <1>4, <2>1
       DEF Loop, Open, Ignore, TcpOpened, TcpRefused, Drained, DrainFails, CloseFrame,
           StreamEnds, Closes, OpenTcp, WriteData, TakeCredit, DesktopHalfClosed, CloseTcp,
           agentVars, tableVars
  <2>2. CASE Watch \/ Closer
    BY <1>2, <1>4, <2>2 DEF Watch, Closes, Closer, SessionEnds, CloseNext, EmitConnectionEnd
  <2>3. ASSUME NEW c \in Conns, SendFrame(c) \/ Target(c) PROVE FALSE
    BY <1>4, <2>3 DEF SendFrame, Target, ReadFrame, ReadEof, ReadFails, Reading
  <2> QED BY <2>1, <2>2, <2>3
<1> QED BY <1>1, <1>2, <1>5, EndedKept

LEMMA EndedStays == ASSUME IInv, Ended, Next PROVE Ended'
  BY EndedGateway, EndedAgent DEF Next

\* A step that keeps the session and every connection.
LEMMA Carry ==
    ASSUME IInv, TypeOK', Next, SessionKept, Totals', \A c \in Conns : Holds(c)'
    PROVE  IInv'
<1>1. AuditInv'
  <2>1. audit'.reason = "ended" => Ended'
    BY EndedStays, InvParts DEF SessionKept, AuditInv
  <2> QED BY <2>1 DEF AuditInv, SessionKept
<1> QED BY <1>1 DEF IInv, Parts, SessionKept

LEMMA CarryStill ==
    ASSUME IInv, Next, Onward, SessionKept, TotalsKept, \A c \in Conns : Still(c)
    PROVE  IInv'
<1>1. TypeOK' /\ TypeOK /\ Totals'
  BY TypeNext, InvParts, TotalsUnchanged
<1>2. \A c \in Conns : Holds(c)'
  BY <1>1, InvParts, StillKeeps
<1> QED BY <1>1, <1>2, Carry

LEMMA CarryOne ==
    ASSUME IInv, Next, Onward, SessionKept, Totals', NEW c \in Conns,
           \A e \in Conns : e # c => Still(e), Holds(c)'
    PROVE  IInv'
<1>1. TypeOK' /\ TypeOK
  BY TypeNext, InvParts
<1>2. \A e \in Conns : Holds(e)'
  BY <1>1, InvParts, StillKeeps
<1> QED BY <1>1, <1>2, Carry

LEMMA ShownKept ==
    ASSUME TypeOK, TypeOK', NEW c \in Conns, Shown(c), Fewer(out', out, c),
           gw' # "done" /\ ending'["desktop"] = NoEnd => desk'[c].sent = g'[c].d,
           gw' # "done" /\ ending'["agent"] = NoEnd =>
              desk'[c].got + Count(out', "data", c) = g'[c].t,
           g[c].st = "ended" => g'[c].st = "ended",
           desk'[c].st = "ended" => desk[c].st = "ended"
    PROVE  Shown(c)'
<1>1. /\ Count(out', "connection_end", c) <= Count(out, "connection_end", c)
      /\ Count(out', "data", c) <= Count(out, "data", c) /\ DataFirst(out', c)
  BY KindNames DEF Fewer, Shown
<1>2. /\ Count(out', "connection_end", c) \in Nat /\ Count(out, "connection_end", c) \in Nat
      /\ Count(out', "data", c) \in Nat /\ Count(out, "data", c) \in Nat
  BY KindNames, ViewTypes, ViewTypesNext DEF Views
<1>3. /\ Count(out', "connection_end", c) > 0 => Count(out, "connection_end", c) > 0
      /\ Count(out, "data", c) = 0 => Count(out', "data", c) = 0
  BY <1>1, <1>2
<1> QED BY <1>1, <1>3 DEF Shown

\* What the desktop does to its own view.
DeskSame(c) ==
    /\ desk'[c].credit = desk[c].credit /\ desk'[c].sent = desk[c].sent
    /\ desk'[c].got = desk[c].got
    /\ desk'[c].st = "none" => desk[c].st = "none"
    /\ desk'[c].st = "ended" => desk[c].st = "ended"

LEMMA DeskUpdates ==
    ASSUME TypeOK, NEW c \in Conns,
           \/ desk' = [desk EXCEPT ![c].st = "asked"]
           \/ desk' = [desk EXCEPT ![c].st = "closing"]
           \/ desk' = [desk EXCEPT ![c].half = TRUE]
           \/ desk' = [desk EXCEPT ![c].owed = @ - 1]
           \/ desk' = desk
    PROVE  \A e \in Conns : DeskSame(e) /\ StillDesk(e)
<1>1. desk \in [Conns -> DesktopConns]
  BY DEF TypeOK, DesktopTypes
<1>2. ASSUME NEW e \in Conns PROVE DeskSame(e)
  BY <1>1 DEF DesktopConns, DeskSame
<1>3. ASSUME NEW e \in Conns PROVE desk[e].credit \in Nat
  BY FieldTypes DEF Fields
<1>4. ASSUME NEW e \in Conns PROVE StillDesk(e)
  BY <1>2, <1>3 DEF DeskSame, StillDesk
<1> QED BY <1>2, <1>4

LEMMA DesktopSendsLoop == ASSUME IInv, DesktopSends PROVE loop # "off"
  BY DEF DesktopSends, Receiving

LEMMA DesktopQuiet ==
    ASSUME IInv, Next, NEW c \in Conns, DesktopSends,
           agentVars' = agentVars, link' = link, toGateway' = toGateway,
           \A e \in Conns : StillDesk(e) /\ StillGateway(e), TotalsKept,
           \/ ProtocolError("desktop") /\ loop' = loop
           \/ CloseWithReason("desktop", "closed") /\ loop' = loop
           \/ \E m \in Messages : Forward(m) /\ \A e : Other(m, e)
    PROVE  IInv'
<1>1. "desktop" \in Tasks /\ loop # "off"
  BY DesktopSendsLoop DEF Tasks
<1>2. Onward /\ SessionKept /\ \A e \in Conns : StillQueues(e) /\ StillAgent(e)
  <2>1. CASE ProtocolError("desktop") /\ loop' = loop
    BY <1>1, <2>1, CloseStep DEF ProtocolError
  <2>2. CASE CloseWithReason("desktop", "closed") /\ loop' = loop
    BY <1>1, <2>2, CloseStep
  <2>3. ASSUME NEW m \in Messages, Forward(m), \A e : Other(m, e)
        PROVE  Onward /\ SessionKept /\ \A e \in Conns : StillQueues(e) /\ StillAgent(e)
    BY <1>1, <2>3, ForwardStep
  <2> QED BY <2>1, <2>2, <2>3
<1>3. \A e \in Conns : Still(e)
  BY <1>2 DEF Still
<1> QED BY <1>2, <1>3, CarryStill

LEMMA StepOpenConnection ==
    ASSUME IInv, NEW c \in Conns, OpenConnection(c)
    PROVE  IInv'
<1>0. Next
  BY DEF Next, Desktop
<1>1. /\ DesktopSends /\ desk[c].st = "none"
      /\ desk' = [desk EXCEPT ![c].st = "asked"]
      /\ total' = total /\ agentVars' = agentVars /\ link' = link /\ toGateway' = toGateway
  BY DEF OpenConnection
<1>2. TypeOK /\ TypeOK' /\ Life(c) /\ Shown(c) /\ Bounds(c) /\ loop # "off" /\ Totals
  BY <1>0, <1>1, InvParts, TypeNext, DesktopSendsLoop
<1>3. \A e \in Conns : DeskSame(e) /\ StillDesk(e)
  BY <1>1, <1>2, DeskUpdates
<1>4. CASE ProtocolError("desktop") /\ UNCHANGED <<g, loop>>
  <2>1. \A e \in Conns : StillGateway(e)
    BY <1>1, <1>2, <1>4, PartsKept
  <2>2. TotalsKept
    BY <1>1, <1>4 DEF TotalsKept
  <2> QED BY <1>0, <1>1, <1>3, <1>4, <2>1, <2>2, DesktopQuiet
<1>5. CASE g' = [g EXCEPT ![c].st = "pending"] /\ Forward(Msg("connection_open", c, 0))
  <2> DEFINE m == Msg("connection_open", c, 0)
  <2>1. m \in Messages /\ m.kind = "connection_open" /\ \A e : e # c => Other(m, e)
    BY KindNames, FrameType
  <2>2. /\ Onward /\ SessionKept
        /\ Same(out', out, c) \/ (gw' = "done" /\ Fewer(out', out, c))
        /\ \A e : Other(m, e) => StillQueues(e)
        /\ \A e \in Conns : StillAgent(e)
    BY <1>1, <1>2, <1>5, <2>1, ForwardStep
  <2>3. /\ toAgent' = (IF link = "up" THEN Append(toAgent, m) ELSE toAgent)
        /\ ending' = ending /\ gw' \in {gw, "done"} /\ loop' \in {"receiving", "stopped"}
    BY <1>2, <1>5, <2>1, ForwardShape
  <2> HIDE DEF m
  <2>4. /\ g'[c].st = "pending"
        /\ \A e \in Conns : /\ e # c => g'[e].st = g[e].st
                            /\ g'[e].dCredit = g[e].dCredit /\ g'[e].tCredit = g[e].tCredit
                            /\ g'[e].d = g[e].d /\ g'[e].t = g[e].t
    <3>1. g \in [Conns -> GatewayConns]
      BY <1>2 DEF TypeOK, GatewayTypes
    <3> QED BY <1>5, <3>1 DEF GatewayConns
  <2>5. \A e \in Conns : e # c => Still(e)
    <3>1. ASSUME NEW e \in Conns, e # c PROVE StillGateway(e)
      BY <1>1, <1>2, <2>4, <3>1, FieldTypes DEF StillGateway, Fields
    <3> QED BY <1>3, <2>1, <2>2, <3>1 DEF Still
  <2>6. Totals'
    BY <1>1, <1>2, <2>4, TotalsUnchanged DEF TotalsKept
  <2>7. g[c].st = "none" /\ a[c].st = "none" /\ Untouched(c) /\ ~Connecting(c)
    BY <1>1, <1>2 DEF Life
  <2>8. /\ Count(toAgent', "data", c) = Count(toAgent, "data", c)
        /\ Count(toAgent', "window", c) = Count(toAgent, "window", c)
    <3>1. toAgent \in Seq(Messages)
      BY <1>2 DEF TypeOK, LinkTypes
    <3>2. Count(toAgent, "data", c) \in Nat /\ Count(toAgent, "window", c) \in Nat
      BY <3>1, IndicesType
    <3>3. One(m.kind = "data" /\ m.c = c) = 0 /\ One(m.kind = "window" /\ m.c = c) = 0
      BY <2>1 DEF One
    <3> QED BY <2>1, <2>3, <3>1, <3>2, <3>3, CountAppend
  <2>9. UNCHANGED <<a, aloop, acur, slot>>
    BY <1>1 DEF agentVars, tableVars
  <2>10. Fewer(out', out, c)
    <3>1. out \in Seq(Messages)
      BY <1>2 DEF TypeOK, GatewayTypes
    <3> QED BY <2>2, <3>1, SameFewer
  <2>11. Bounds(c)'
    <3>1. /\ desk[c].credit \in Nat /\ g[c].dCredit \in Nat
          /\ Credit(out, c) \in Nat /\ Credit(out', c) \in Nat
      BY <1>2, FieldTypes, ViewTypes, ViewTypesNext DEF Fields, Views
    <3>2. Credit(out', c) <= Credit(out, c) /\ desk'[c].credit = desk[c].credit
      BY <1>3, <2>10 DEF Fewer, DeskSame
    <3>3. desk'[c].credit + Credit(out', c) <= g'[c].dCredit
      BY <1>2, <2>4, <3>1, <3>2 DEF Bounds
    <3> QED BY <1>1, <1>2, <2>4, <2>9, <3>3 DEF Bounds
  <2>12. Life(c)'
    <3>1. ~Draining(c)' /\ ~Connecting(c)' /\ ~Draining(c)
      BY <2>7, <2>9 DEF Draining, Connecting, Untouched
    <3>2. Untouched(c)'
      BY <1>1, <2>4, <2>7, <2>8, <2>9, <3>1 DEF Untouched
    <3>3. desk'[c].st # "none"
      <4>1. desk \in [Conns -> DesktopConns]
        BY <1>2 DEF TypeOK, DesktopTypes
      <4> QED BY <1>1, <4>1 DEF DesktopConns
    <3>4. Receipts(toGateway', c, a'[c].d, a'[c].t)
      BY <1>1, <1>2, <2>9 DEF Life
    <3>5. a'[c].d + One(Draining(c)') + Count(toAgent', "data", c) <= g'[c].d
      BY <1>2, <2>4, <2>8, <2>9, <3>1 DEF Life, One
    <3> QED BY <1>1, <1>2, <2>3, <2>4, <2>7, <2>9, <3>1, <3>2, <3>3, <3>4, <3>5 DEF Life, Untouched
  <2>13. Shown(c)'
    <3>1. gw' # "done" => gw # "done" /\ Count(out', "data", c) = Count(out, "data", c)
      BY <2>2, <2>3, KindNames DEF Same
    <3>2. /\ gw' # "done" /\ ending'["desktop"] = NoEnd => desk'[c].sent = g'[c].d
          /\ gw' # "done" /\ ending'["agent"] = NoEnd =>
                desk'[c].got + Count(out', "data", c) = g'[c].t
      BY <1>2, <1>3, <2>3, <2>4, <3>1 DEF Shown, DeskSame
    <3>3. desk'[c].st = "ended" => desk[c].st = "ended"
      BY <1>3 DEF DeskSame
    <3> QED BY <1>2, <2>7, <2>10, <3>2, <3>3, ShownKept
  <2>14. Flow(c)'
    BY <2>7, <2>9 DEF Flow, Flowing
  <2>15. Holds(c)'
    BY <2>11, <2>12, <2>13, <2>14 DEF Holds
  <2> QED BY <1>0, <2>2, <2>5, <2>6, <2>15, CarryOne
<1> QED BY <1>4, <1>5 DEF OpenConnection

LEMMA LifeDesktop ==
    ASSUME Onward, NEW c \in Conns, Life(c), a[c].st # "none",
           UNCHANGED <<a, aloop, acur, slot, toGateway>>,
           g'[c].st = g[c].st, g[c].st = "ended" => g'[c].d = g[c].d /\ g'[c].t = g[c].t,
           desk'[c].st = "none" => desk[c].st = "none",
           a[c].d + One(Draining(c)) + Count(toAgent', "data", c) <= g'[c].d
    PROVE  Life(c)'
<1>1. (Draining(c)' <=> Draining(c)) /\ (Connecting(c)' <=> Connecting(c))
  BY DEF Draining, Connecting
<1>2. a'[c].d + One(Draining(c)') + Count(toAgent', "data", c) <= g'[c].d
  BY <1>1 DEF One
<1>3. loop' = "off" => loop = "off"
  BY DEF Onward
<1> QED BY <1>1, <1>2, <1>3 DEF Life

LEMMA StepGrantCredit ==
    ASSUME IInv, NEW c \in Conns, GrantCredit(c)
    PROVE  IInv'
<1>0. Next
  BY DEF Next, Desktop
<1>1. /\ DesktopSends /\ desk' = [desk EXCEPT ![c].owed = @ - 1]
      /\ total' = total /\ agentVars' = agentVars /\ link' = link /\ toGateway' = toGateway
  BY DEF GrantCredit
<1>2. TypeOK /\ TypeOK' /\ Holds(c) /\ Life(c) /\ Shown(c) /\ Bounds(c) /\ Flow(c)
      /\ loop # "off" /\ Totals
  BY <1>0, <1>1, InvParts, TypeNext, DesktopSendsLoop
<1>3. \A e \in Conns : DeskSame(e) /\ StillDesk(e)
  BY <1>1, <1>2, DeskUpdates
<1>4. CASE ProtocolError("desktop") /\ UNCHANGED <<g, loop>>
  <2>1. \A e \in Conns : StillGateway(e)
    BY <1>1, <1>2, <1>4, PartsKept
  <2>2. TotalsKept
    BY <1>1, <1>4 DEF TotalsKept
  <2> QED BY <1>0, <1>1, <1>3, <1>4, <2>1, <2>2, DesktopQuiet
<1>5. CASE /\ g[c].tCredit < Window /\ g' = [g EXCEPT ![c].tCredit = @ + 1]
           /\ Forward(Msg("window", c, 1))
  <2> DEFINE m == Msg("window", c, 1)
  <2>1. m \in Messages /\ m.kind = "window" /\ m.c = c /\ \A e : e # c => Other(m, e)
    BY KindNames, FrameType
  <2>2. /\ Onward /\ SessionKept
        /\ Same(out', out, c) \/ (gw' = "done" /\ Fewer(out', out, c))
        /\ \A e : Other(m, e) => StillQueues(e)
        /\ \A e \in Conns : StillAgent(e)
    BY <1>1, <1>2, <1>5, <2>1, ForwardStep
  <2>3. /\ toAgent' = (IF link = "up" THEN Append(toAgent, m) ELSE toAgent)
        /\ ending' = ending /\ gw' \in {gw, "done"} /\ loop' \in {"receiving", "stopped"}
    BY <1>2, <1>5, <2>1, ForwardShape
  <2> HIDE DEF m
  <2>4. /\ g'[c].tCredit = g[c].tCredit + 1
        /\ \A e \in Conns : /\ e # c => g'[e].tCredit = g[e].tCredit
                            /\ g'[e].st = g[e].st /\ g'[e].dCredit = g[e].dCredit
                            /\ g'[e].d = g[e].d /\ g'[e].t = g[e].t
    <3>1. g \in [Conns -> GatewayConns]
      BY <1>2 DEF TypeOK, GatewayTypes
    <3> QED BY <1>5, <3>1 DEF GatewayConns
  <2>5. \A e \in Conns : e # c => Still(e)
    <3>1. ASSUME NEW e \in Conns, e # c PROVE StillGateway(e)
      BY <1>1, <1>2, <2>4, <3>1, FieldTypes DEF StillGateway, Fields
    <3> QED BY <1>3, <2>1, <2>2, <3>1 DEF Still
  <2>6. Totals'
    BY <1>1, <1>2, <2>4, TotalsUnchanged DEF TotalsKept
  <2>7. a[c].st # "none"
    <3>1. g[c].tCredit # Window
      BY <1>2, <1>5, FieldTypes DEF Fields
    <3> QED BY <1>2, <3>1 DEF Life, Untouched
  <2>8. /\ Count(toAgent', "data", c) = Count(toAgent, "data", c)
        /\ link = "up" => Count(toAgent', "window", c) = Count(toAgent, "window", c) + 1
    <3>1. toAgent \in Seq(Messages)
      BY <1>2 DEF TypeOK, LinkTypes
    <3>2. Count(toAgent, "data", c) \in Nat
      BY <3>1, IndicesType
    <3>3. One(m.kind = "data" /\ m.c = c) = 0 /\ One(m.kind = "window" /\ m.c = c) = 1
      BY <2>1 DEF One
    <3> QED BY <2>1, <2>3, <3>1, <3>2, <3>3, CountAppend
  <2>9. UNCHANGED <<a, aloop, acur, slot>>
    BY <1>1 DEF agentVars, tableVars
  <2>10. Fewer(out', out, c)
    <3>1. out \in Seq(Messages)
      BY <1>2 DEF TypeOK, GatewayTypes
    <3> QED BY <2>2, <3>1, SameFewer
  <2>11. Bounds(c)'
    <3>1. /\ desk[c].credit \in Nat /\ g[c].dCredit \in Nat
          /\ Credit(out, c) \in Nat /\ Credit(out', c) \in Nat
      BY <1>2, FieldTypes, ViewTypes, ViewTypesNext DEF Fields, Views
    <3>2. Credit(out', c) <= Credit(out, c) /\ desk'[c].credit = desk[c].credit
      BY <1>3, <2>10 DEF Fewer, DeskSame
    <3>3. desk'[c].credit + Credit(out', c) <= g'[c].dCredit
      BY <1>2, <2>4, <3>1, <3>2 DEF Bounds
    <3> QED BY <1>1, <1>2, <2>4, <2>9, <3>3 DEF Bounds
  <2>12. Life(c)'
    <3>1. a[c].d + One(Draining(c)) + Count(toAgent', "data", c) <= g'[c].d
      BY <1>2, <2>4, <2>8 DEF Life
    <3>2. desk'[c].st = "none" => desk[c].st = "none"
      BY <1>3 DEF DeskSame
    <3> QED BY <1>1, <1>2, <2>2, <2>4, <2>7, <2>9, <3>1, <3>2, LifeDesktop
  <2>13. Shown(c)'
    <3>1. gw' # "done" => gw # "done" /\ Count(out', "data", c) = Count(out, "data", c)
      BY <2>2, <2>3, KindNames DEF Same
    <3>2. /\ gw' # "done" /\ ending'["desktop"] = NoEnd => desk'[c].sent = g'[c].d
          /\ gw' # "done" /\ ending'["agent"] = NoEnd =>
                desk'[c].got + Count(out', "data", c) = g'[c].t
      BY <1>2, <1>3, <2>3, <2>4, <3>1 DEF Shown, DeskSame
    <3>3. desk'[c].st = "ended" => desk[c].st = "ended"
      BY <1>3 DEF DeskSame
    <3> QED BY <1>2, <2>4, <2>10, <3>2, <3>3, ShownKept
  <2>14. Flow(c)'
    <3> SUFFICES ASSUME Flowing(c)'
                 PROVE  (/\ g[c].dCredit + Count(toAgent, "data", c) + One(Draining(c))
                             + Credit(toGateway, c) = Window
                         /\ a[c].credit + One(a[c].reader = "emitting")
                             + Count(toGateway, "data", c) + Count(toAgent, "window", c)
                             = g[c].tCredit
                         /\ g[c].st = "pending" => OpenedFirst(toGateway, c)
                         /\ Sequenced(toGateway, c, g[c].t,
                                      a[c].t - One(a[c].reader = "emitting")))'
      BY DEF Flow
    <3>1. Flowing(c) /\ link = "up"
      BY <1>1, <2>3, <2>9 DEF Flowing
    <3>2. One(Draining(c)') = One(Draining(c))
      BY <2>9 DEF One, Draining
    <3>3. /\ a[c].credit + One(a[c].reader = "emitting")
              + Count(toGateway, "data", c) + Count(toAgent', "window", c) = g[c].tCredit + 1
      <4>1. /\ a[c].credit \in Nat /\ Count(toGateway, "data", c) \in Nat
            /\ Count(toAgent, "window", c) \in Nat /\ g[c].tCredit \in Nat
        BY <1>2, FieldTypes, ViewTypes, KindNames DEF Fields, Views
      <4>2. One(a[c].reader = "emitting") \in 0..1
        BY DEF One
      <4>3. a[c].credit + One(a[c].reader = "emitting")
              + Count(toGateway, "data", c) + Count(toAgent, "window", c) = g[c].tCredit
        BY <1>2, <3>1 DEF Flow
      <4> QED BY <2>8, <3>1, <4>1, <4>2, <4>3
    <3> QED BY <1>1, <1>2, <2>4, <2>8, <2>9, <3>1, <3>2, <3>3 DEF Flow
  <2>15. Holds(c)'
    BY <2>11, <2>12, <2>13, <2>14 DEF Holds
  <2> QED BY <1>0, <2>2, <2>5, <2>6, <2>15, CarryOne
<1> QED BY <1>4, <1>5 DEF GrantCredit

LEMMA StepDesktopQuiet ==
    ASSUME IInv, NEW c \in Conns, HalfClose(c) \/ CloseConnection(c)
    PROVE  IInv'
<1>0. Next
  BY DEF Next, Desktop
<1>1. /\ DesktopSends
      /\ desk' = [desk EXCEPT ![c].half = TRUE] \/ desk' = [desk EXCEPT ![c].st = "closing"]
      /\ g' = g \/ g' = [g EXCEPT ![c].closing = TRUE]
      /\ total' = total /\ agentVars' = agentVars /\ link' = link /\ toGateway' = toGateway
      /\ \/ ProtocolError("desktop") /\ loop' = loop
         \/ Forward(Msg("half_close", c, 0)) \/ Forward(Msg("connection_close", c, 0))
  BY DEF HalfClose, CloseConnection
<1>2. TypeOK
  BY InvParts
<1>3. \A e \in Conns : DeskSame(e) /\ StillDesk(e)
  BY <1>1, <1>2, DeskUpdates
<1>4. \A e \in Conns : /\ g'[e].st = g[e].st /\ g'[e].dCredit = g[e].dCredit
                       /\ g'[e].tCredit = g[e].tCredit
                       /\ g'[e].d = g[e].d /\ g'[e].t = g[e].t
  <2>1. g \in [Conns -> GatewayConns]
    BY <1>2 DEF TypeOK, GatewayTypes
  <2> QED BY <1>1, <2>1 DEF GatewayConns
<1>5. TotalsKept /\ \A e \in Conns : StillGateway(e)
  BY <1>1, <1>2, <1>4, FieldTypes DEF TotalsKept, StillGateway, Fields
<1>6. /\ Msg("half_close", c, 0) \in Messages /\ \A e : Other(Msg("half_close", c, 0), e)
      /\ Msg("connection_close", c, 0) \in Messages
      /\ \A e : Other(Msg("connection_close", c, 0), e)
  BY FrameType
<1> QED BY <1>0, <1>1, <1>3, <1>5, <1>6, DesktopQuiet

LEMMA StepDesktopData ==
    ASSUME IInv, NEW c \in Conns, DesktopData(c)
    PROVE  IInv'
<1>0. Next
  BY DEF Next, Desktop
<1>1. /\ DesktopSends /\ desk[c].credit > 0
      /\ desk' = [desk EXCEPT ![c].credit = @ - 1, ![c].sent = @ + 1]
      /\ agentVars' = agentVars /\ link' = link /\ toGateway' = toGateway
  BY DEF DesktopData
<1>2. TypeOK /\ TypeOK' /\ Holds(c) /\ Life(c) /\ Shown(c) /\ Bounds(c) /\ Flow(c)
      /\ loop # "off" /\ Totals
  BY <1>0, <1>1, InvParts, TypeNext, DesktopSendsLoop
<1>3. /\ desk'[c].credit = desk[c].credit - 1 /\ desk'[c].sent = desk[c].sent + 1
      /\ desk'[c].got = desk[c].got /\ desk'[c].st = desk[c].st
      /\ \A e \in Conns : e # c => desk'[e] = desk[e]
  <2>1. desk \in [Conns -> DesktopConns]
    BY <1>2 DEF TypeOK, DesktopTypes
  <2> QED BY <1>1, <2>1 DEF DesktopConns
<1>4. \A e \in Conns : e # c => StillDesk(e)
  BY <1>2, <1>3, FieldTypes DEF StillDesk, Fields
<1>5. CASE /\ CloseWithReason("desktop", "closed") \/ ProtocolError("desktop")
           /\ UNCHANGED <<g, total, loop>>
  <2>1. "desktop" \in Tasks
    BY DEF Tasks
  <2>2. PICK r \in {"closed", "error"} : CloseWithReason("desktop", r)
    BY <1>5 DEF ProtocolError
  <2>3. ending'["desktop"] # NoEnd
    BY <1>1, <1>5, <2>1, <2>2, CloseStep
  <2>4. StillDesk(c)
    <3>1. desk[c].credit \in Nat
      BY <1>2, FieldTypes DEF Fields
    <3> QED BY <1>3, <2>3, <3>1 DEF StillDesk
  <2>5. TotalsKept /\ \A e \in Conns : StillGateway(e)
    BY <1>2, <1>5, PartsKept DEF TotalsKept
  <2> QED BY <1>0, <1>1, <1>4, <1>5, <2>4, <2>5, DesktopQuiet
<1>6. CASE /\ g[c].st = "open" /\ g[c].dCredit > 0 /\ g[c].d = desk[c].sent
           /\ g' = [g EXCEPT ![c].dCredit = @ - 1, ![c].d = @ + 1]
           /\ total' = [total EXCEPT !.d = @ + 1]
           /\ Forward(Msg("data", c, desk[c].sent))
  <2> DEFINE m == Msg("data", c, desk[c].sent)
  <2>0. desk[c].sent \in Nat
    BY <1>2, FieldTypes DEF Fields
  <2>1. m \in Messages /\ m.kind = "data" /\ m.c = c /\ \A e : e # c => Other(m, e)
    BY <2>0, KindNames, FrameType
  <2>2. /\ Onward /\ SessionKept
        /\ Same(out', out, c) \/ (gw' = "done" /\ Fewer(out', out, c))
        /\ \A e : Other(m, e) => StillQueues(e)
        /\ \A e \in Conns : StillAgent(e)
    BY <1>1, <1>2, <1>6, <2>1, ForwardStep
  <2>3. /\ toAgent' = (IF link = "up" THEN Append(toAgent, m) ELSE toAgent)
        /\ ending' = ending /\ gw' \in {gw, "done"} /\ loop' \in {"receiving", "stopped"}
    BY <1>2, <1>6, <2>1, ForwardShape
  <2> HIDE DEF m
  <2>4. /\ g'[c].dCredit = g[c].dCredit - 1 /\ g'[c].d = g[c].d + 1
        /\ g'[c].st = g[c].st /\ g'[c].t = g[c].t /\ g'[c].tCredit = g[c].tCredit
        /\ \A e \in Conns : e # c => g'[e] = g[e]
        /\ total'.d = total.d + 1 /\ total'.t = total.t
    <3>1. g \in [Conns -> GatewayConns] /\ total \in [d : 0..ByteLimit, t : 0..ByteLimit]
      BY <1>2 DEF TypeOK, GatewayTypes
    <3> QED BY <1>6, <3>1 DEF GatewayConns
  <2>5. \A e \in Conns : e # c => Still(e)
    <3>1. ASSUME NEW e \in Conns, e # c PROVE StillGateway(e)
      BY <1>1, <1>2, <2>4, <3>1, FieldTypes DEF StillGateway, Fields
    <3> QED BY <1>4, <2>1, <2>2, <3>1 DEF Still
  <2>6. Totals'
    BY <1>2, <1>6, CountDesktop
  <2>7. a[c].st # "none"
    BY <1>2, <1>6 DEF Life
  <2>8. /\ link = "up" => Count(toAgent', "data", c) = Count(toAgent, "data", c) + 1
        /\ link # "up" => Count(toAgent', "data", c) = Count(toAgent, "data", c)
        /\ Count(toAgent', "window", c) = Count(toAgent, "window", c)
        /\ Count(toAgent, "data", c) \in Nat
    <3>1. toAgent \in Seq(Messages)
      BY <1>2 DEF TypeOK, LinkTypes
    <3>2. Count(toAgent, "window", c) \in Nat /\ Count(toAgent, "data", c) \in Nat
      BY <3>1, IndicesType
    <3>3. One(m.kind = "data" /\ m.c = c) = 1 /\ One(m.kind = "window" /\ m.c = c) = 0
      BY <2>1 DEF One
    <3> QED BY <2>1, <2>3, <3>1, <3>2, <3>3, CountAppend
  <2>9. UNCHANGED <<a, aloop, acur, slot>>
    BY <1>1 DEF agentVars, tableVars
  <2>10. Fewer(out', out, c)
    <3>1. out \in Seq(Messages)
      BY <1>2 DEF TypeOK, GatewayTypes
    <3> QED BY <2>2, <3>1, SameFewer
  <2>11. Bounds(c)'
    <3>1. /\ desk[c].credit \in Nat /\ g[c].dCredit \in Nat
          /\ Credit(out, c) \in Nat /\ Credit(out', c) \in Nat
          /\ g[c].d \in Nat /\ total.d \in Nat
      BY <1>2, FieldTypes, ViewTypes, ViewTypesNext DEF Fields, Views
    <3>2. Credit(out', c) <= Credit(out, c)
      BY <2>10 DEF Fewer
    <3>3. desk'[c].credit + Credit(out', c) <= g'[c].dCredit
      BY <1>2, <1>3, <2>4, <3>1, <3>2 DEF Bounds
    <3>4. g'[c].d <= total'.d
      BY <1>2, <2>4, <3>1 DEF Bounds
    <3> QED BY <1>2, <2>4, <2>9, <3>3, <3>4 DEF Bounds
  <2>12. Life(c)'
    <3>1. a[c].d + One(Draining(c)) + Count(toAgent', "data", c) <= g'[c].d
      <4>1. a[c].d \in Nat /\ g[c].d \in Nat /\ One(Draining(c)) \in 0..1
        BY <1>2, FieldTypes DEF Fields, One
      <4>2. a[c].d + One(Draining(c)) + Count(toAgent, "data", c) <= g[c].d
        BY <1>2 DEF Life
      <4> QED BY <2>4, <2>8, <4>1, <4>2
    <3> QED BY <1>1, <1>2, <1>3, <1>6, <2>2, <2>4, <2>7, <2>9, <3>1, LifeDesktop
  <2>13. Shown(c)'
    <3>1. gw' # "done" => gw # "done" /\ Count(out', "data", c) = Count(out, "data", c)
      BY <2>2, <2>3, KindNames DEF Same
    <3>2. /\ gw' # "done" /\ ending'["desktop"] = NoEnd => desk'[c].sent = g'[c].d
          /\ gw' # "done" /\ ending'["agent"] = NoEnd =>
                desk'[c].got + Count(out', "data", c) = g'[c].t
      BY <1>2, <1>3, <1>6, <2>3, <2>4, <3>1 DEF Shown
    <3> QED BY <1>2, <1>3, <2>4, <2>10, <3>2, ShownKept
  <2>14. Flow(c)'
    <3> SUFFICES ASSUME Flowing(c)'
                 PROVE  (/\ g[c].dCredit + Count(toAgent, "data", c) + One(Draining(c))
                             + Credit(toGateway, c) = Window
                         /\ a[c].credit + One(a[c].reader = "emitting")
                             + Count(toGateway, "data", c) + Count(toAgent, "window", c)
                             = g[c].tCredit
                         /\ g[c].st = "pending" => OpenedFirst(toGateway, c)
                         /\ Sequenced(toGateway, c, g[c].t,
                                      a[c].t - One(a[c].reader = "emitting")))'
      BY DEF Flow
    <3>1. Flowing(c) /\ link = "up"
      BY <1>1, <2>3, <2>9 DEF Flowing
    <3>2. One(Draining(c)') = One(Draining(c)) /\ One(Draining(c)) \in 0..1
      BY <2>9 DEF One, Draining
    <3>3. g'[c].dCredit + Count(toAgent', "data", c) + One(Draining(c))
            + Credit(toGateway, c) = Window
      <4>1. g[c].dCredit \in Nat /\ Credit(toGateway, c) \in Nat
        BY <1>2, FieldTypes, ViewTypes DEF Fields, Views
      <4>2. g[c].dCredit + Count(toAgent, "data", c) + One(Draining(c))
              + Credit(toGateway, c) = Window
        BY <1>2, <3>1 DEF Flow
      <4> QED BY <2>4, <2>8, <3>1, <3>2, <4>1, <4>2
    <3> QED BY <1>1, <1>2, <2>4, <2>8, <2>9, <3>1, <3>2, <3>3 DEF Flow
  <2>15. Holds(c)'
    BY <2>11, <2>12, <2>13, <2>14 DEF Holds
  <2> QED BY <1>0, <2>2, <2>5, <2>6, <2>15, CarryOne
<1> QED BY <1>5, <1>6 DEF DesktopData

LEMMA StepCloseSession ==
    ASSUME IInv, CloseSession
    PROVE  IInv'
<1>0. Next
  BY DEF Next, Desktop
<1>1. /\ DesktopSends /\ UNCHANGED <<g, total, desk>>
      /\ agentVars' = agentVars /\ link' = link /\ toGateway' = toGateway
  BY DEF CloseSession
<1>2. TypeOK /\ LoopInv /\ AuditInv
  BY InvParts
<1>3. TotalsKept /\ \A e \in Conns : StillGateway(e) /\ StillDesk(e)
  BY <1>1, <1>2, PartsKept DEF TotalsKept
<1>4. PICK c \in Conns : TRUE
  BY AnyoneType
<1>5. CASE Forward(Session("close")) \/ (CloseWithReason("desktop", "closed") /\ loop' = loop)
  <2>1. Session("close") \in Messages /\ \A e : Other(Session("close"), e)
    BY FrameType
  <2> QED BY <1>0, <1>1, <1>3, <1>4, <1>5, <2>1, DesktopQuiet
<1>6. CASE gw = "done" /\ loop' = "stopped" /\ UNCHANGED <<gw, out, audit, ending, toAgent>>
  <2>1. slot' = slot /\ UNCHANGED <<a, aloop, acur>>
    BY <1>1 DEF agentVars, tableVars
  <2>2. Onward
    BY <1>1, <1>6, <2>1 DEF Onward
  <2>3. SessionKept
    BY <1>1, <1>2, <1>6, <2>1 DEF SessionKept, LoopInv, AuditInv
  <2>4. \A e \in Conns : Still(e)
    BY <1>1, <1>2, <1>3, <1>6, <2>1, PartsKept DEF Still
  <2> QED BY <1>0, <1>3, <2>2, <2>3, <2>4, CarryStill
<1> QED BY <1>5, <1>6 DEF CloseSession

LEMMA StepServeBrowser ==
    ASSUME IInv, Start \/ AuditFails \/ AuditStarted \/ OpenAtAgent \/ LoopEnds \/ Hangup
                   \/ Timeout \/ LinkLost
    PROVE  IInv'
<1>0. Next
  BY DEF Next, ServeBrowser
<1>1. /\ UNCHANGED <<g, total, desk, toGateway>> /\ agentVars' = agentVars
  BY DEF Start, AuditFails, AuditStarted, OpenAtAgent, LoopEnds, Hangup, Timeout, LinkLost,
         gatewayVars, deskVars
<1>2. TypeOK /\ LoopInv /\ AuditInv /\ out \in Seq(Messages) /\ toAgent \in Seq(Messages)
  BY InvParts DEF TypeOK, GatewayTypes, LinkTypes
<1>3. TotalsKept /\ \A e \in Conns : StillGateway(e) /\ StillDesk(e)
  BY <1>1, <1>2, PartsKept DEF TotalsKept
<1>4. slot' = slot /\ UNCHANGED <<a, aloop, acur>>
  BY <1>1 DEF agentVars, tableVars
<1>5. \A e \in Conns : StillAgent(e)
  BY <1>2, <1>4, PartsKept
<1>6. HasEnd(toGateway') => slot' = "gone"
  BY <1>1, <1>2, <1>4 DEF AuditInv
<1> SUFFICES Onward /\ SessionKept /\ \A e \in Conns : StillQueues(e)
  BY <1>0, <1>3, <1>5, CarryStill DEF Still
<1>7. CASE Start \/ AuditFails \/ AuditStarted \/ LoopEnds
  <2>1. /\ UNCHANGED <<out, ending, audit, link, toAgent>>
        /\ \/ gw \in {"absent", "auditing"} /\ gw' \in {"auditing", "refused"} /\ loop' = loop
           \/ gw = "auditing" /\ gw' = "open" /\ loop' = "opening"
           \/ gw = "done" /\ gw' = gw /\ loop' = "stopped"
    BY <1>7 DEF Start, AuditFails, AuditStarted, LoopEnds
  <2>2. Onward
    BY <1>4, <2>1 DEF Onward
  <2>3. LoopInv'
    BY <1>2, <2>1 DEF LoopInv
  <2>4. \A e \in Conns : StillQueues(e)
    BY <1>1, <1>2, <2>1, PartsKept
  <2> QED BY <1>6, <2>1, <2>2, <2>3, <2>4 DEF SessionKept
<1>8. CASE OpenAtAgent
  <2>1. Forward(Session("open")) /\ loop # "off" /\ link' = link
    BY <1>8 DEF OpenAtAgent
  <2>2. Session("open") \in Messages /\ \A e : Other(Session("open"), e)
    BY FrameType
  <2> QED BY <1>1, <2>1, <2>2, ForwardStep
<1>9. CASE Hangup
  <2>1. /\ loop = "stopped" /\ UNCHANGED <<gw, ending, loop, audit, link, toAgent>>
        /\ out' = <<>>
    BY <1>9 DEF Hangup
  <2>2. gw' = "done"
    BY <1>2, <2>1 DEF LoopInv
  <2>3. Onward
    BY <1>4, <2>1 DEF Onward
  <2>4. LoopInv'
    BY <1>2, <2>1 DEF LoopInv
  <2>5. ASSUME NEW e \in Conns PROVE StillQueues(e)
    <3>1. Fewer(out', out, e)
      BY <1>2, <2>1, EmptyFewer DEF Empty
    <3> QED BY <1>1, <1>2, <2>1, <2>2, <3>1, SameRefl, QueuesStill
  <2> QED BY <1>6, <2>1, <2>3, <2>4, <2>5 DEF SessionKept
<1>10. CASE Timeout
  <2>1. /\ CloseWithReason("desktop", "closed") /\ loop' = loop /\ link' = link
        /\ "desktop" \in Tasks
    BY <1>10 DEF Timeout, Tasks
  <2> QED BY <1>1, <2>1, CloseStep
<1>11. CASE LinkLost
  <2>1. link' = "lost" /\ toAgent' = <<>> /\ UNCHANGED <<gw, ending, loop, audit, out>>
    BY <1>11 DEF LinkLost, gatewayVars
  <2>2. Onward
    BY <1>4, <2>1 DEF Onward
  <2>3. LoopInv'
    BY <1>2, <2>1 DEF LoopInv
  <2>4. ASSUME NEW e \in Conns PROVE StillQueues(e)
    <3>1. Fewer(toAgent', toAgent, e) /\ ~Flowing(e)'
      BY <1>2, <2>1, EmptyFewer DEF Empty, Flowing
    <3> QED BY <1>1, <1>2, <2>1, <3>1, SameRefl, QueuesStill
  <2> QED BY <1>6, <2>1, <2>2, <2>3, <2>4 DEF SessionKept
<1> QED BY <1>7, <1>8, <1>9, <1>10, <1>11

\* The ends of the session that do not touch a connection.
LEMMA StepFinish ==
    ASSUME IInv, \/ OnError \/ AgentDisconnected
                 \/ \E k \in Tasks : FinishAfterClose(k)
    PROVE  IInv'
<1>0. Next
  BY DEF Next, ServeBrowser, AgentLive, Tasks
<1>1. /\ UNCHANGED <<g, total, desk>> /\ agentVars' = agentVars
  BY DEF OnError, AgentDisconnected, FinishAfterClose, deskVars
<1>2. TypeOK /\ LoopInv /\ AuditInv /\ "error" \in Reasons
      /\ ending \in [Tasks -> Reasons \cup {NoEnd}] /\ toGateway \in Seq(Messages)
  BY InvParts DEF TypeOK, GatewayTypes, LinkTypes, Reasons
<1>3. TotalsKept /\ \A e \in Conns : StillGateway(e) /\ StillDesk(e)
  BY <1>1, <1>2, PartsKept DEF TotalsKept
<1> SUFFICES Onward /\ SessionKept /\ \A e \in Conns : StillQueues(e) /\ StillAgent(e)
  BY <1>0, <1>3, CarryStill DEF Still
<1>4. CASE OnError
  <2>1. /\ Finish("error") /\ UNCHANGED <<loop, ending, link, toAgent>>
        /\ toGateway # <<>> /\ toGateway' = Tail(toGateway)
    BY <1>4 DEF OnError, Frame
  <2>2. \A k \in Tasks : ending'[k] # "ended"
    BY <1>2, <2>1 DEF LoopInv
  <2> QED BY <1>1, <1>2, <2>1, <2>2, FinishStep
<1>5. ASSUME NEW k \in Tasks, FinishAfterClose(k)
      PROVE  Onward /\ SessionKept /\ \A e \in Conns : StillQueues(e) /\ StillAgent(e)
  <2>1. /\ ending[k] \in Reasons /\ Finish(ending[k]) /\ ending[k] # "ended"
        /\ ending' = [ending EXCEPT ![k] = NoEnd] /\ loop' \in {loop, "stopped"}
        /\ UNCHANGED <<link, toAgent, toGateway>>
    BY <1>2, <1>5 DEF FinishAfterClose, LoopInv
  <2>2. \A j \in Tasks : ending'[j] # "ended"
    BY <1>2, <2>1 DEF LoopInv, NoEnd
  <2> QED BY <1>1, <2>1, <2>2, FinishStep
<1>6. CASE AgentDisconnected
  <2>1. /\ link' = "closed" /\ toGateway' = <<>> /\ UNCHANGED <<ending, loop, toAgent>>
        /\ Finish("error") \/ UNCHANGED <<gw, out, audit>>
    BY <1>6 DEF AgentDisconnected
  <2>2. \A k \in Tasks : ending'[k] # "ended"
    BY <1>2, <2>1 DEF LoopInv
  <2>3. CASE Finish("error")
    BY <1>1, <1>2, <2>1, <2>2, <2>3, FinishStep
  <2>4. CASE UNCHANGED <<gw, out, audit>>
    <3>1. slot' = slot /\ UNCHANGED <<a, aloop, acur>>
      BY <1>1 DEF agentVars, tableVars
    <3>2. Onward
      BY <2>1, <2>4, <3>1 DEF Onward
    <3>3. LoopInv'
      BY <1>2, <2>1, <2>4 DEF LoopInv
    <3>4. ~HasEnd(toGateway')
      BY <2>1, HasEndViews
    <3>5. ASSUME NEW e \in Conns PROVE StillQueues(e) /\ StillAgent(e)
      <4>1. Fewer(toGateway', toGateway, e) /\ ~Flowing(e)'
        BY <1>2, <2>1, EmptyFewer DEF Empty, Flowing
      <4> QED BY <1>2, <2>1, <2>4, <3>1, <4>1, SameRefl, QueuesStill, PartsKept
    <3> QED BY <2>4, <3>2, <3>3, <3>4, <3>5 DEF SessionKept
  <2> QED BY <2>1, <2>3, <2>4
<1> QED BY <1>4, <1>5, <1>6

LEMMA StepFrameOfNoSession ==
    ASSUME IInv, FrameOfNoSession
    PROVE  IInv'
<1>0. Next
  BY DEF Next, AgentLive
<1>1. /\ gw # "open" /\ toGateway # <<>> /\ toGateway' = Tail(toGateway)
      /\ UNCHANGED <<g, total, desk, toAgent, link, gw, ending, loop, out, audit>>
      /\ agentVars' = agentVars
  BY DEF FrameOfNoSession, Frame, gatewayVars, deskVars
<1>2. TypeOK /\ LoopInv /\ AuditInv /\ toGateway \in Seq(Messages)
  BY InvParts DEF TypeOK, LinkTypes
<1>3. slot' = slot /\ UNCHANGED <<a, aloop, acur>>
  BY <1>1 DEF agentVars, tableVars
<1>4. TotalsKept /\ \A e \in Conns : StillGateway(e) /\ StillDesk(e) /\ StillAgent(e)
  BY <1>1, <1>2, <1>3, PartsKept DEF TotalsKept
<1>5. Onward
  BY <1>1, <1>3 DEF Onward
<1>6. SessionKept
  BY <1>1, <1>2, <1>3, HasEndViews DEF SessionKept, LoopInv, AuditInv
<1>7. ASSUME NEW e \in Conns PROVE StillQueues(e)
  <2>1. ~Flowing(e)'
    <3>1. gw # "done" => a[e].st = "none"
      BY <1>1, <1>2, InvParts DEF LoopInv, Life
    <3> QED BY <1>1, <1>3, <3>1 DEF Flowing
  <2>2. Fewer(toGateway', toGateway, e)
    BY <1>1, <1>2, TailFewer
  <2> QED BY <1>1, <1>2, <2>1, <2>2, SameRefl, QueuesStill
<1> QED BY <1>0, <1>4, <1>5, <1>6, <1>7, CarryStill DEF Still

LEMMA StepOnQuiet ==
    ASSUME IInv, OnOpened \/ \E c \in Conns : OnHalfClose(c)
    PROVE  IInv'
<1>0. Next
  BY DEF Next, AgentLive
<1>1. PICK k \in {"opened", "half_close"}, ok \in BOOLEAN :
         gw = "open" /\ Frame(k) /\ Expect(ok, Head(toGateway))
  <2>1. CASE OnOpened
    <3>1. gw = "open" /\ Frame("opened") /\ Expect(~opened, Head(toGateway))
          /\ (~opened) \in BOOLEAN
      BY <2>1 DEF OnOpened
    <3> QED BY <3>1
  <2>2. ASSUME NEW c \in Conns, OnHalfClose(c)
        PROVE  \E k \in {"opened", "half_close"}, ok \in BOOLEAN :
                 gw = "open" /\ Frame(k) /\ Expect(ok, Head(toGateway))
    <3>1. gw = "open" /\ Frame("half_close") /\ Expect(c \in Known, Head(toGateway))
          /\ (c \in Known) \in BOOLEAN
      BY <2>2 DEF OnHalfClose
    <3> QED BY <3>1
  <2> QED BY <2>1, <2>2
<1>2. /\ UNCHANGED <<g, total, desk, loop, link>> /\ agentVars' = agentVars
  BY DEF OnOpened, OnHalfClose, deskVars
<1>3. TypeOK
  BY InvParts
<1>4. TotalsKept /\ \A e \in Conns : StillGateway(e) /\ StillDesk(e)
  BY <1>2, <1>3, PartsKept DEF TotalsKept
<1>5. \A e : Other(Head(toGateway), e)
  BY <1>1, <1>3, FrameShape DEF Other, Kinds
<1>6. Onward /\ SessionKept /\ \A e \in Conns : StillQueues(e) /\ StillAgent(e)
  BY <1>1, <1>2, <1>5, ExpectStep
<1> QED BY <1>0, <1>4, <1>6, CarryStill DEF Still

LEMMA StepOnEnd ==
    ASSUME IInv, OnEnd
    PROVE  IInv'
<1>0. Next
  BY DEF Next, AgentLive
<1>1. /\ gw = "open" /\ Frame("end") /\ UNCHANGED <<g, total, desk, loop, link>>
      /\ agentVars' = agentVars
  BY DEF OnEnd, deskVars
<1>2. TypeOK /\ LoopInv /\ AuditInv /\ Totals /\ toGateway \in Seq(Messages)
      /\ "ended" \in Reasons /\ "agent" \in Tasks
  BY InvParts DEF TypeOK, LinkTypes, Reasons, Tasks
<1>3. TotalsKept /\ Totals' /\ \A e \in Conns : StillGateway(e) /\ StillDesk(e)
  BY <1>1, <1>2, PartsKept, TotalsUnchanged DEF TotalsKept
<1>4. /\ toGateway # <<>> /\ toGateway' = Tail(toGateway) /\ Head(toGateway).kind = "end"
      /\ \A e : Same(toGateway', toGateway, e)
  BY <1>1, <1>2, FrameShape DEF Other, Kinds
<1>5. CASE ProtocolError("agent")
  <2>1. Expect(FALSE, Head(toGateway)) /\ FALSE \in BOOLEAN
    BY <1>5 DEF Expect
  <2>2. \A e : Other(Head(toGateway), e)
    BY <1>4 DEF Other, Kinds
  <2>3. Onward /\ SessionKept /\ \A e \in Conns : StillQueues(e) /\ StillAgent(e)
    BY <1>1, <2>1, <2>2, ExpectStep
  <2> QED BY <1>0, <1>3, <2>3, CarryStill DEF Still
<1>6. CASE Known = {} /\ Finish("ended") /\ UNCHANGED <<ending, toAgent>>
  <2>1. \A k \in Tasks : ending'[k] # "ended"
    BY <1>2, <1>6 DEF LoopInv
  <2>2. /\ Onward /\ gw' = "done" /\ LoopInv'
        /\ HasEnd(toGateway') => slot' = "gone"
        /\ \A e \in Conns : StillQueues(e) /\ StillAgent(e)
    BY <1>1, <1>2, <1>4, <1>6, <2>1, FinishStep
  <2>3. \A e \in Conns : Holds(e)'
    <3>1. TypeOK'
      BY <1>0, TypeNext
    <3> QED BY <1>2, <1>3, <2>2, <3>1, InvParts, StillKeeps DEF Still
  <2>4. slot = "gone" /\ slot' = slot /\ UNCHANGED <<a, aloop, acur>>
    BY <1>1, <1>2, <1>4, HasEndViews DEF AuditInv, agentVars, tableVars
  <2>5. audit' = [reason |-> "ended", d |-> total.d, t |-> total.t]
    BY <1>1, <1>6 DEF Finish
  <2>6. Ended'
    <3>1. ASSUME NEW c \in Conns
          PROVE  /\ g[c].st # "open" /\ a[c].st \in {"none", "ended"} /\ ~Connecting(c)
                 /\ a[c].d = g[c].d /\ a[c].t = g[c].t
      <4>1. g[c].st \in {"none", "ended"}
        BY <1>2, <1>6, FieldTypes DEF Known, Fields
      <4>2. Life(c) /\ a[c].st \in {"none", "open", "ending", "ended"}
        BY <1>2, InvParts, FieldTypes DEF Fields
      <4>3. CASE g[c].st = "none"
        BY <4>2, <4>3 DEF Life, Untouched
      <4>4. CASE g[c].st = "ended"
        BY <4>2, <4>4 DEF Life
      <4> QED BY <4>1, <4>3, <4>4
    <3>2. audit'.d = total'.d /\ audit'.t = total'.t
      BY <1>1, <2>5
    <3> QED BY <1>1, <2>2, <2>4, <3>1, <3>2 DEF Ended, Connecting
  <2>7. AuditInv'
    BY <2>2, <2>6 DEF AuditInv
  <2>8. TypeOK'
    BY <1>0, TypeNext
  <2> QED BY <1>3, <2>2, <2>3, <2>7, <2>8 DEF IInv, Parts
<1> QED BY <1>5, <1>6 DEF OnEnd

LEMMA StepDeliver ==
    ASSUME IInv, Deliver
    PROVE  IInv'
<1>0. Next
  BY DEF Next
<1>1. /\ out # <<>> /\ out' = Tail(out)
      /\ UNCHANGED <<gw, g, total, ending, loop, audit, link, toAgent, toGateway>>
      /\ agentVars' = agentVars
  BY DEF Deliver
<1>2. TypeOK /\ TypeOK' /\ LoopInv /\ AuditInv /\ Totals /\ out \in Seq(Messages)
      /\ desk \in [Conns -> DesktopConns]
  BY <1>0, InvParts, TypeNext DEF TypeOK, GatewayTypes, DesktopTypes
<1>a. Head(out) \in Messages /\ Head(out).c \in Conns /\ Head(out).n \in Nat
  BY <1>1, <1>2, SeqTail DEF Messages
<1>3. PICK m \in Messages, c \in Conns : m = Head(out) /\ m.c = c /\ m.n \in Nat
  BY <1>a
<1>4. /\ m.kind = "window" => desk' = [desk EXCEPT ![c].credit = @ + m.n]
      /\ m.kind = "data" => desk' = [desk EXCEPT ![c].got = @ + 1, ![c].owed = @ + 1]
      /\ m.kind = "connection_end" => desk' = [desk EXCEPT ![c].st = "ended"]
      /\ m.kind \notin {"window", "data", "connection_end"} =>
            desk' \in {desk, [desk EXCEPT ![c].st = "open"]}
  BY <1>2, <1>3, DeliverShape
<1>5. /\ Fewer(out', out, c) /\ \A e : e # c => Same(out', out, e)
      /\ Count(out', "data", c) + One(m.kind = "data" /\ m.c = c) = Count(out, "data", c)
      /\ Count(out', "connection_end", c) + One(m.kind = "connection_end" /\ m.c = c)
           = Count(out, "connection_end", c)
      /\ Credit(out', c) + Grant(m, c) = Credit(out, c)
      /\ DataFirst(out, c) /\ m.kind = "connection_end" => Count(out, "data", c) = 0
  <2>1. \A e : e # c => Other(m, e)
    BY <1>3 DEF Other
  <2>2. Fewer(out', out, c) /\ \A e : e # c => Same(out', out, e)
    BY <1>1, <1>2, <1>3, <2>1, TailFewer, SameTail
  <2>3. Count(out', "data", c) + One(m.kind = "data" /\ m.c = c) = Count(out, "data", c)
    BY <1>1, <1>2, <1>3, CountTail
  <2>4. Count(out', "connection_end", c) + One(m.kind = "connection_end" /\ m.c = c)
           = Count(out, "connection_end", c)
    BY <1>1, <1>2, <1>3, CountTail
  <2>5. Credit(out', c) + Grant(m, c) = Credit(out, c)
    BY <1>1, <1>2, <1>3, CreditTail
  <2>6. DataFirst(out, c) /\ m.kind = "connection_end" => Count(out, "data", c) = 0
    BY <1>1, <1>2, <1>3, DataFirstTail
  <2> QED BY <2>2, <2>3, <2>4, <2>5, <2>6
<1>6. \A e \in Conns : e # c => desk'[e] = desk[e]
  BY <1>2, <1>3, <1>4
<1>7. slot' = slot /\ UNCHANGED <<a, aloop, acur>>
  BY <1>1 DEF agentVars, tableVars
<1>8. Onward
  BY <1>1, <1>7 DEF Onward
<1>9. SessionKept
  BY <1>1, <1>2, <1>7 DEF SessionKept, LoopInv, AuditInv
<1>10. Totals'
  BY <1>1, <1>2, TotalsUnchanged DEF TotalsKept
<1>11. ASSUME NEW e \in Conns, e # c PROVE Still(e)
  <2>1. StillGateway(e) /\ StillAgent(e)
    BY <1>1, <1>2, <1>7, PartsKept
  <2>2. StillDesk(e)
    BY <1>2, <1>6, <1>11, FieldTypes DEF StillDesk, Fields
  <2>3. StillQueues(e)
    BY <1>1, <1>2, <1>5, <1>11, SameRefl, QueuesStill
  <2> QED BY <2>1, <2>2, <2>3 DEF Still
<1>12. Bounds(c) /\ Life(c) /\ Shown(c) /\ Flow(c)
  BY <1>3, InvParts
<1>13. /\ Credit(out, c) \in Nat /\ Credit(out', c) \in Nat
       /\ Count(out, "data", c) \in Nat /\ Count(out', "data", c) \in Nat
       /\ Count(out, "connection_end", c) \in Nat /\ Count(out', "connection_end", c) \in Nat
  BY <1>2, ViewTypes, ViewTypesNext, KindNames DEF Views
<1>14. /\ desk[c].credit \in Nat /\ desk[c].got \in Nat /\ g[c].dCredit \in Nat
  BY <1>2, <1>3, FieldTypes DEF Fields
<1>15. /\ desk'[c].credit = (IF m.kind = "window" THEN desk[c].credit + m.n ELSE desk[c].credit)
       /\ desk'[c].got = (IF m.kind = "data" THEN desk[c].got + 1 ELSE desk[c].got)
       /\ desk'[c].sent = desk[c].sent
       /\ desk'[c].st = "none" => desk[c].st = "none"
       /\ desk'[c].st = "ended" => desk[c].st = "ended" \/ m.kind = "connection_end"
  <2>1. CASE m.kind = "window"
    BY <1>2, <1>3, <1>4, <2>1 DEF DesktopConns
  <2>2. CASE m.kind = "data"
    BY <1>2, <1>3, <1>4, <2>2 DEF DesktopConns
  <2>3. CASE m.kind = "connection_end"
    BY <1>2, <1>3, <1>4, <2>3 DEF DesktopConns
  <2>4. CASE m.kind \notin {"window", "data", "connection_end"}
    BY <1>2, <1>3, <1>4, <2>4 DEF DesktopConns
  <2> QED BY <2>1, <2>2, <2>3, <2>4
<1>16. Bounds(c)'
  <2>1. desk'[c].credit + Credit(out', c) <= g'[c].dCredit
    <3>1. Grant(m, c) = (IF m.kind = "window" THEN m.n ELSE 0)
      BY <1>3 DEF Grant
    <3>2. desk[c].credit + Credit(out, c) <= g[c].dCredit
      BY <1>12 DEF Bounds
    <3>3. m.n \in Nat
      BY <1>3
    <3>4. desk'[c].credit + Credit(out', c) <= g[c].dCredit
      BY <1>5, <1>13, <1>14, <1>15, <3>1, <3>2, <3>3
    <3> QED BY <1>1, <3>4
  <2> QED BY <1>1, <1>7, <1>12, <2>1 DEF Bounds
<1>17. Life(c)'
  BY <1>1, <1>7, <1>12, <1>15 DEF Life, Untouched, Draining, Connecting
<1>18. Shown(c)'
  <2>1. gw' # "done" /\ ending'["desktop"] = NoEnd => desk'[c].sent = g'[c].d
    BY <1>1, <1>12, <1>15 DEF Shown
  <2>2. gw' # "done" /\ ending'["agent"] = NoEnd =>
          desk'[c].got + Count(out', "data", c) = g'[c].t
    <3>1. desk'[c].got + Count(out', "data", c) = desk[c].got + Count(out, "data", c)
      BY <1>3, <1>5, <1>13, <1>14, <1>15 DEF One
    <3> QED BY <1>1, <1>12, <3>1 DEF Shown
  <2>3. DataFirst(out', c)
    BY <1>5, <1>12 DEF Shown, Fewer
  <2>4. Count(out', "connection_end", c) > 0 => g'[c].st = "ended"
    <3>1. Count(out', "connection_end", c) > 0 => Count(out, "connection_end", c) > 0
      BY <1>5, <1>13 DEF One
    <3> QED BY <1>1, <1>12, <3>1 DEF Shown
  <2>5. desk'[c].st = "ended" => g'[c].st = "ended" /\ Count(out', "data", c) = 0
    <3>1. CASE m.kind = "connection_end"
      <4>1. Count(out, "connection_end", c) > 0
        BY <1>3, <1>5, <1>13, <3>1 DEF One
      <4>2. Count(out, "data", c) = 0
        BY <1>5, <1>12, <3>1 DEF Shown
      <4>3. Count(out', "data", c) = 0
        BY <1>5, <1>13, <4>2 DEF One
      <4> QED BY <1>1, <1>12, <4>1, <4>3 DEF Shown
    <3>2. CASE m.kind # "connection_end"
      <4>1. Count(out, "data", c) = 0 => Count(out', "data", c) = 0
        BY <1>5, <1>13 DEF One
      <4> QED BY <1>1, <1>12, <1>15, <3>2, <4>1 DEF Shown
    <3> QED BY <3>1, <3>2
  <2> QED BY <2>1, <2>2, <2>3, <2>4, <2>5 DEF Shown
<1>19. Flow(c)'
  BY <1>1, <1>7, <1>12 DEF Flow, Flowing, Draining
<1>20. Holds(c)'
  BY <1>16, <1>17, <1>18, <1>19 DEF Holds
<1> QED BY <1>0, <1>3, <1>8, <1>9, <1>10, <1>11, <1>20, CarryOne

\* A frame of the agent about connection c, accepted or refused: what it does
\* to the other connections, to the queues and to what the desktop has.
FrameRelayed(c) ==
    /\ Onward /\ SessionKept /\ gw' = gw
    /\ UNCHANGED <<a, aloop, acur, slot, link, desk, loop>>
    /\ \A e \in Conns : e # c => Still(e)
    /\ toGateway \in Seq(Messages) /\ toGateway # <<>> /\ toGateway' = Tail(toGateway)
    /\ Head(toGateway) \in Messages /\ Head(toGateway).c = c
    /\ \/ out' = Append(out, Head(toGateway)) /\ ending' = ending
       \/ out' = out /\ ending'["agent"] # NoEnd
    /\ \A k \in Kinds : Count(toAgent', k, c) = Count(toAgent, k, c)

LEMMA FrameStep ==
    ASSUME IInv, NEW k, Frame(k), NEW c \in Conns, Head(toGateway).c = c,
           gw = "open", NEW ok \in BOOLEAN,
           Expect(ok, Head(toGateway)) \/ (ok /\ Offer(Head(toGateway))),
           loop' = loop, agentVars' = agentVars, link' = link, deskVars' = deskVars,
           \A e \in Conns : e # c => g'[e] = g[e],
           total.d <= total'.d, total.t <= total'.t
    PROVE  /\ FrameRelayed(c) /\ Head(toGateway).kind = k
           /\ ending' = ending /\ out' = Append(out, Head(toGateway)) => ok
<1>1. TypeOK
  BY InvParts
<1>2. /\ toGateway # <<>> /\ toGateway \in Seq(Messages)
      /\ Head(toGateway) \in Messages /\ Head(toGateway).kind = k
      /\ toGateway' = Tail(toGateway) /\ ending["agent"] = NoEnd
  BY <1>1, FrameShape
<1>3. /\ Onward /\ SessionKept /\ gw' = gw
      /\ \/ ok /\ out' = Append(out, Head(toGateway)) /\ ending' = ending
         \/ out' = out /\ ending'["agent"] # NoEnd
      /\ \A e : Same(toAgent', toAgent, e)
      /\ \A e : Other(Head(toGateway), e) => StillQueues(e)
      /\ \A e \in Conns : StillAgent(e)
  BY ExpectStep
<1>4. UNCHANGED <<a, aloop, acur, slot>> /\ desk' = desk
  BY DEF agentVars, tableVars, deskVars
<1>5. ASSUME NEW e \in Conns, e # c PROVE Still(e)
  <2>1. StillQueues(e)
    BY <1>3, <1>5 DEF Other
  <2>2. StillDesk(e)
    BY <1>1, <1>4, PartsKept
  <2>3. StillGateway(e)
    BY <1>5 DEF StillGateway
  <2> QED BY <1>3, <2>1, <2>2, <2>3 DEF Still
<1>6. \A j \in Kinds : Count(toAgent', j, c) = Count(toAgent, j, c)
  BY <1>3 DEF Same
<1> QED BY <1>2, <1>3, <1>4, <1>5, <1>6 DEF FrameRelayed

LEMMA FrameBounds ==
    ASSUME IInv, TypeOK', NEW c \in Conns, FrameRelayed(c),
           g'[c].d <= total'.d, g'[c].t <= total'.t,
           \/ g'[c].dCredit = g[c].dCredit + Grant(Head(toGateway), c)
           \/ g'[c].dCredit = g[c].dCredit /\ out' = out
           \/ g'[c].dCredit = g[c].dCredit /\ Head(toGateway).kind # "window"
    PROVE  Bounds(c)'
<1>1. TypeOK /\ Bounds(c)
  BY InvParts
<1>2. out \in Seq(Messages) /\ Head(toGateway) \in Messages
  BY <1>1 DEF TypeOK, GatewayTypes, FrameRelayed
<1>3. Credit(out', c) \in {Credit(out, c), Credit(out, c) + Grant(Head(toGateway), c)}
      /\ (out' = out => Credit(out', c) = Credit(out, c))
  <2>1. out' = Append(out, Head(toGateway)) \/ out' = out
    BY DEF FrameRelayed
  <2>2. Credit(Append(out, Head(toGateway)), c) = Credit(out, c) + Grant(Head(toGateway), c)
    BY <1>2, CreditAppend
  <2> QED BY <2>1, <2>2
<1>4. Grant(Head(toGateway), c) \in Nat
      /\ (Head(toGateway).kind # "window" => Grant(Head(toGateway), c) = 0)
  BY <1>2 DEF Grant, Messages
<1>5. desk[c].credit \in Nat /\ g[c].dCredit \in Nat /\ Credit(out, c) \in Nat
  BY <1>1, FieldTypes, ViewTypes DEF Fields, Views
<1>6. desk[c].credit + Credit(out, c) <= g[c].dCredit
  BY <1>1 DEF Bounds
<1>7. desk[c].credit + Credit(out', c) <= g'[c].dCredit
  BY <1>3, <1>4, <1>5, <1>6
<1> QED BY <1>1, <1>7 DEF Bounds, FrameRelayed

LEMMA FrameShown ==
    ASSUME IInv, TypeOK', NEW c \in Conns, FrameRelayed(c),
           g'[c].d = g[c].d,
           out' # out => g'[c].t = g[c].t + One(Head(toGateway).kind = "data"),
           g[c].st = "ended" => g'[c].st = "ended",
           out' # out /\ Head(toGateway).kind = "connection_end" => g'[c].st = "ended",
           out' # out /\ Head(toGateway).kind = "data" => g[c].st = "open"
    PROVE  Shown(c)'
<1>1. TypeOK /\ Shown(c)
  BY InvParts
<1>2. out \in Seq(Messages) /\ Head(toGateway) \in Messages /\ Head(toGateway).c = c
  BY <1>1 DEF TypeOK, GatewayTypes, FrameRelayed
<1>3. gw' # "done" /\ ending'["desktop"] = NoEnd => desk'[c].sent = g'[c].d
  <2>1. gw' # "done" /\ ending'["desktop"] = NoEnd => gw # "done" /\ ending["desktop"] = NoEnd
    BY DEF FrameRelayed, Onward, Tasks
  <2> QED BY <1>1, <2>1 DEF Shown, FrameRelayed
<1>4. CASE out' = out
  <2>1. gw' # "done" /\ ending'["agent"] = NoEnd =>
          desk'[c].got + Count(out', "data", c) = g'[c].t
    <3>1. ending'["agent"] # NoEnd
      <4>1. CASE out' = Append(out, Head(toGateway))
        <5>1. Len(Append(out, Head(toGateway))) = Len(out) + 1 /\ Len(out) \in Nat
          BY <1>2, AppendProperties, LenProperties
        <5> QED BY <1>4, <4>1, <5>1
      <4> QED BY <4>1 DEF FrameRelayed
    <3> QED BY <3>1
  <2> QED BY <1>1, <1>3, <1>4, <2>1 DEF Shown, FrameRelayed
<1>5. CASE out' # out
  <2>1. out' = Append(out, Head(toGateway)) /\ ending' = ending /\ gw' = gw /\ desk' = desk
    BY <1>5 DEF FrameRelayed
  <2>2. /\ Count(out', "data", c) = Count(out, "data", c) + One(Head(toGateway).kind = "data")
        /\ Count(out', "connection_end", c)
             = Count(out, "connection_end", c) + One(Head(toGateway).kind = "connection_end")
    BY <1>2, <2>1, CountAppend
  <2>3. /\ Count(out, "data", c) \in Nat /\ Count(out, "connection_end", c) \in Nat
        /\ desk[c].got \in Nat
    BY <1>1, ViewTypes, KindNames, FieldTypes DEF Views, Fields
  <2>4. Head(toGateway).kind = "data" =>
          Count(out, "connection_end", c) = 0 /\ desk[c].st # "ended"
    BY <1>1, <1>5, <2>3 DEF Shown
  <2>5. DataFirst(out', c)
    BY <1>1, <1>2, <2>1, <2>4, DataFirstAppend DEF Shown
  <2>6. One(Head(toGateway).kind = "data") \in 0..1
    BY DEF One
  <2>7. desk[c].got + Count(out, "data", c) = g[c].t =>
          desk[c].got + Count(out', "data", c) = g'[c].t
    BY <1>5, <2>2, <2>3, <2>6
  <2>8. Count(out', "connection_end", c) > 0 => g'[c].st = "ended"
    <3>1. CASE Head(toGateway).kind = "connection_end"
      BY <1>5, <3>1
    <3>2. CASE Head(toGateway).kind # "connection_end"
      BY <1>1, <2>2, <2>3, <3>2 DEF Shown, One
    <3> QED BY <3>1, <3>2
  <2>9. desk'[c].st = "ended" => g'[c].st = "ended" /\ Count(out', "data", c) = 0
    BY <1>1, <2>1, <2>2, <2>4 DEF Shown, One
  <2>10. gw' # "done" /\ ending'["agent"] = NoEnd =>
          desk'[c].got + Count(out', "data", c) = g'[c].t
    BY <1>1, <2>1, <2>7 DEF Shown
  <2> QED BY <1>3, <2>5, <2>8, <2>9, <2>10 DEF Shown
<1> QED BY <1>4, <1>5

LEMMA FrameLife ==
    ASSUME IInv, TypeOK', NEW c \in Conns, FrameRelayed(c),
           Head(toGateway).kind \in {"connection_opened", "window", "data", "connection_end"},
           g'[c].st # "none", g'[c].d = g[c].d,
           g'[c].st = "ended" => a[c].st = "ended" /\ a[c].d = g'[c].d /\ a[c].t = g'[c].t
    PROVE  Life(c)' /\ a[c].st # "none" /\ g[c].st # "none"
<1>1. TypeOK /\ Life(c)
  BY InvParts
<1>2. /\ toGateway \in Seq(Messages) /\ toGateway # <<>> /\ toGateway' = Tail(toGateway)
      /\ Head(toGateway) \in Messages /\ Head(toGateway).c = c
  BY DEF FrameRelayed
<1>3. a[c].st # "none"
  <2>1. Count(toGateway, Head(toGateway).kind, c) # 0
    <3>1. 1 \in Indices(toGateway, Head(toGateway).kind, c)
      BY <1>2, IndicesTail
    <3> QED BY <1>2, <3>1, IndicesType
  <2> QED BY <1>1, <2>1 DEF Life, Untouched
<1>4. Receipts(toGateway', c, a[c].d, a[c].t)
  BY <1>1, <1>2, ReceiptsTail DEF Life
<1>5. Count(toGateway', "connection_end", c) > 0 => Count(toGateway, "connection_end", c) > 0
  <2>1. Count(toGateway', "connection_end", c) <= Count(toGateway, "connection_end", c)
    BY <1>2, TailFewer, KindNames DEF Fewer
  <2>2. Count(toGateway, "connection_end", c) \in Nat
        /\ Count(toGateway', "connection_end", c) \in Nat
    BY <1>1, ViewTypes, ViewTypesNext, KindNames DEF Views
  <2> QED BY <2>1, <2>2
<1>6. UNCHANGED <<a, aloop, acur, slot, desk, loop>>
  BY DEF FrameRelayed
<1>7. Count(toAgent', "data", c) = Count(toAgent, "data", c)
  BY KindNames DEF FrameRelayed
<1>8. g[c].st # "none"
  BY <1>1, <1>3 DEF Life
<1> QED BY <1>1, <1>3, <1>4, <1>5, <1>6, <1>7, <1>8 DEF Life, Draining, Connecting

LEMMA FrameFlow ==
    ASSUME IInv, NEW c \in Conns, FrameRelayed(c), Flowing(c)'
    PROVE  /\ Flowing(c) /\ g[c].st \in {"pending", "open"}
           /\ One(Draining(c)') = One(Draining(c))
           /\ g[c].dCredit + Count(toAgent', "data", c) + One(Draining(c))
                + Credit(toGateway, c) = Window
           /\ a[c].credit + One(a[c].reader = "emitting")
                + Count(toGateway, "data", c) + Count(toAgent', "window", c)
                = g[c].tCredit
           /\ g[c].st = "pending" => OpenedFirst(toGateway, c)
           /\ Sequenced(toGateway, c, g[c].t, a[c].t - One(a[c].reader = "emitting"))
           /\ g[c].t \in Nat /\ a[c].t - One(a[c].reader = "emitting") \in Nat
           /\ Count(toGateway', "data", c) + One(Head(toGateway).kind = "data") =
                Count(toGateway, "data", c)
           /\ Credit(toGateway', c) + Grant(Head(toGateway), c) = Credit(toGateway, c)
<1>1. TypeOK /\ Life(c) /\ Flow(c) /\ Bounds(c)
  BY InvParts
<1>2. Flowing(c) /\ One(Draining(c)') = One(Draining(c))
  BY DEF FrameRelayed, Flowing, One, Draining
<1>3. g[c].st \in {"pending", "open"}
  <2>1. g[c].st \in {"none", "pending", "open", "ended"}
    BY <1>1, FieldTypes DEF Fields
  <2> QED BY <1>1, <1>2, <2>1 DEF Life, Flowing
<1>4. /\ Count(toAgent', "data", c) = Count(toAgent, "data", c)
      /\ Count(toAgent', "window", c) = Count(toAgent, "window", c)
  BY KindNames DEF FrameRelayed
<1>5. /\ toGateway \in Seq(Messages) /\ toGateway # <<>> /\ toGateway' = Tail(toGateway)
      /\ Head(toGateway).c = c
  BY DEF FrameRelayed
<1>6. Count(toGateway', "data", c) + One(Head(toGateway).kind = "data") =
        Count(toGateway, "data", c)
  BY <1>5, CountTail
<1>7. Credit(toGateway', c) + Grant(Head(toGateway), c) = Credit(toGateway, c)
  BY <1>5, CreditTail
<1>8. g[c].t \in Nat /\ a[c].t \in Nat
  BY <1>1, FieldTypes DEF Fields
<1>9. a[c].t - One(a[c].reader = "emitting") \in Nat
  BY <1>1, <1>8 DEF Bounds, One
<1> QED BY <1>1, <1>2, <1>3, <1>4, <1>6, <1>7, <1>8, <1>9 DEF Flow

LEMMA StepOnConnectionOpened ==
    ASSUME IInv, NEW c \in Conns, OnConnectionOpened(c)
    PROVE  IInv'
<1>0. Next
  BY DEF Next, AgentLive
<1>1. /\ gw = "open" /\ Frame("connection_opened") /\ Head(toGateway).c = c
      /\ g' = [g EXCEPT ![c].st = IF @ = "pending" THEN "open" ELSE @]
      /\ Expect(g[c].st = "pending", Head(toGateway))
      /\ UNCHANGED <<opened, total, loop, agentVars, link, deskVars>>
  BY DEF OnConnectionOpened
<1>2. TypeOK /\ TypeOK' /\ Totals /\ Bounds(c) /\ Life(c) /\ Flow(c)
  BY <1>0, InvParts, TypeNext
<1>3. g \in [Conns -> GatewayConns] /\ total.d \in Nat /\ total.t \in Nat
  BY <1>2, FieldTypes DEF TypeOK, GatewayTypes, Fields
<1>4. /\ \A e \in Conns : e # c => g'[e] = g[e]
      /\ g'[c].st = (IF g[c].st = "pending" THEN "open" ELSE g[c].st)
      /\ g'[c].d = g[c].d /\ g'[c].t = g[c].t
      /\ g'[c].dCredit = g[c].dCredit /\ g'[c].tCredit = g[c].tCredit
  BY <1>1, <1>3 DEF GatewayConns
<1>5. FrameRelayed(c) /\ Head(toGateway).kind = "connection_opened"
  <2>1. (g[c].st = "pending") \in BOOLEAN /\ total.d <= total'.d /\ total.t <= total'.t
    BY <1>1, <1>3
  <2> QED BY <1>1, <1>4, <2>1, FrameStep
<1>6. Bounds(c)'
  BY <1>1, <1>2, <1>4, <1>5, FrameBounds DEF Bounds
<1>7. Shown(c)'
  <2>1. g'[c].t = g[c].t + One(Head(toGateway).kind = "data")
    <3>1. g[c].t \in Nat
      BY <1>2, FieldTypes DEF Fields
    <3> QED BY <1>4, <1>5, <3>1 DEF One
  <2>2. g[c].st = "ended" => g'[c].st = "ended"
    BY <1>4
  <2> QED BY <1>2, <1>4, <1>5, <2>1, <2>2, FrameShown
<1>8. Life(c)'
  <2>1. g[c].st = "none" => a[c].st = "none"
    BY <1>2 DEF Life
  <2>2. Count(toGateway, "connection_opened", c) # 0
    <3>1. toGateway \in Seq(Messages) /\ toGateway # <<>> /\ Head(toGateway).c = c
      BY <1>5 DEF FrameRelayed
    <3>2. 1 \in Indices(toGateway, "connection_opened", c)
      BY <1>5, <3>1, IndicesTail
    <3> QED BY <3>1, <3>2, IndicesType
  <2>3. a[c].st # "none"
    BY <1>2, <2>2 DEF Life, Untouched
  <2>4. g'[c].st # "none" /\ (g'[c].st = "ended" => g[c].st = "ended")
    BY <1>4, <2>1, <2>3
  <2>5. g'[c].st = "ended" => a[c].st = "ended" /\ a[c].d = g'[c].d /\ a[c].t = g'[c].t
    BY <1>2, <1>4, <2>4 DEF Life
  <2> QED BY <1>2, <1>4, <1>5, <2>4, <2>5, FrameLife
<1>9. Flow(c)'
  <2> SUFFICES ASSUME Flowing(c)'
               PROVE  (/\ g[c].dCredit + Count(toAgent, "data", c) + One(Draining(c))
                           + Credit(toGateway, c) = Window
                       /\ a[c].credit + One(a[c].reader = "emitting")
                           + Count(toGateway, "data", c) + Count(toAgent, "window", c)
                           = g[c].tCredit
                       /\ g[c].st = "pending" => OpenedFirst(toGateway, c)
                       /\ Sequenced(toGateway, c, g[c].t,
                                    a[c].t - One(a[c].reader = "emitting")))'
    BY DEF Flow
  <2> DEFINE hi == a[c].t - One(a[c].reader = "emitting")
  <2>1. /\ One(Draining(c)') = One(Draining(c))
        /\ g[c].dCredit + Count(toAgent', "data", c) + One(Draining(c))
             + Credit(toGateway, c) = Window
        /\ a[c].credit + One(a[c].reader = "emitting")
             + Count(toGateway, "data", c) + Count(toAgent', "window", c)
             = g[c].tCredit
        /\ Sequenced(toGateway, c, g[c].t, hi) /\ g[c].t \in Nat /\ hi \in Nat
        /\ Count(toGateway', "data", c) + One(Head(toGateway).kind = "data") =
             Count(toGateway, "data", c)
        /\ Credit(toGateway', c) + Grant(Head(toGateway), c) = Credit(toGateway, c)
    BY <1>5, FrameFlow
  <2> HIDE DEF hi
  <2>2. /\ Count(toGateway', "data", c) = Count(toGateway, "data", c)
        /\ Credit(toGateway', c) = Credit(toGateway, c)
    <3>1. Count(toGateway', "data", c) \in Nat /\ Credit(toGateway', c) \in Nat
      BY <1>2, ViewTypesNext, KindNames DEF Views
    <3>2. One(Head(toGateway).kind = "data") = 0 /\ Grant(Head(toGateway), c) = 0
      BY <1>5 DEF One, Grant
    <3> QED BY <2>1, <3>1, <3>2
  <2>3. Sequenced(toGateway', c, g[c].t, hi)
    <3>1. toGateway \in Seq(Messages) /\ toGateway # <<>> /\ toGateway' = Tail(toGateway)
      BY <1>5 DEF FrameRelayed
    <3>2. g[c].t \in Int /\ hi \in Int
      BY <2>1
    <3> QED BY <1>5, <2>1, <3>1, <3>2, SequencedOtherTail
  <2>4. a' = a
    BY <1>5 DEF FrameRelayed
  <2>5. hi' = hi
    BY <2>4 DEF hi
  <2>6. g'[c].st # "pending"
    BY <1>4
  <2>7. Sequenced(toGateway', c, g'[c].t, a'[c].t - One(a'[c].reader = "emitting"))
    BY <1>4, <2>3, <2>4 DEF hi
  <2> QED BY <1>4, <2>1, <2>2, <2>4, <2>6, <2>7
<1>10. Totals'
  BY <1>1, <1>2, <1>4, TotalsUnchanged DEF TotalsKept
<1>11. Holds(c)'
  BY <1>6, <1>7, <1>8, <1>9 DEF Holds
<1>12. Onward /\ SessionKept /\ \A e \in Conns : e # c => Still(e)
  BY <1>5 DEF FrameRelayed
<1> QED BY <1>0, <1>10, <1>11, <1>12, CarryOne

LEMMA StepOnWindow ==
    ASSUME IInv, NEW c \in Conns, OnWindow(c)
    PROVE  IInv'
<1> DEFINE n == Head(toGateway).n
           ok == c \in Known /\ g[c].dCredit + n <= Window
<1>0. Next
  BY DEF Next, AgentLive
<1>1. /\ gw = "open" /\ Frame("window") /\ Head(toGateway).c = c
      /\ g' = (IF ok THEN [g EXCEPT ![c].dCredit = @ + n] ELSE g)
      /\ Expect(ok, Head(toGateway))
      /\ UNCHANGED <<opened, total, loop, agentVars, link, deskVars>>
  BY DEF OnWindow
<1>2. TypeOK /\ TypeOK' /\ Totals /\ Bounds(c) /\ Life(c) /\ Flow(c)
  BY <1>0, InvParts, TypeNext
<1>3. g \in [Conns -> GatewayConns] /\ total.d \in Nat /\ total.t \in Nat
      /\ g[c].dCredit \in Nat /\ g[c].t \in Nat /\ Window \in Nat
  BY <1>2, FieldTypes DEF TypeOK, GatewayTypes, Fields
<1>n. n \in Nat /\ Head(toGateway).kind = "window"
  BY <1>1, <1>2, FrameShape DEF Messages
<1>o. ok \in BOOLEAN
  OBVIOUS
<1>e. ok <=> g[c].st \in {"pending", "open"} /\ g[c].dCredit + n <= Window
  BY DEF Known
<1> HIDE DEF n, ok
<1>4. /\ \A e \in Conns : /\ e # c => g'[e] = g[e]
                          /\ g'[e].st = g[e].st
                          /\ g'[e].d = g[e].d /\ g'[e].t = g[e].t
                          /\ g'[e].tCredit = g[e].tCredit
      /\ g'[c].dCredit = (IF ok THEN g[c].dCredit + n ELSE g[c].dCredit)
  BY <1>1, <1>3 DEF GatewayConns
<1>5. FrameRelayed(c) /\ (ending' = ending /\ out' = Append(out, Head(toGateway)) => ok)
  <2>1. total.d <= total'.d /\ total.t <= total'.t
    BY <1>1, <1>3
  <2> QED BY <1>1, <1>4, <1>o, <2>1, FrameStep
<1>6. Bounds(c)'
  <2>1. Grant(Head(toGateway), c) = n
    BY <1>1, <1>n DEF Grant, n
  <2>2. ok \/ out' = out
    BY <1>5 DEF FrameRelayed
  <2>3. \/ g'[c].dCredit = g[c].dCredit + Grant(Head(toGateway), c)
        \/ g'[c].dCredit = g[c].dCredit /\ out' = out
    BY <1>4, <2>1, <2>2
  <2>4. g'[c].d <= total'.d /\ g'[c].t <= total'.t
    BY <1>1, <1>2, <1>4 DEF Bounds
  <2> QED BY <1>2, <1>5, <2>3, <2>4, FrameBounds
<1>7. Shown(c)'
  <2>1. g'[c].t = g[c].t + One(Head(toGateway).kind = "data")
    BY <1>3, <1>4, <1>n DEF One
  <2> QED BY <1>2, <1>4, <1>5, <1>n, <2>1, FrameShown
<1>8. Life(c)'
  <2>1. g[c].st # "none"
    <3>1. toGateway \in Seq(Messages) /\ toGateway # <<>> /\ Head(toGateway).c = c
      BY <1>5 DEF FrameRelayed
    <3>2. 1 \in Indices(toGateway, "window", c)
      BY <1>n, <3>1, IndicesTail
    <3>3. Count(toGateway, "window", c) # 0
      BY <3>1, <3>2, IndicesType
    <3> QED BY <1>2, <3>3 DEF Life, Untouched
  <2>2. g'[c].st = "ended" => a[c].st = "ended" /\ a[c].d = g'[c].d /\ a[c].t = g'[c].t
    BY <1>2, <1>4 DEF Life
  <2> QED BY <1>2, <1>4, <1>5, <1>n, <2>1, <2>2, FrameLife
<1>9. Flow(c)'
  <2> SUFFICES ASSUME Flowing(c)'
               PROVE  (/\ g[c].dCredit + Count(toAgent, "data", c) + One(Draining(c))
                           + Credit(toGateway, c) = Window
                       /\ a[c].credit + One(a[c].reader = "emitting")
                           + Count(toGateway, "data", c) + Count(toAgent, "window", c)
                           = g[c].tCredit
                       /\ g[c].st = "pending" => OpenedFirst(toGateway, c)
                       /\ Sequenced(toGateway, c, g[c].t,
                                    a[c].t - One(a[c].reader = "emitting")))'
    BY DEF Flow
  <2> DEFINE hi == a[c].t - One(a[c].reader = "emitting")
  <2>1. /\ One(Draining(c)') = One(Draining(c)) /\ g[c].st \in {"pending", "open"}
        /\ g[c].dCredit + Count(toAgent', "data", c) + One(Draining(c))
             + Credit(toGateway, c) = Window
        /\ a[c].credit + One(a[c].reader = "emitting")
             + Count(toGateway, "data", c) + Count(toAgent', "window", c)
             = g[c].tCredit
        /\ g[c].st = "pending" => OpenedFirst(toGateway, c)
        /\ Sequenced(toGateway, c, g[c].t, hi) /\ g[c].t \in Nat /\ hi \in Nat
        /\ Count(toGateway', "data", c) + One(Head(toGateway).kind = "data") =
             Count(toGateway, "data", c)
        /\ Credit(toGateway', c) + Grant(Head(toGateway), c) = Credit(toGateway, c)
    BY <1>5, FrameFlow
  <2> HIDE DEF hi
  <2>2. /\ Count(toGateway', "data", c) = Count(toGateway, "data", c)
        /\ Credit(toGateway', c) + n = Credit(toGateway, c)
    <3>1. Count(toGateway', "data", c) \in Nat
      BY <1>2, ViewTypesNext, KindNames DEF Views
    <3>2. One(Head(toGateway).kind = "data") = 0 /\ Grant(Head(toGateway), c) = n
      BY <1>1, <1>n DEF One, Grant, n
    <3> QED BY <2>1, <3>1, <3>2
  <2>3. toGateway \in Seq(Messages) /\ toGateway # <<>> /\ toGateway' = Tail(toGateway)
    BY <1>5 DEF FrameRelayed
  <2>4. Sequenced(toGateway', c, g[c].t, hi)
    <3>2. g[c].t \in Int /\ hi \in Int
      BY <2>1
    <3> QED BY <1>n, <2>1, <2>3, <3>2, SequencedOtherTail
  <2>5. a' = a
    BY <1>5 DEF FrameRelayed
  <2>6. g'[c].st = "pending" => OpenedFirst(toGateway', c)
    BY <1>4, <1>n, <2>1, <2>3, OpenedFirstTail
  <2>7. Sequenced(toGateway', c, g'[c].t, a'[c].t - One(a'[c].reader = "emitting"))
    BY <1>4, <2>4, <2>5 DEF hi
  <2>8. g'[c].dCredit + Count(toAgent', "data", c) + One(Draining(c)) + Credit(toGateway', c) = Window
    <3>1. /\ Count(toAgent', "data", c) \in Nat /\ One(Draining(c)) \in 0..1
          /\ Credit(toGateway', c) \in Nat
      BY <1>2, ViewTypesNext, KindNames DEF Views, One
    <3>2. g[c].dCredit + n <= Window
      BY <1>3, <1>n, <2>1, <2>2, <3>1
    <3>3. ok
      BY <1>e, <2>1, <3>2
    <3>4. g'[c].dCredit = g[c].dCredit + n
      BY <1>4, <3>3
    <3> QED BY <1>3, <1>n, <2>1, <2>2, <3>1, <3>4
  <2> QED BY <1>4, <2>1, <2>2, <2>5, <2>6, <2>7, <2>8
<1>10. Totals'
  BY <1>1, <1>2, <1>4, TotalsUnchanged DEF TotalsKept
<1>11. Holds(c)'
  BY <1>6, <1>7, <1>8, <1>9 DEF Holds
<1>12. Onward /\ SessionKept /\ \A e \in Conns : e # c => Still(e)
  BY <1>5 DEF FrameRelayed
<1> QED BY <1>0, <1>10, <1>11, <1>12, CarryOne

LEMMA StepOnConnectionEnd ==
    ASSUME IInv, NEW c \in Conns, OnConnectionEnd(c)
    PROVE  IInv'
<1> DEFINE n == Head(toGateway).n
           m == Head(toGateway).m
           ok == c \in Known /\ n = g[c].d /\ m = g[c].t
<1>0. Next
  BY DEF Next, AgentLive
<1>1. /\ gw = "open" /\ Frame("connection_end") /\ Head(toGateway).c = c
      /\ g' = (IF ok THEN [g EXCEPT ![c].st = "ended"] ELSE g)
      /\ Expect(ok, Head(toGateway))
      /\ UNCHANGED <<opened, total, loop, agentVars, link, deskVars>>
  BY DEF OnConnectionEnd
<1>2. TypeOK /\ TypeOK' /\ Totals /\ Bounds(c) /\ Life(c)
  BY <1>0, InvParts, TypeNext
<1>3. g \in [Conns -> GatewayConns] /\ total.d \in Nat /\ total.t \in Nat
      /\ g[c].t \in Nat /\ g[c].d \in Nat /\ a[c].d \in Nat
  BY <1>2, FieldTypes DEF TypeOK, GatewayTypes, Fields
<1>n. n \in Nat /\ m \in Nat /\ Head(toGateway).kind = "connection_end"
  BY <1>1, <1>2, FrameShape DEF Messages
<1>o. ok \in BOOLEAN
  OBVIOUS
<1>e. ok => n = g[c].d /\ m = g[c].t
  OBVIOUS
<1> HIDE DEF n, m, ok
<1>4. /\ \A e \in Conns : /\ e # c => g'[e] = g[e]
                          /\ g'[e].d = g[e].d /\ g'[e].t = g[e].t
                          /\ g'[e].dCredit = g[e].dCredit
      /\ g'[c].st = (IF ok THEN "ended" ELSE g[c].st)
  BY <1>1, <1>3 DEF GatewayConns
<1>5. FrameRelayed(c) /\ (ending' = ending /\ out' = Append(out, Head(toGateway)) => ok)
  <2>1. total.d <= total'.d /\ total.t <= total'.t
    BY <1>1, <1>3
  <2> QED BY <1>1, <1>4, <1>o, <2>1, FrameStep
<1>6. Bounds(c)'
  <2>1. g'[c].d <= total'.d /\ g'[c].t <= total'.t
    BY <1>1, <1>2, <1>4 DEF Bounds
  <2> QED BY <1>2, <1>4, <1>5, <1>n, <2>1, FrameBounds
<1>7. Shown(c)'
  <2>1. g'[c].t = g[c].t + One(Head(toGateway).kind = "data")
    BY <1>3, <1>4, <1>n DEF One
  <2>2. out' # out => g'[c].st = "ended"
    BY <1>4, <1>5 DEF FrameRelayed
  <2>3. g[c].st = "ended" => g'[c].st = "ended"
    BY <1>4
  <2> QED BY <1>2, <1>4, <1>5, <1>n, <2>1, <2>2, <2>3, FrameShown
<1>s. toGateway \in Seq(Messages) /\ toGateway # <<>> /\ Head(toGateway).c = c
  BY <1>5 DEF FrameRelayed
\* A receipt on its way means that the agent has ended the connection.
<1>a. a[c].st = "ended"
  <2>1. 1 \in Indices(toGateway, "connection_end", c)
    BY <1>n, <1>s, IndicesTail
  <2>2. Count(toGateway, "connection_end", c) \in Nat /\ Count(toGateway, "connection_end", c) # 0
    BY <1>s, <2>1, IndicesType
  <2> QED BY <1>2, <2>2 DEF Life
<1>8. Life(c)'
  <2>1. ok => a[c].d = g[c].d /\ a[c].t = g[c].t
    <3>1. n <= a[c].d /\ m = a[c].t
      BY <1>2, <1>n, <1>s, ReceiptsTail DEF Life, n, m
    <3>2. a[c].d <= g[c].d
      <4>1. Count(toAgent, "data", c) \in Nat /\ One(Draining(c)) \in 0..1
        BY <1>2, ViewTypes, KindNames DEF Views, One
      <4>2. a[c].d + One(Draining(c)) + Count(toAgent, "data", c) <= g[c].d
        BY <1>2 DEF Life
      <4> QED BY <1>3, <4>1, <4>2
    <3> QED BY <1>3, <1>e, <1>n, <3>1, <3>2
  <2>2. g[c].st # "none"
    BY <1>2, <1>a DEF Life
  <2>3. g'[c].st = "ended" => a[c].d = g'[c].d /\ a[c].t = g'[c].t
    <3>1. CASE ok
      BY <1>4, <2>1, <3>1
    <3>2. CASE ~ok
      BY <1>2, <1>4, <3>2 DEF Life
    <3> QED BY <3>1, <3>2
  <2>4. g'[c].st # "none"
    BY <1>4, <2>2
  <2> QED BY <1>2, <1>4, <1>5, <1>n, <1>a, <2>3, <2>4, FrameLife
<1>9. Flow(c)'
  <2>1. a' = a
    BY <1>5 DEF FrameRelayed
  <2> QED BY <1>a, <2>1 DEF Flow, Flowing
<1>10. Totals'
  BY <1>1, <1>2, <1>4, TotalsUnchanged DEF TotalsKept
<1>11. Holds(c)'
  BY <1>6, <1>7, <1>8, <1>9 DEF Holds
<1>12. Onward /\ SessionKept /\ \A e \in Conns : e # c => Still(e)
  BY <1>5 DEF FrameRelayed
<1> QED BY <1>0, <1>10, <1>11, <1>12, CarryOne

\* Data of the target that the gateway relays, or refuses because it came out
\* of turn.
LEMMA StepDataFrame ==
    ASSUME IInv, NEW c \in Conns, OnData(c), NEW ok \in BOOLEAN,
           ok => g[c].st = "open" /\ g[c].tCredit > 0 /\ g[c].t = Head(toGateway).n,
           ~ok => ~(g[c].st = "open" /\ g[c].tCredit > 0 /\ g[c].t = Head(toGateway).n),
           ok => /\ g' = [g EXCEPT ![c].tCredit = @ - 1, ![c].t = @ + 1]
                 /\ total' = [total EXCEPT !.t = @ + 1],
           ~ok => g' = g /\ total' = total,
           Expect(ok, Head(toGateway)) \/ (ok /\ Offer(Head(toGateway)))
    PROVE  IInv'
<1>0. Next
  BY DEF Next, AgentLive
<1>1. /\ gw = "open" /\ Frame("data") /\ Head(toGateway).c = c
      /\ UNCHANGED <<opened, loop, agentVars, link, deskVars>>
  BY DEF OnData
<1>2. TypeOK /\ TypeOK' /\ Totals /\ Bounds(c) /\ Life(c)
  BY <1>0, InvParts, TypeNext
<1>3. /\ g \in [Conns -> GatewayConns] /\ total \in [d : 0..ByteLimit, t : 0..ByteLimit]
      /\ total.d \in Nat /\ total.t \in Nat
      /\ g[c].t \in Nat /\ g[c].tCredit \in Nat
  BY <1>2, FieldTypes DEF TypeOK, GatewayTypes, Fields
<1>n. Head(toGateway).kind = "data"
  BY <1>1, <1>2, FrameShape
<1>4. /\ \A e \in Conns : e # c => g'[e] = g[e]
      /\ g'[c].st = g[c].st /\ g'[c].d = g[c].d /\ g'[c].dCredit = g[c].dCredit
      /\ total'.d = total.d
      /\ ok => /\ g'[c].t = g[c].t + 1 /\ g'[c].tCredit = g[c].tCredit - 1
               /\ total'.t = total.t + 1
      /\ ~ok => g'[c].t = g[c].t /\ g'[c].tCredit = g[c].tCredit /\ total'.t = total.t
  <2>1. CASE ok
    <3>1. g' = [g EXCEPT ![c].tCredit = @ - 1, ![c].t = @ + 1]
          /\ total' = [total EXCEPT !.t = @ + 1]
      BY <2>1
    <3>2. total'.d = total.d /\ total'.t = total.t + 1
      BY <1>3, <3>1
    <3>3. /\ \A e \in Conns : e # c => g'[e] = g[e]
          /\ g'[c].st = g[c].st /\ g'[c].d = g[c].d /\ g'[c].dCredit = g[c].dCredit
          /\ g'[c].t = g[c].t + 1 /\ g'[c].tCredit = g[c].tCredit - 1
      BY <1>3, <3>1 DEF GatewayConns
    <3> QED BY <2>1, <3>2, <3>3
  <2>2. CASE ~ok
    BY <2>2
  <2> QED BY <2>1, <2>2
<1>5. FrameRelayed(c) /\ (ending' = ending /\ out' = Append(out, Head(toGateway)) => ok)
  <2>1. total.d <= total'.d /\ total.t <= total'.t
    BY <1>3, <1>4
  <2> QED BY <1>1, <1>4, <2>1, FrameStep
<1>6. Bounds(c)'
  <2>1. g'[c].d <= total'.d /\ g'[c].t <= total'.t
    BY <1>2, <1>3, <1>4 DEF Bounds
  <2> QED BY <1>2, <1>4, <1>5, <1>n, <2>1, FrameBounds
<1>7. Shown(c)'
  <2>1. out' # out => ok
    BY <1>5 DEF FrameRelayed
  <2>2. out' # out => g'[c].t = g[c].t + One(Head(toGateway).kind = "data") /\ g[c].st = "open"
    BY <1>4, <1>n, <2>1 DEF One
  <2> QED BY <1>2, <1>4, <1>5, <1>n, <2>2, FrameShown
<1>8. Life(c)'
  <2>1. g[c].st # "none"
    <3>1. toGateway \in Seq(Messages) /\ toGateway # <<>> /\ Head(toGateway).c = c
      BY <1>5 DEF FrameRelayed
    <3>2. 1 \in Indices(toGateway, "data", c)
      BY <1>n, <3>1, IndicesTail
    <3>3. Count(toGateway, "data", c) # 0
      BY <3>1, <3>2, IndicesType
    <3> QED BY <1>2, <3>3 DEF Life, Untouched
  <2>2. g'[c].st = "ended" => g[c].st = "ended" /\ g'[c].t = g[c].t
    BY <1>4
  <2>3. g'[c].st = "ended" => a[c].st = "ended" /\ a[c].d = g'[c].d /\ a[c].t = g'[c].t
    BY <1>2, <1>4, <2>2 DEF Life
  <2> QED BY <1>2, <1>4, <1>5, <1>n, <2>1, <2>3, FrameLife
<1>9. Flow(c)'
  <2> SUFFICES ASSUME Flowing(c)'
               PROVE  (/\ g[c].dCredit + Count(toAgent, "data", c) + One(Draining(c))
                           + Credit(toGateway, c) = Window
                       /\ a[c].credit + One(a[c].reader = "emitting")
                           + Count(toGateway, "data", c) + Count(toAgent, "window", c)
                           = g[c].tCredit
                       /\ g[c].st = "pending" => OpenedFirst(toGateway, c)
                       /\ Sequenced(toGateway, c, g[c].t,
                                    a[c].t - One(a[c].reader = "emitting")))'
    BY DEF Flow
  <2> DEFINE hi == a[c].t - One(a[c].reader = "emitting")
  <2>1. /\ One(Draining(c)') = One(Draining(c)) /\ g[c].st \in {"pending", "open"}
        /\ g[c].dCredit + Count(toAgent', "data", c) + One(Draining(c))
             + Credit(toGateway, c) = Window
        /\ a[c].credit + One(a[c].reader = "emitting")
             + Count(toGateway, "data", c) + Count(toAgent', "window", c)
             = g[c].tCredit
        /\ g[c].st = "pending" => OpenedFirst(toGateway, c)
        /\ Sequenced(toGateway, c, g[c].t, hi) /\ g[c].t \in Nat /\ hi \in Nat
        /\ Count(toGateway', "data", c) + One(Head(toGateway).kind = "data") =
             Count(toGateway, "data", c)
        /\ Credit(toGateway', c) + Grant(Head(toGateway), c) = Credit(toGateway, c)
    BY <1>5, FrameFlow
  <2> HIDE DEF hi
  <2>2. /\ Count(toGateway', "data", c) + 1 = Count(toGateway, "data", c)
        /\ Credit(toGateway', c) = Credit(toGateway, c)
    <3>1. Credit(toGateway', c) \in Nat
      BY <1>2, ViewTypesNext DEF Views
    <3>2. One(Head(toGateway).kind = "data") = 1 /\ Grant(Head(toGateway), c) = 0
      BY <1>n DEF One, Grant
    <3> QED BY <2>1, <3>1, <3>2
  <2>3. /\ toGateway \in Seq(Messages) /\ toGateway # <<>> /\ toGateway' = Tail(toGateway)
        /\ Head(toGateway).c = c
    BY <1>5 DEF FrameRelayed
  <2>4. Head(toGateway).n = g[c].t /\ Sequenced(toGateway', c, g[c].t + 1, hi)
    BY <1>n, <2>1, <2>3, SequencedTail
  <2>5. a' = a
    BY <1>5 DEF FrameRelayed
  <2>6. g[c].st = "open"
    BY <1>n, <2>1, <2>3, OpenedFirstTail
  <2>7. /\ a[c].credit \in Nat /\ Count(toGateway', "data", c) \in Nat
        /\ Count(toAgent', "window", c) \in Nat /\ One(a[c].reader = "emitting") \in 0..1
    <3>1. a[c].credit \in Nat
      BY <1>2, FieldTypes DEF Fields
    <3>2. Count(toGateway', "data", c) \in Nat /\ Count(toAgent', "window", c) \in Nat
      BY <1>2, ViewTypesNext, KindNames DEF Views
    <3> QED BY <3>1, <3>2 DEF One
  \* Not refused: it is the next one, and there is credit for it.
  <2>8. ok
    <3>1. g[c].tCredit > 0
      BY <1>3, <2>1, <2>2, <2>7
    <3> QED BY <2>4, <2>6, <3>1
  <2>9. a[c].credit + One(a[c].reader = "emitting")
             + Count(toGateway', "data", c) + Count(toAgent', "window", c)
             = g'[c].tCredit
    BY <1>3, <1>4, <2>1, <2>2, <2>7, <2>8
  <2>10. Sequenced(toGateway', c, g'[c].t, a'[c].t - One(a'[c].reader = "emitting"))
    BY <1>4, <2>4, <2>5, <2>8 DEF hi
  <2> QED BY <1>4, <2>1, <2>2, <2>5, <2>6, <2>9, <2>10
<1>10. Totals'
  <2>1. CASE ok
    BY <1>2, <2>1, CountTarget
  <2>2. CASE ~ok
    BY <1>2, <2>2, TotalsUnchanged DEF TotalsKept
  <2> QED BY <2>1, <2>2
<1>11. Holds(c)'
  BY <1>6, <1>7, <1>8, <1>9 DEF Holds
<1>12. Onward /\ SessionKept /\ \A e \in Conns : e # c => Still(e)
  BY <1>5 DEF FrameRelayed
<1> QED BY <1>0, <1>10, <1>11, <1>12, CarryOne

LEMMA StepOnData ==
    ASSUME IInv, NEW c \in Conns, OnData(c)
    PROVE  IInv'
<1> DEFINE ok == g[c].st = "open" /\ g[c].tCredit > 0 /\ g[c].t = Head(toGateway).n
<1>0. Next
  BY DEF Next, AgentLive
<1>1. /\ gw = "open" /\ Frame("data")
      /\ UNCHANGED <<opened, loop, agentVars, link, deskVars>>
  BY DEF OnData
<1>2. CASE ProtocolError("agent") /\ ~ok /\ UNCHANGED <<g, total>>
  <2>1. Expect(FALSE, Head(toGateway))
    BY <1>2 DEF Expect
  <2> QED BY <1>2, <2>1, StepDataFrame
<1>3. CASE /\ ok /\ Offer(Head(toGateway))
           /\ g' = [g EXCEPT ![c].tCredit = @ - 1, ![c].t = @ + 1]
           /\ total' = [total EXCEPT !.t = @ + 1]
  BY <1>3, StepDataFrame
<1>4. CASE Finish("closed") /\ UNCHANGED <<g, total, ending, toAgent>>
  <2>1. TypeOK /\ LoopInv
    BY InvParts
  <2>2. /\ \A k \in Tasks : ending'[k] # "ended"
        /\ toGateway # <<>> /\ toGateway' = Tail(toGateway) /\ link' = link
    BY <1>1, <1>4, <2>1 DEF LoopInv, Frame
  <2>3. /\ Onward /\ SessionKept
        /\ \A e : StillQueues(e)
        /\ \A e \in Conns : StillAgent(e)
    <3>1. "closed" \in Reasons /\ "closed" # "ended"
      BY DEF Reasons
    <3>2. loop' \in {loop, "stopped"} /\ agentVars' = agentVars /\ toAgent' = toAgent
      BY <1>1, <1>4
    <3> HIDE DEF ok
    <3> QED BY <1>4, <2>2, <3>1, <3>2, FinishStep
  <2>4. \A e \in Conns : StillGateway(e) /\ StillDesk(e)
    BY <1>1, <1>4, <2>1, PartsKept DEF deskVars
  <2>5. TotalsKept
    BY <1>4 DEF TotalsKept
  <2> QED BY <1>0, <2>3, <2>4, <2>5, CarryStill DEF Still
<1> QED BY <1>2, <1>3, <1>4 DEF OnData

-----------------------------------------------------------------------------
(* Steps of the agent leave the gateway and the desktop alone. *)

SlotOnward ==
    /\ slot = "gone" => slot' = "gone"
    /\ slot' = "none" => slot = "none"
    /\ HasEnd(toGateway') => slot' = "gone"

AgentSame(c) ==
    /\ a'[c].st = a[c].st /\ a'[c].credit = a[c].credit
    /\ a'[c].d = a[c].d /\ a'[c].t = a[c].t
    /\ a'[c].reader = "emitting" <=> a[c].reader = "emitting"
    /\ a[c].st = "none" => a'[c].reader = a[c].reader

LoopStill(c) ==
    /\ Connecting(c)' => Connecting(c)
    /\ Draining(c)' => Draining(c)
    /\ Flowing(c)' => (Draining(c) => Draining(c)')

LEMMA LoopStills ==
    ASSUME NEW c
    PROVE  /\ UNCHANGED <<aloop, acur>> => LoopStill(c)
           /\ aloop = "idle" /\ acur' # c => LoopStill(c)
           /\ aloop = "connecting" /\ aloop' \in {"idle", "stopped"} => LoopStill(c)
           /\ aloop = "draining" /\ acur # c /\ aloop' \in {"idle", "stopped"} => LoopStill(c)
           /\ aloop' \in {aloop, "stopped"} /\ acur' = acur /\ link' # "up" => LoopStill(c)
BY DEF LoopStill, Connecting, Draining, Flowing

LEMMA AgentSames ==
    ASSUME NEW c
    PROVE  a'[c] = a[c] => AgentSame(c)
BY DEF AgentSame

LEMMA AgentKept ==
    ASSUME IInv, AgentOnly, SlotOnward, TypeOK'
    PROVE  /\ Onward /\ SessionKept /\ TotalsKept /\ Totals'
           /\ \A c \in Conns : StillGateway(c) /\ StillDesk(c) /\ Shown(c)'
           /\ \A c \in Conns : (a'[c].reader = "emitting" => a'[c].t > 0) => Bounds(c)'
<1>1. TypeOK /\ LoopInv /\ Totals /\ \A c \in Conns : Shown(c) /\ Bounds(c)
  BY InvParts
<1>2. UNCHANGED <<gw, g, total, out, ending, loop, audit, link, desk>>
  BY DEF AgentOnly, gatewayVars, deskVars
<1>3. Onward
  BY <1>2 DEF Onward, SlotOnward
<1>4. SessionKept
  BY <1>1, <1>2 DEF SessionKept, SlotOnward, LoopInv
<1>5. TotalsKept
  BY <1>2 DEF TotalsKept
<1>6. Totals'
  BY <1>1, <1>5, TotalsUnchanged
<1>7. \A c \in Conns : StillGateway(c) /\ StillDesk(c)
  BY <1>1, <1>2, PartsKept
<1>8. ASSUME NEW c \in Conns PROVE Shown(c)'
  BY <1>1, <1>2 DEF Shown
<1>9. ASSUME NEW c \in Conns, a'[c].reader = "emitting" => a'[c].t > 0 PROVE Bounds(c)'
  BY <1>1, <1>2, <1>9 DEF Bounds
<1> QED BY <1>3, <1>4, <1>5, <1>6, <1>7, <1>8, <1>9

LEMMA AgentStill ==
    ASSUME IInv, AgentOnly, NEW c \in Conns, AgentSame(c), LoopStill(c),
           Same(toAgent', toAgent, c) \/ (Fewer(toAgent', toAgent, c) /\ ~Flowing(c)'),
           Same(toGateway', toGateway, c) \/ (Fewer(toGateway', toGateway, c) /\ ~Flowing(c)')
    PROVE  Still(c)
<1>1. TypeOK
  BY InvParts
<1>2. UNCHANGED <<g, total, out, desk>>
  BY DEF AgentOnly, gatewayVars, deskVars
<1>3. StillGateway(c) /\ StillDesk(c)
  BY <1>1, <1>2, PartsKept
<1>4. Same(out', out, c)
  BY <1>2, SameRefl
<1>5. StillQueues(c)
  BY <1>1, <1>4, QueuesStill
<1>6. StillAgent(c)
  BY DEF StillAgent, AgentSame, LoopStill
<1> QED BY <1>3, <1>5, <1>6 DEF Still

LEMMA AgentQuiet ==
    ASSUME IInv, Next, AgentOnly, SlotOnward,
           \A c \in Conns :
              /\ AgentSame(c) /\ LoopStill(c)
              /\ Same(toAgent', toAgent, c) \/ (Fewer(toAgent', toAgent, c) /\ ~Flowing(c)')
              /\ Same(toGateway', toGateway, c)
    PROVE  IInv'
<1>1. TypeOK'
  BY TypeNext
<1>2. Onward /\ SessionKept /\ TotalsKept
  BY <1>1, AgentKept
<1>3. \A c \in Conns : Still(c)
  BY AgentStill
<1> QED BY <1>2, <1>3, CarryStill

\* A connection leaves the session.
LEMMA AgentLeaves ==
    ASSUME IInv, Next, AgentOnly, slot' = slot, NEW c \in Conns,
           a[c].st = "open", a'[c].st \in {"ending", "ended"}, a'[c].reader # "emitting",
           a'[c].d = a[c].d, a'[c].t = a[c].t, ~Connecting(c)', Draining(c)' => Draining(c),
           \A e \in Conns : e # c => /\ a'[e] = a[e] /\ LoopStill(e)
                                     /\ Same(toAgent', toAgent, e),
           Fewer(toAgent', toAgent, c), Trailing(c)
    PROVE  IInv'
<1>1. TypeOK /\ TypeOK' /\ AuditInv /\ Life(c)
  BY InvParts, TypeNext
<1>2. UNCHANGED <<gw, g, total, out, ending, loop, audit, link, desk>>
  BY DEF AgentOnly, gatewayVars, deskVars
<1>3. SlotOnward
  BY <1>1 DEF SlotOnward, AuditInv, Trailing
<1>4. /\ Onward /\ SessionKept /\ Totals' /\ Shown(c)' /\ Bounds(c)'
  BY <1>1, <1>3, AgentKept
<1>5. ASSUME NEW e \in Conns, e # c PROVE Still(e)
  <2>1. AgentSame(e) /\ LoopStill(e) /\ Same(toAgent', toAgent, e) /\ Same(toGateway', toGateway, e)
    BY <1>5, AgentSames DEF Trailing
  <2> QED BY <2>1, AgentStill
<1>6. Count(toGateway', "connection_end", c) = 0
  <2>1. Count(toGateway, "connection_end", c) \in Nat
    BY <1>1, ViewTypes, KindNames DEF Views
  <2>2. Count(toGateway, "connection_end", c) = 0
    BY <1>1, <2>1 DEF Life
  <2> QED BY <2>2 DEF Trailing
<1>7. Receipts(toGateway', c, a'[c].d, a'[c].t)
  BY <1>6, ReceiptsNone DEF Trailing
<1>8. a'[c].d + One(Draining(c)') + Count(toAgent', "data", c) <= g'[c].d
  <2>1. /\ a[c].d \in Nat /\ g[c].d \in Nat /\ One(Draining(c)) \in 0..1 /\ One(Draining(c)') \in 0..1
        /\ One(Draining(c)') <= One(Draining(c))
    BY <1>1, FieldTypes DEF Fields, One
  <2>2. /\ Count(toAgent, "data", c) \in Nat /\ Count(toAgent', "data", c) \in Nat
        /\ Count(toAgent', "data", c) <= Count(toAgent, "data", c)
    BY <1>1, ViewTypes, ViewTypesNext, KindNames DEF Views, Fewer
  <2>3. a[c].d + One(Draining(c)) + Count(toAgent, "data", c) <= g[c].d
    BY <1>1 DEF Life
  <2> QED BY <1>2, <2>1, <2>2, <2>3
<1>9. /\ g[c].st # "none" /\ g[c].st # "ended" /\ slot # "none"
  BY <1>1 DEF Life
<1>10. Life(c)'
  BY <1>1, <1>2, <1>6, <1>7, <1>8, <1>9 DEF Life
<1>11. Flow(c)'
  BY DEF Flow, Flowing
<1>12. Holds(c)'
  BY <1>4, <1>10, <1>11 DEF Holds
<1> QED BY <1>4, <1>5, <1>12, CarryOne

LEMMA SlotKept ==
    ASSUME IInv, slot' = slot, HasEnd(toGateway') => HasEnd(toGateway)
    PROVE  SlotOnward
<1>1. AuditInv
  BY InvParts
<1> QED BY <1>1 DEF AuditInv, SlotOnward

LEMMA AgentEdits ==
    ASSUME TypeOK, NEW c \in Conns,
           \/ a' = [a EXCEPT ![c].dHalf = TRUE]
           \/ /\ a[c].reader = "reading" /\ a[c].st = "open"
              /\ \/ a' = [a EXCEPT ![c].reader = "dead"]
                 \/ a' = [a EXCEPT ![c].tHalf = TRUE, ![c].reader = "dead"]
                 \/ a' = [a EXCEPT ![c].tHalf = TRUE, ![c].reader = "off"]
    PROVE  \A e \in Conns : AgentSame(e)
<1>1. a \in [Conns -> AgentConns]
  BY DEF TypeOK, AgentTypes
<1>2. CASE a' = [a EXCEPT ![c].dHalf = TRUE]
  BY <1>1, <1>2 DEF AgentSame, AgentConns
<1>3. CASE a[c].reader = "reading" /\ a[c].st = "open" /\ a' = [a EXCEPT ![c].reader = "dead"]
  BY <1>1, <1>3 DEF AgentSame, AgentConns
<1>4. CASE /\ a[c].reader = "reading" /\ a[c].st = "open"
           /\ a' = [a EXCEPT ![c].tHalf = TRUE, ![c].reader = "dead"]
  BY <1>1, <1>4 DEF AgentSame, AgentConns
<1>5. CASE /\ a[c].reader = "reading" /\ a[c].st = "open"
           /\ a' = [a EXCEPT ![c].tHalf = TRUE, ![c].reader = "off"]
  BY <1>1, <1>5 DEF AgentSame, AgentConns
<1> QED BY <1>2, <1>3, <1>4, <1>5

\* Frames that the receive loop takes and frames that count for nothing.
LEMMA QuietQueues ==
    ASSUME TypeOK
    PROVE  /\ \A k \in {"open", "close", "half_close"} : Take(k) =>
                 \A e : Same(toAgent', toAgent, e)
           /\ \A k : Take(k) => \A e : Fewer(toAgent', toAgent, e)
           /\ \A k, c : Take(k) /\ Head(toAgent).c = c =>
                 \A e : e # c => Same(toAgent', toAgent, e)
           /\ toAgent' = toAgent => \A e : /\ Same(toAgent', toAgent, e)
                                           /\ Fewer(toAgent', toAgent, e)
           /\ toGateway' = toGateway => /\ \A e : Same(toGateway', toGateway, e)
                                        /\ HasEnd(toGateway') => HasEnd(toGateway)
           /\ \A m : Plain(m) /\ Emit(<<m>>) =>
                 /\ \A e : Same(toGateway', toGateway, e)
                 /\ HasEnd(toGateway') => HasEnd(toGateway)
<1>1. ASSUME NEW k \in {"open", "close", "half_close"}, Take(k), NEW e
      PROVE  Same(toAgent', toAgent, e)
  <2>1. Other(Head(toAgent), e)
    BY <1>1, TakeShape DEF Other, Kinds
  <2> QED BY <1>1, <2>1, TakeShape
<1>2. ASSUME NEW k, Take(k), NEW e PROVE Fewer(toAgent', toAgent, e)
  <2>1. toAgent # <<>> /\ toAgent \in Seq(Messages) /\ toAgent' = Tail(toAgent)
    BY <1>2, TakeShape
  <2> QED BY <2>1, TailFewer
<1>3. ASSUME NEW k, NEW c, Take(k), Head(toAgent).c = c, NEW e, e # c
      PROVE  Same(toAgent', toAgent, e)
  <2>1. Other(Head(toAgent), e)
    BY <1>3 DEF Other
  <2> QED BY <1>3, <2>1, TakeShape
<1>4. toAgent' = toAgent => \A e : Same(toAgent', toAgent, e) /\ Fewer(toAgent', toAgent, e)
  BY SameRefl, SameFewer DEF TypeOK, LinkTypes
<1>5. toGateway' = toGateway => /\ \A e : Same(toGateway', toGateway, e)
                                /\ HasEnd(toGateway') => HasEnd(toGateway)
  BY SameRefl
<1>6. ASSUME NEW m, Plain(m), Emit(<<m>>)
      PROVE  /\ \A e : Same(toGateway', toGateway, e)
             /\ HasEnd(toGateway') => HasEnd(toGateway)
  BY <1>6, EmitShape DEF Plain
<1> QED BY <1>1, <1>2, <1>3, <1>4, <1>5, <1>6

LEMMA StepLoopQuiet ==
    ASSUME IInv, Open \/ Ignore \/ TcpRefused \/ CloseFrame \/ Watch \/ StreamEnds \/ SessionEnds
    PROVE  IInv'
<1>0. Next /\ AgentOnly /\ TypeOK /\ AuditInv /\ \A c \in Conns : Life(c)
  <2>1. Next
    BY DEF Next, Loop, Closer
  <2>2. AgentOnly
    BY AgentSteps DEF Loop, Closer
  <2> QED BY <2>1, <2>2, InvParts
<1>1. a' = a /\ link' = link /\ \A c \in Conns : AgentSame(c)
  <2>1. a' = a
    BY DEF Open, Ignore, TcpRefused, CloseFrame, Watch, StreamEnds, SessionEnds, agentVars
  <2> QED BY <1>0, <2>1, AgentSames DEF AgentOnly
<1>2. Plain(Session("error")) /\ Plain(Session("opened"))
  BY PlainFrames, AnyoneType
<1>3. CASE Open
  <2>1. Take("open") /\ slot = "none" /\ slot' \in {"open", slot} /\ UNCHANGED <<aloop, acur>>
        /\ (Emit(<<Session("opened")>>) \/ Emit(<<Session("error")>>))
    BY <1>3 DEF Open
  <2>2. /\ \A e : Same(toGateway', toGateway, e)
        /\ HasEnd(toGateway') => HasEnd(toGateway)
        /\ \A e : Same(toAgent', toAgent, e)
    BY <1>0, <1>2, <2>1, QuietQueues
  <2>3. SlotOnward
    BY <1>0, <2>1, <2>2 DEF SlotOnward, AuditInv
  <2>4. \A c \in Conns : LoopStill(c)
    BY <2>1, LoopStills
  <2> QED BY <1>0, <1>1, <2>2, <2>3, <2>4, AgentQuiet
<1>4. CASE Ignore
  <2> DEFINE m == Head(toAgent)
  <2>1. Take(m.kind) /\ UNCHANGED <<agentVars, toGateway>>
    BY <1>4 DEF Ignore
  <2>2. \/ slot \in {"none", "gone"} \/ ~InTable
        \/ m.c \notin Live
        \/ m.kind = "close"
    BY <1>4 DEF Ignore
  <2>3. UNCHANGED <<slot, aloop, acur>>
    BY <2>1 DEF agentVars, tableVars
  <2>4. ASSUME NEW e \in Conns, Flowing(e)' PROVE Same(toAgent', toAgent, e)
    <3>1. a[e].st = "open" /\ slot # "gone"
      BY <1>1, <2>3, <2>4 DEF Flowing
    <3>2. slot \in {"open", "closing"}
      <4>1. slot # "none"
        BY <1>0, <3>1 DEF Life
      <4>2. slot \in {"none", "open", "closing", "gone"}
        BY <1>0 DEF TypeOK, AgentTypes
      <4> QED BY <3>1, <4>1, <4>2
    <3>3. e \in Live
      BY <3>1 DEF Live
    <3>4. m.c # e \/ m.kind = "close"
      BY <2>2, <3>2, <3>3 DEF InTable
    <3>5. Other(m, e)
      BY <3>4 DEF Other, Kinds
    <3> QED BY <1>0, <2>1, <3>5, TakeShape
  <2>5. /\ \A e : Same(toGateway', toGateway, e)
        /\ HasEnd(toGateway') => HasEnd(toGateway)
        /\ \A e : Fewer(toAgent', toAgent, e)
    BY <1>0, <2>1, QuietQueues
  <2>6. SlotOnward
    BY <2>3, <2>5, SlotKept
  <2>7. \A c \in Conns : LoopStill(c)
    BY <2>3, LoopStills
  <2> HIDE DEF m
  <2> QED BY <1>0, <1>1, <2>4, <2>5, <2>6, <2>7, AgentQuiet
<1>5. CASE TcpRefused
  <2>1. /\ aloop = "connecting" /\ aloop' \in {"idle", "stopped"} /\ Emit(<<Session("error")>>)
        /\ slot' = slot /\ toAgent' = toAgent
    BY <1>5 DEF TcpRefused, tableVars
  <2>2. /\ \A e : Same(toGateway', toGateway, e)
        /\ HasEnd(toGateway') => HasEnd(toGateway)
        /\ \A e : Same(toAgent', toAgent, e)
    BY <1>0, <1>2, <2>1, QuietQueues
  <2>3. SlotOnward
    BY <2>1, <2>2, SlotKept
  <2>4. \A c \in Conns : LoopStill(c)
    BY <2>1, LoopStills
  <2> QED BY <1>0, <1>1, <2>2, <2>3, <2>4, AgentQuiet
<1>6. CASE CloseFrame \/ Watch \/ StreamEnds
  <2>1. /\ slot' = slot \/ (slot = "open" /\ slot' = "closing")
        /\ toGateway' = toGateway /\ acur' = acur
        /\ aloop' = aloop \/ (aloop' = "stopped" /\ link # "up")
        /\ Take("close") \/ toAgent' = toAgent
    BY <1>6 DEF CloseFrame, Watch, StreamEnds, Closes, tableVars
  <2>2. /\ \A e : Same(toGateway', toGateway, e)
        /\ HasEnd(toGateway') => HasEnd(toGateway)
        /\ \A e : Same(toAgent', toAgent, e)
    BY <1>0, <2>1, QuietQueues
  <2>3. SlotOnward
    BY <1>0, <2>1, <2>2 DEF SlotOnward, AuditInv
  <2>4. \A c \in Conns : LoopStill(c)
    BY <1>1, <2>1, LoopStills
  <2> QED BY <1>0, <1>1, <2>2, <2>3, <2>4, AgentQuiet
<1>7. CASE SessionEnds
  <2>1. /\ slot' = "gone" /\ UNCHANGED <<aloop, acur>> /\ toAgent' = toAgent
        /\ Emit(<<Receipt("end", Anyone, atotal.d, atotal.t)>>)
    BY <1>7 DEF SessionEnds
  <2>2. \A e : Same(toAgent', toAgent, e)
    BY <1>0, <2>1, QuietQueues
  <2>3. \A e : Same(toGateway', toGateway, e)
    <3>1. atotal.d \in Nat /\ atotal.t \in Nat
      BY <1>0 DEF TypeOK, AgentTypes
    <3>2. \A e : Other(Receipt("end", Anyone, atotal.d, atotal.t), e)
      BY <3>1, FrameType
    <3>3. Receipt("end", Anyone, atotal.d, atotal.t) \in Messages
      BY <1>0, AnyoneType, AgentFrames
    <3> QED BY <1>0, <2>1, <3>2, <3>3, EmitShape
  <2>4. SlotOnward
    BY <2>1 DEF SlotOnward
  <2>5. \A c \in Conns : LoopStill(c)
    BY <2>1, LoopStills
  <2> QED BY <1>0, <1>1, <2>2, <2>3, <2>4, <2>5, AgentQuiet
<1> QED BY <1>3, <1>4, <1>5, <1>6, <1>7

LEMMA StepLeaves ==
    ASSUME IInv, Next, AgentOnly, slot' = slot, NEW c \in Conns, c \in Live,
           NEW by \in {"loop", "reader", "closer"}, Finishes(c, by),
           \/ toAgent' = toAgent
           \/ \E k : Take(k) /\ Head(toAgent).c = c,
           \/ UNCHANGED <<aloop, acur>>
           \/ aloop = "draining" /\ acur = c /\ aloop' \in {"idle", "stopped"}
    PROVE  IInv'
<1>1. TypeOK /\ Life(c) /\ a[c].st = "open"
  BY InvParts DEF Live
<1>2. Trailing(c) /\ a' = [a EXCEPT ![c].st = "ending", ![c].by = by, ![c].reader = "off"]
  BY EndingShape
<1>3. a \in [Conns -> AgentConns]
  BY <1>1 DEF TypeOK, AgentTypes
<1>4. /\ a'[c].st = "ending" /\ a'[c].reader = "off" /\ a'[c].d = a[c].d /\ a'[c].t = a[c].t
      /\ \A e \in Conns : e # c => a'[e] = a[e]
  BY <1>2, <1>3 DEF AgentConns
<1>5. \A e \in Conns : e # c => LoopStill(e)
  BY LoopStills
<1>6. ~Connecting(c)' /\ (Draining(c)' => Draining(c))
  BY <1>1 DEF Life, Connecting, Draining
<1>7. Fewer(toAgent', toAgent, c) /\ \A e \in Conns : e # c => Same(toAgent', toAgent, e)
  BY <1>1, QuietQueues
<1> QED BY <1>1, <1>2, <1>4, <1>5, <1>6, <1>7, AgentLeaves

LEMMA StepDesktopHalfClosed ==
    ASSUME IInv, NEW c \in Conns, DesktopHalfClosed(c)
    PROVE  IInv'
<1>0. Next /\ AgentOnly /\ TypeOK
  <2>1. Next /\ Loop
    BY DEF Next, Loop
  <2> QED BY <2>1, AgentSteps, InvParts
<1>1. /\ Take("half_close") /\ Head(toAgent).c = c /\ c \in Live
      /\ slot' = slot /\ UNCHANGED <<aloop, acur>>
  BY DEF DesktopHalfClosed, tableVars
<1>2. CASE FinishConnection(c, "loop", <<>>)
  BY <1>0, <1>1, <1>2, StepLeaves DEF Finishes
<1>3. CASE a' = [a EXCEPT ![c].dHalf = TRUE] /\ toGateway' = toGateway
  <2>1. /\ \A e : Same(toGateway', toGateway, e)
        /\ HasEnd(toGateway') => HasEnd(toGateway)
        /\ \A e : Same(toAgent', toAgent, e)
    BY <1>0, <1>1, <1>3, QuietQueues
  <2>2. SlotOnward
    BY <1>1, <2>1, SlotKept
  <2>3. \A e \in Conns : LoopStill(e)
    BY <1>1, LoopStills
  <2>4. \A e \in Conns : AgentSame(e)
    BY <1>0, <1>3, AgentEdits
  <2> QED BY <1>0, <2>1, <2>2, <2>3, <2>4, AgentQuiet
<1> QED BY <1>2, <1>3 DEF DesktopHalfClosed

LEMMA StepCloseTcp ==
    ASSUME IInv, NEW c \in Conns, CloseTcp(c)
    PROVE  IInv'
<1>0. Next /\ AgentOnly
  <2>1. Next /\ Loop
    BY DEF Next, Loop
  <2> QED BY <2>1, AgentSteps
<1>1. /\ Take("connection_close") /\ Head(toAgent).c = c /\ c \in Live
      /\ slot' = slot /\ UNCHANGED <<aloop, acur>> /\ FinishConnection(c, "loop", <<>>)
  BY DEF CloseTcp, tableVars
<1> QED BY <1>0, <1>1, StepLeaves DEF Finishes

\* The reader of c, apart from the frames it reads.
LEMMA StepReaderEnds ==
    ASSUME IInv, NEW c \in Conns, ReadEof(c) \/ ReadFails(c)
    PROVE  IInv'
<1>0. Next /\ AgentOnly /\ TypeOK
  <2>1. Next /\ Target(c)
    BY DEF Next, Target
  <2> QED BY <2>1, AgentSteps, InvParts
<1>1. /\ c \in Live /\ a[c].reader = "reading" /\ a[c].st = "open"
      /\ slot' = slot /\ UNCHANGED <<aloop, acur, toAgent>>
  BY DEF ReadEof, ReadFails, Reading, Live, tableVars
<1>2. CASE Finishes(c, "reader")
  BY <1>0, <1>1, <1>2, StepLeaves
<1>3. CASE /\ \/ a' = [a EXCEPT ![c].reader = "dead"]
              \/ a' = [a EXCEPT ![c].tHalf = TRUE, ![c].reader = "dead"]
              \/ a' = [a EXCEPT ![c].tHalf = TRUE, ![c].reader = "off"]
           /\ toGateway' = toGateway \/ Emit(<<Msg("half_close", c, 0)>>)
  <2>1. Plain(Msg("half_close", c, 0))
    BY PlainFrames
  <2>2. /\ \A e : Same(toGateway', toGateway, e)
        /\ HasEnd(toGateway') => HasEnd(toGateway)
        /\ \A e : Same(toAgent', toAgent, e)
    BY <1>0, <1>1, <1>3, <2>1, QuietQueues
  <2>3. SlotOnward
    BY <1>1, <2>2, SlotKept
  <2>4. \A e \in Conns : LoopStill(e)
    BY <1>1, LoopStills
  <2>5. \A e \in Conns : AgentSame(e)
    BY <1>0, <1>1, <1>3, AgentEdits
  <2> QED BY <1>0, <2>2, <2>3, <2>4, <2>5, AgentQuiet
<1>4. CASE ReadEof(c)
  <2>1. CASE FinishConnection(c, "reader", <<Msg("half_close", c, 0)>>)
    BY <1>2, <2>1 DEF Finishes
  <2> QED BY <1>3, <1>4, <2>1 DEF ReadEof
<1>5. CASE ReadFails(c)
  <2>1. CASE FailConnection(c, "reader")
    BY <1>2, <2>1 DEF Finishes
  <2> QED BY <1>3, <1>5, <2>1 DEF ReadFails
<1> QED BY <1>4, <1>5

LEMMA StepDrainFails ==
    ASSUME IInv, DrainFails
    PROVE  IInv'
<1>0. Next /\ AgentOnly /\ TypeOK
  <2>1. Next /\ Loop
    BY DEF Next, Loop
  <2> QED BY <2>1, AgentSteps, InvParts
<1>1. /\ aloop = "draining" /\ aloop' \in {"idle", "stopped"} /\ acur' = acur
      /\ slot' = slot /\ toAgent' = toAgent /\ acur \in Conns /\ link' = link
  BY <1>0 DEF DrainFails, tableVars, TypeOK, AgentTypes
<1>2. CASE acur \in Live /\ FailConnection(acur, "loop")
  <2>1. Finishes(acur, "loop")
    BY <1>2 DEF Finishes
  <2> QED BY <1>0, <1>1, <1>2, <2>1, StepLeaves
<1>3. CASE ~(acur \in Live /\ link = "up") /\ Emit(<<Session("error")>>) /\ a' = a
  <2>1. Plain(Session("error"))
    BY PlainFrames, AnyoneType
  <2>2. /\ \A e : Same(toGateway', toGateway, e)
        /\ HasEnd(toGateway') => HasEnd(toGateway)
        /\ \A e : Same(toAgent', toAgent, e)
    BY <1>0, <1>1, <1>3, <2>1, QuietQueues
  <2>3. SlotOnward
    BY <1>1, <2>2, SlotKept
  <2>4. LoopStill(acur)
    <3>1. ~Flowing(acur)'
      BY <1>1, <1>3 DEF Flowing, Live
    <3> QED BY <1>1, <3>1 DEF LoopStill, Connecting, Draining
  <2>5. \A e \in Conns : LoopStill(e)
    BY <1>1, <2>4, LoopStills
  <2>6. \A e \in Conns : AgentSame(e)
    BY <1>3, AgentSames
  <2> QED BY <1>0, <2>2, <2>3, <2>5, <2>6, AgentQuiet
<1> QED BY <1>2, <1>3 DEF DrainFails

LEMMA StepCloseNext ==
    ASSUME IInv, NEW c \in Conns, CloseNext(c)
    PROVE  IInv'
<1>0. Next /\ AgentOnly /\ TypeOK
  <2>1. Next /\ Closer
    BY DEF Next, Closer
  <2> QED BY <2>1, AgentSteps, InvParts
<1>1. slot' = slot /\ UNCHANGED <<aloop, acur, toAgent>>
  BY DEF CloseNext
<1>2. CASE UNCHANGED <<a, toGateway>>
  <2>2. /\ \A e : Same(toGateway', toGateway, e)
        /\ HasEnd(toGateway') => HasEnd(toGateway)
        /\ \A e : Same(toAgent', toAgent, e)
    BY <1>0, <1>1, <1>2, QuietQueues
  <2>3. SlotOnward
    BY <1>1, <2>2, SlotKept
  <2>4. \A e \in Conns : LoopStill(e)
    BY <1>1, LoopStills
  <2>5. \A e \in Conns : AgentSame(e)
    BY <1>2, AgentSames
  <2> QED BY <1>0, <2>2, <2>3, <2>4, <2>5, AgentQuiet
<1>3. CASE c \in Live /\ FinishConnection(c, "closer", <<>>)
  <2>1. Finishes(c, "closer")
    BY <1>3 DEF Finishes
  <2> QED BY <1>0, <1>1, <1>3, <2>1, StepLeaves
<1>4. CASE c \in Live /\ a[c].reader = "dead" /\ a' = [a EXCEPT ![c].st = "ended"]
           /\ toGateway' = toGateway
  <2>1. a \in [Conns -> AgentConns] /\ a[c].st = "open" /\ Life(c)
    BY <1>0, <1>4, InvParts DEF TypeOK, AgentTypes, Live
  <2>2. /\ a'[c].st = "ended" /\ a'[c].reader = a[c].reader
        /\ a'[c].d = a[c].d /\ a'[c].t = a[c].t
        /\ \A e \in Conns : e # c => a'[e] = a[e]
    BY <1>4, <2>1 DEF AgentConns
  <2>3. \A e \in Conns : e # c => LoopStill(e)
    BY <1>1, LoopStills
  <2>4. ~Connecting(c)' /\ (Draining(c)' => Draining(c))
    BY <1>1, <2>1 DEF Life, Connecting, Draining
  <2>5. Fewer(toAgent', toAgent, c) /\ \A e \in Conns : e # c => Same(toAgent', toAgent, e)
    BY <1>0, <1>1, QuietQueues
  <2>6. Trailing(c)
    BY <1>0, <1>4, TrailingRefl
  <2> QED BY <1>0, <1>1, <1>4, <2>1, <2>2, <2>3, <2>4, <2>5, <2>6, AgentLeaves
<1> QED BY <1>2, <1>3, <1>4 DEF CloseNext

-----------------------------------------------------------------------------
(* Steps of the agent on one connection. *)

\* Nothing else than connection c is touched.
ActsOn(c) ==
    \A e \in Conns : e # c => /\ a'[e] = a[e] /\ LoopStill(e)
                              /\ Same(toAgent', toAgent, e)
                              /\ Same(toGateway', toGateway, e)

LEMMA AgentActs ==
    ASSUME IInv, Next, AgentOnly, SlotOnward, NEW c \in Conns, ActsOn(c),
           a'[c].reader = "emitting" => a'[c].t > 0, Life(c)', Flow(c)'
    PROVE  IInv'
<1>1. TypeOK'
  BY TypeNext
<1>2. Onward /\ SessionKept /\ Totals' /\ Shown(c)' /\ Bounds(c)'
  BY <1>1, AgentKept
<1>3. ASSUME NEW e \in Conns, e # c PROVE Still(e)
  <2>1. AgentSame(e) /\ LoopStill(e) /\ Same(toAgent', toAgent, e) /\ Same(toGateway', toGateway, e)
    BY <1>3, AgentSames DEF ActsOn
  <2> QED BY <2>1, AgentStill
<1>4. Holds(c)'
  BY <1>2 DEF Holds
<1> QED BY <1>2, <1>3, <1>4, CarryOne

\* The life of a connection that the agent has opened and the gateway has not
\* seen end.
LEMMA LifeActive ==
    ASSUME NEW c \in Conns, Life(c), AgentOnly, slot' # "none",
           g[c].st \notin {"none", "ended"}, a'[c].st # "none", ~Connecting(c)',
           Count(toGateway', "connection_end", c) > 0 => a'[c].st = "ended",
           Receipts(toGateway', c, a'[c].d, a'[c].t),
           a'[c].d + One(Draining(c)') + Count(toAgent', "data", c) <= g[c].d
    PROVE  Life(c)'
<1>1. UNCHANGED <<g, loop, desk>>
  BY DEF AgentOnly, gatewayVars, deskVars
<1> QED BY <1>1 DEF Life

\* What an open connection's life says.
LEMMA LifeOpen ==
    ASSUME TypeOK, NEW c \in Conns, Life(c), a[c].st \in {"open", "ending"}
    PROVE  /\ g[c].st \notin {"none", "ended"} /\ slot # "none" /\ ~Connecting(c)
           /\ Count(toGateway, "connection_end", c) = 0
           /\ a[c].d + One(Draining(c)) + Count(toAgent, "data", c) <= g[c].d
           /\ One(Draining(c)) \in 0..1 /\ Count(toAgent, "data", c) \in Nat
           /\ a[c].d \in Nat /\ g[c].d \in Nat
<1>1. Count(toGateway, "connection_end", c) \in Nat /\ Count(toAgent, "data", c) \in Nat
  BY ViewTypes, KindNames DEF Views
<1>2. a[c].d \in Nat /\ g[c].d \in Nat
  BY FieldTypes DEF Fields
<1>3. One(Draining(c)) \in 0..1
  BY DEF One
<1>4. /\ g[c].st \notin {"none", "ended"} /\ slot # "none" /\ ~Connecting(c)
      /\ Count(toGateway, "connection_end", c) = 0
  BY <1>1 DEF Life
<1>5. a[c].d + One(Draining(c)) + Count(toAgent, "data", c) <= g[c].d
  BY DEF Life
<1> QED BY <1>1, <1>2, <1>3, <1>4, <1>5

\* The parts of the flow of connection c, after a step of the agent.
LEMMA FlowAgent ==
    ASSUME IInv, AgentOnly, SlotOnward, NEW c \in Conns,
           Flowing(c)' =>
              /\ g[c].dCredit + Count(toAgent', "data", c) + One(Draining(c)')
                   + Credit(toGateway', c) = Window
              /\ a'[c].credit + One(a'[c].reader = "emitting")
                   + Count(toGateway', "data", c) + Count(toAgent', "window", c)
                   = g[c].tCredit
              /\ g[c].st = "pending" => OpenedFirst(toGateway', c)
              /\ Sequenced(toGateway', c, g[c].t,
                           a'[c].t - One(a'[c].reader = "emitting"))
    PROVE  Flow(c)'
<1>1. g' = g
  BY DEF AgentOnly, gatewayVars
<1> QED BY <1>1 DEF Flow

\* ... and before it.
LEMMA FlowBefore ==
    ASSUME IInv, AgentOnly, SlotOnward, NEW c \in Conns, Flowing(c)', a[c].st = "open"
    PROVE  /\ link = "up"
           /\ g[c].dCredit + Count(toAgent, "data", c) + One(Draining(c))
                + Credit(toGateway, c) = Window
           /\ a[c].credit + One(a[c].reader = "emitting")
                + Count(toGateway, "data", c) + Count(toAgent, "window", c)
                = g[c].tCredit
           /\ g[c].st = "pending" => OpenedFirst(toGateway, c)
           /\ Sequenced(toGateway, c, g[c].t, a[c].t - One(a[c].reader = "emitting"))
           /\ g[c].dCredit \in Nat /\ Count(toAgent, "data", c) \in Nat
           /\ One(Draining(c)) \in 0..1 /\ Credit(toGateway, c) \in Nat
           /\ a[c].credit \in Nat /\ One(a[c].reader = "emitting") \in 0..1
           /\ Count(toGateway, "data", c) \in Nat /\ Count(toAgent, "window", c) \in Nat
           /\ g[c].tCredit \in Nat /\ g[c].t \in Nat /\ a[c].t \in Nat
<1>1. TypeOK /\ Flow(c)
  BY InvParts
<1>2. Flowing(c) /\ link = "up"
  BY DEF Flowing, AgentOnly, gatewayVars, SlotOnward
<1>3. /\ Count(toAgent, "data", c) \in Nat /\ Count(toAgent, "window", c) \in Nat
      /\ Count(toGateway, "data", c) \in Nat /\ Credit(toGateway, c) \in Nat
  BY <1>1, ViewTypes, KindNames DEF Views
<1>4. /\ g[c].dCredit \in Nat /\ a[c].credit \in Nat
      /\ g[c].tCredit \in Nat /\ g[c].t \in Nat /\ a[c].t \in Nat
  BY <1>1, FieldTypes DEF Fields
<1>5. One(Draining(c)) \in 0..1 /\ One(a[c].reader = "emitting") \in 0..1
  BY DEF One
<1> QED BY <1>1, <1>2, <1>3, <1>4, <1>5 DEF Flow

LEMMA StepOpenTcp ==
    ASSUME IInv, NEW c \in Conns, OpenTcp(c)
    PROVE  IInv'
<1>0. Next /\ AgentOnly /\ TypeOK /\ Life(c)
  <2>1. Next /\ Loop
    BY DEF Next, Loop
  <2> QED BY <2>1, AgentSteps, InvParts
<1>1. /\ Take("connection_open") /\ Head(toAgent).c = c /\ InTable /\ a[c].st = "none"
      /\ aloop' = "connecting" /\ acur' = c /\ a' = a /\ slot' = slot /\ toGateway' = toGateway
  BY DEF OpenTcp, tableVars
<1>2. aloop = "idle" /\ toAgent # <<>> /\ toAgent \in Seq(Messages)
      /\ toAgent' = Tail(toAgent) /\ Head(toAgent).kind = "connection_open"
  BY <1>0, <1>1, TakeShape
<1>3. /\ \A e : e # c => Same(toAgent', toAgent, e)
      /\ Fewer(toAgent', toAgent, c)
      /\ \A e : Same(toGateway', toGateway, e)
      /\ HasEnd(toGateway') => HasEnd(toGateway)
  BY <1>0, <1>1, QuietQueues
<1>4. SlotOnward
  BY <1>1, <1>3, SlotKept
<1>5. ActsOn(c)
  BY <1>1, <1>2, <1>3, LoopStills DEF ActsOn
<1>6. a'[c].reader = "emitting" => a'[c].t > 0
  BY <1>0, <1>1 DEF Life, Untouched
<1>7. Flow(c)'
  BY <1>1 DEF Flow, Flowing
<1>8. UNCHANGED <<g, loop, desk>>
  BY <1>0 DEF AgentOnly, gatewayVars, deskVars
<1>9. g[c].st # "none" /\ g[c].st \notin {"open", "ended"}
  <2>1. 1 \in Indices(toAgent, "connection_open", c)
    BY <1>1, <1>2, IndicesTail
  <2>2. Count(toAgent, "connection_open", c) \in Nat /\ Count(toAgent, "connection_open", c) # 0
    BY <1>2, <2>1, IndicesType
  <2> QED BY <1>0, <1>1, <2>2 DEF Life
<1>10. Count(toAgent', "data", c) = 0 /\ Count(toAgent', "window", c) = 0
  <2>1. /\ Count(toAgent, "data", c) = 0 /\ Count(toAgent, "window", c) = 0
    BY <1>0, <1>1 DEF Life, Untouched
  <2>2. /\ Count(toAgent', "data", c) <= 0 /\ Count(toAgent', "window", c) <= 0
    BY <1>3, <2>1, KindNames DEF Fewer
  <2>3. toAgent' \in Seq(Messages)
    BY <1>2, SeqTail
  <2>4. Count(toAgent', "data", c) \in Nat /\ Count(toAgent', "window", c) \in Nat
    BY <2>3, IndicesType
  <2> QED BY <2>2, <2>4
<1>11. Untouched(c)'
  BY <1>0, <1>1, <1>8, <1>10 DEF Life, Untouched, Draining
<1>12. a'[c].d + One(Draining(c)') + Count(toAgent', "data", c) <= g'[c].d
  BY <1>1, <1>10, <1>11 DEF Untouched, One
<1>13. slot # "none"
  BY <1>1 DEF InTable
<1>14. Receipts(toGateway', c, a'[c].d, a'[c].t)
       /\ (Count(toGateway', "connection_end", c) > 0 => a'[c].st = "ended")
  BY <1>0, <1>1 DEF Life
<1>15. Life(c)'
  BY <1>0, <1>1, <1>8, <1>9, <1>11, <1>12, <1>13, <1>14 DEF Life
<1> QED BY <1>0, <1>4, <1>5, <1>6, <1>7, <1>15, AgentActs

LEMMA StepTcpOpened ==
    ASSUME IInv, TcpOpened
    PROVE  IInv'
<1>0. Next /\ AgentOnly /\ TypeOK
  <2>1. Next /\ Loop
    BY DEF Next, Loop
  <2> QED BY <2>1, AgentSteps, InvParts
<1>1. PICK c \in Conns : c = acur
  BY <1>0 DEF TypeOK, AgentTypes
<1>2. /\ aloop = "connecting" /\ acur' = acur /\ aloop' \in {"idle", "stopped"}
      /\ a' = [a EXCEPT ![c].st = "open", ![c].reader = "reading"]
      /\ Emit(<<Msg("connection_opened", c, 0), Msg("window", c, Window)>>)
      /\ slot' = slot /\ toAgent' = toAgent
  BY <1>1 DEF TcpOpened, tableVars
<1>3. Life(c) /\ Connecting(c) /\ a[c].st = "none" /\ Untouched(c) /\ slot # "none"
      /\ g[c].st \notin {"none", "ended"}
  BY <1>1, <1>2, InvParts DEF Life, Connecting
<1>4. a \in [Conns -> AgentConns] /\ toGateway \in Seq(Messages) /\ Window \in Nat
  BY <1>0, FieldTypes DEF TypeOK, AgentTypes, LinkTypes, Fields
<1>5. /\ \A e \in Conns : e # c => a'[e] = a[e]
      /\ a'[c].st = "open" /\ a'[c].reader = "reading" /\ a'[c].credit = a[c].credit
      /\ a'[c].d = a[c].d /\ a'[c].t = a[c].t
  BY <1>2, <1>4 DEF AgentConns
<1> DEFINE m == Msg("connection_opened", c, 0)
           n == Msg("window", c, Window)
           q == Append(toGateway, m)
           p == Append(q, n)
<1>6. /\ m \in Messages /\ m.kind = "connection_opened" /\ m.c = c /\ \A e : e # c => Other(m, e)
      /\ n \in Messages /\ n.kind = "window" /\ n.c = c /\ n.n = Window
      /\ \A e : e # c => Other(n, e)
  <2>1. 0 \in Nat /\ "connection_opened" \in Kinds /\ "window" \in Kinds
    BY KindNames
  <2> QED BY <1>4, <2>1, FrameType
<1>7. toGateway' = (IF link = "up" THEN p ELSE toGateway)
  <2>1. toGateway \o <<m, n>> = p
    BY <1>4, <1>6, ConcatAppend
  <2> QED BY <1>2, <2>1 DEF Emit
<1>b. q = Append(toGateway, m)
  OBVIOUS
<1>d. p = Append(q, n)
  OBVIOUS
<1> HIDE DEF m, n, p, q
<1>8. q \in Seq(Messages) /\ p \in Seq(Messages)
  BY <1>4, <1>6, <1>b, <1>d, SeqAppend
<1>9. /\ \A e : e # c => Same(q, toGateway, e) /\ Same(p, q, e)
      /\ HasEnd(p) => HasEnd(toGateway)
  <2>1. \A e : e # c => Same(q, toGateway, e)
    BY <1>4, <1>6, <1>b, SameAppend
  <2>2. \A e : e # c => Same(p, q, e)
    BY <1>6, <1>8, <1>d, SameAppend
  <2>3. HasEnd(q) => HasEnd(toGateway)
    BY <1>4, <1>6, <1>b, HasEndViews
  <2>4. HasEnd(p) => HasEnd(q)
    BY <1>6, <1>8, <1>d, HasEndViews
  <2> QED BY <2>1, <2>2, <2>3, <2>4
<1>10. /\ Count(q, "data", c) = 0 /\ Count(p, "data", c) = 0
       /\ Count(q, "connection_end", c) = 0 /\ Count(p, "connection_end", c) = 0
  <2>1. Count(toGateway, "data", c) = 0 /\ Count(toGateway, "connection_end", c) = 0
    BY <1>3 DEF Untouched
  <2>2. /\ One(m.kind = "data" /\ m.c = c) = 0 /\ One(m.kind = "connection_end" /\ m.c = c) = 0
        /\ One(n.kind = "data" /\ n.c = c) = 0 /\ One(n.kind = "connection_end" /\ n.c = c) = 0
    BY <1>6 DEF One
  <2>3. Count(q, "data", c) = 0 /\ Count(q, "connection_end", c) = 0
    BY <1>4, <1>6, <1>b, <2>1, <2>2, CountAppend
  <2>4. Count(p, "data", c) = 0
    BY <1>6, <1>8, <1>d, <2>2, <2>3, CountAppend
  <2>5. Count(p, "connection_end", c) = 0
    BY <1>6, <1>8, <1>d, <2>2, <2>3, CountAppend
  <2> QED BY <2>3, <2>4, <2>5
<1>11. Credit(p, c) = Window
  <2>1. Credit(toGateway, c) = 0
    BY <1>3, <1>4, UnitsType DEF Untouched
  <2>2. Grant(m, c) = 0 /\ Grant(n, c) = Window
    BY <1>6 DEF Grant
  <2>3. Credit(q, c) = 0
    BY <1>4, <1>6, <1>b, <2>1, <2>2, CreditAppend
  <2> QED BY <1>4, <1>6, <1>8, <1>d, <2>2, <2>3, CreditAppend
<1>12. OpenedFirst(p, c)
  <2>1. OpenedFirst(q, c)
    BY <1>3, <1>4, <1>6, <1>b, OpenedFirstAppend DEF Untouched
  <2> QED BY <1>6, <1>8, <1>d, <2>1, OpenedFirstAppend
<1>13. Sequenced(p, c, 0, 0)
  BY <1>8, <1>10, SequencedNone
<1>14. /\ \A e : e # c => Same(toGateway', toGateway, e)
       /\ HasEnd(toGateway') => HasEnd(toGateway)
       /\ Count(toGateway', "connection_end", c) = 0
       /\ toGateway' \in Seq(Messages)
  <2>1. \A e : e # c => Same(p, toGateway, e)
    BY <1>9, SameTrans
  <2>2. Count(toGateway, "connection_end", c) = 0
    BY <1>3 DEF Untouched
  <2> QED BY <1>4, <1>7, <1>8, <1>9, <1>10, <2>1, <2>2, SameRefl
<1>15. SlotOnward
  BY <1>2, <1>14, SlotKept
<1>16. \A e : Same(toAgent', toAgent, e)
  BY <1>0, <1>2, QuietQueues
<1>17. ActsOn(c)
  BY <1>2, <1>5, <1>14, <1>16, LoopStills DEF ActsOn
<1>18. ~Connecting(c)' /\ ~Draining(c)'
  BY <1>2 DEF Connecting, Draining
<1>19. Life(c)'
  <2>1. Receipts(toGateway', c, a'[c].d, a'[c].t)
    BY <1>14, ReceiptsNone
  <2>2. a'[c].d + One(Draining(c)') + Count(toAgent', "data", c) <= g[c].d
    <3>1. a[c].d = 0 /\ g[c].d = 0 /\ Count(toAgent, "data", c) = 0
      BY <1>3 DEF Untouched
    <3>2. One(Draining(c)') = 0
      BY <1>18 DEF One
    <3> QED BY <1>2, <1>5, <3>1, <3>2
  <2>3. slot' # "none" /\ a'[c].st # "none"
    BY <1>2, <1>3, <1>5
  <2> QED BY <1>0, <1>3, <1>14, <1>18, <2>1, <2>2, <2>3, LifeActive
<1>20. Flow(c)'
  <2> SUFFICES ASSUME Flowing(c)'
               PROVE  /\ g[c].dCredit + Count(toAgent', "data", c) + One(Draining(c)')
                           + Credit(toGateway', c) = Window
                      /\ a'[c].credit + One(a'[c].reader = "emitting")
                           + Count(toGateway', "data", c) + Count(toAgent', "window", c)
                           = g[c].tCredit
                      /\ g[c].st = "pending" => OpenedFirst(toGateway', c)
                      /\ Sequenced(toGateway', c, g[c].t,
                                   a'[c].t - One(a'[c].reader = "emitting"))
    BY <1>0, <1>15, FlowAgent
  <2>1. toGateway' = p
    BY <1>0, <1>7 DEF Flowing, AgentOnly
  <2>2. One(Draining(c)') = 0 /\ One(a'[c].reader = "emitting") = 0
    BY <1>5, <1>18 DEF One
  <2>3. /\ g[c].dCredit = 0 /\ g[c].tCredit = Window /\ a'[c].credit = Window
        /\ g[c].t = 0 /\ a'[c].t = 0
        /\ Count(toAgent', "data", c) = 0 /\ Count(toAgent', "window", c) = 0
    BY <1>2, <1>3, <1>5 DEF Untouched
  <2>4. Sequenced(toGateway', c, g[c].t, a'[c].t - One(a'[c].reader = "emitting"))
    BY <1>13, <2>1, <2>2, <2>3
  <2> QED BY <1>4, <1>10, <1>11, <1>12, <2>1, <2>2, <2>3, <2>4
<1> QED BY <1>0, <1>5, <1>15, <1>17, <1>19, <1>20, AgentActs

LEMMA StepWriteData ==
    ASSUME IInv, NEW c \in Conns, WriteData(c)
    PROVE  IInv'
<1>0. Next /\ AgentOnly /\ TypeOK /\ Life(c)
  <2>1. Next /\ Loop
    BY DEF Next, Loop
  <2> QED BY <2>1, AgentSteps, InvParts
<1>1. /\ Take("data") /\ Head(toAgent).c = c /\ c \in Live /\ a[c].st = "open" /\ slot' = slot
  BY DEF WriteData, tableVars, Live
<1>2. CASE Finishes(c, "loop") /\ UNCHANGED <<aloop, acur>>
  BY <1>0, <1>1, <1>2, StepLeaves
<1>3. CASE /\ a' = [a EXCEPT ![c].in = @ + 1] /\ aloop' = "draining" /\ acur' = c
           /\ toGateway' = toGateway
  <2>1. aloop = "idle" /\ toAgent # <<>> /\ toAgent \in Seq(Messages)
        /\ toAgent' = Tail(toAgent) /\ Head(toAgent).kind = "data"
    BY <1>0, <1>1, TakeShape
  <2>2. /\ \A e : e # c => Same(toAgent', toAgent, e)
        /\ \A e : Same(toGateway', toGateway, e)
        /\ HasEnd(toGateway') => HasEnd(toGateway)
    BY <1>0, <1>1, <1>3, QuietQueues
  <2>3. SlotOnward
    BY <1>1, <2>2, SlotKept
  <2>4. a \in [Conns -> AgentConns]
    BY <1>0 DEF TypeOK, AgentTypes
  <2>5. /\ \A e \in Conns : e # c => a'[e] = a[e]
        /\ a'[c].st = a[c].st /\ a'[c].reader = a[c].reader /\ a'[c].credit = a[c].credit
        /\ a'[c].d = a[c].d /\ a'[c].t = a[c].t
    BY <1>3, <2>4 DEF AgentConns
  <2>6. ActsOn(c)
    BY <1>3, <2>1, <2>2, <2>5, LoopStills DEF ActsOn
  <2>7. One(Draining(c)) = 0 /\ One(Draining(c)') = 1 /\ ~Connecting(c)'
    BY <1>3, <2>1 DEF Draining, Connecting, One
  <2>8. /\ Count(toAgent', "data", c) + 1 = Count(toAgent, "data", c)
        /\ Count(toAgent', "window", c) = Count(toAgent, "window", c)
        /\ Count(toAgent', "data", c) \in Nat
    <3>1. One(Head(toAgent).kind = "data" /\ Head(toAgent).c = c) = 1
          /\ One(Head(toAgent).kind = "window" /\ Head(toAgent).c = c) = 0
      BY <1>1, <2>1 DEF One
    <3>2. toAgent' \in Seq(Messages)
      BY <2>1, SeqTail
    <3>3. Count(toAgent', "data", c) \in Nat /\ Count(toAgent', "window", c) \in Nat
      BY <3>2, IndicesType
    <3>4. Count(toAgent', "data", c) + 1 = Count(toAgent, "data", c)
      BY <2>1, <3>1, CountTail
    <3>5. Count(toAgent', "window", c) + 0 = Count(toAgent, "window", c)
      BY <2>1, <3>1, CountTail
    <3> QED BY <3>3, <3>4, <3>5
  <2>9. /\ g[c].st \notin {"none", "ended"} /\ slot # "none"
        /\ Count(toGateway, "connection_end", c) = 0
        /\ a[c].d + One(Draining(c)) + Count(toAgent, "data", c) <= g[c].d
        /\ a[c].d \in Nat /\ g[c].d \in Nat
    BY <1>0, <1>1, LifeOpen
  <2>10. Life(c)'
    <3>1. Receipts(toGateway', c, a'[c].d, a'[c].t)
      BY <1>0, <1>3, <2>5 DEF Life
    <3>2. a'[c].d + One(Draining(c)') + Count(toAgent', "data", c) <= g[c].d
      BY <2>5, <2>7, <2>8, <2>9
    <3>3. /\ slot' # "none" /\ a'[c].st # "none"
          /\ Count(toGateway', "connection_end", c) > 0 => a'[c].st = "ended"
      BY <1>1, <1>3, <2>5, <2>9
    <3> QED BY <1>0, <2>7, <2>9, <3>1, <3>2, <3>3, LifeActive
  <2>11. Flow(c)'
    <3> SUFFICES ASSUME Flowing(c)'
                 PROVE  /\ g[c].dCredit + Count(toAgent', "data", c) + One(Draining(c)')
                             + Credit(toGateway', c) = Window
                        /\ a'[c].credit + One(a'[c].reader = "emitting")
                             + Count(toGateway', "data", c) + Count(toAgent', "window", c)
                             = g[c].tCredit
                        /\ g[c].st = "pending" => OpenedFirst(toGateway', c)
                        /\ Sequenced(toGateway', c, g[c].t,
                                     a'[c].t - One(a'[c].reader = "emitting"))
      BY <1>0, <2>3, FlowAgent
    <3>1. /\ g[c].dCredit + Count(toAgent, "data", c) + One(Draining(c))
               + Credit(toGateway, c) = Window
          /\ a[c].credit + One(a[c].reader = "emitting")
               + Count(toGateway, "data", c) + Count(toAgent, "window", c)
               = g[c].tCredit
          /\ g[c].st = "pending" => OpenedFirst(toGateway, c)
          /\ Sequenced(toGateway, c, g[c].t, a[c].t - One(a[c].reader = "emitting"))
          /\ g[c].dCredit \in Nat /\ Credit(toGateway, c) \in Nat
      BY <1>0, <1>1, <2>3, FlowBefore
    <3>2. g[c].dCredit + Count(toAgent', "data", c) + One(Draining(c)')
            + Credit(toGateway, c) = Window
      BY <2>7, <2>8, <3>1
    <3> QED BY <1>3, <2>5, <2>8, <3>1, <3>2
  <2>12. a'[c].reader = "emitting" => a'[c].t > 0
    <3>1. Bounds(c)
      BY InvParts
    <3> QED BY <2>5, <3>1 DEF Bounds
  <2> QED BY <1>0, <2>3, <2>6, <2>10, <2>11, <2>12, AgentActs
<1>4. FailConnection(c, "loop") => Finishes(c, "loop")
  BY DEF Finishes
<1>5. FinishConnection(c, "loop", <<>>) => Finishes(c, "loop")
  BY DEF Finishes
<1> QED BY <1>2, <1>3, <1>4, <1>5 DEF WriteData

LEMMA StepTakeCredit ==
    ASSUME IInv, NEW c \in Conns, TakeCredit(c)
    PROVE  IInv'
<1>0. Next /\ AgentOnly /\ TypeOK /\ Life(c)
  <2>1. Next /\ Loop
    BY DEF Next, Loop
  <2> QED BY <2>1, AgentSteps, InvParts
<1>1. /\ Take("window") /\ Head(toAgent).c = c /\ c \in Live /\ a[c].st = "open"
      /\ slot' = slot /\ UNCHANGED <<aloop, acur>>
  BY DEF TakeCredit, tableVars, Live
<1>2. CASE FailConnection(c, "loop")
  <2>1. Finishes(c, "loop")
    BY <1>2 DEF Finishes
  <2> QED BY <1>0, <1>1, <2>1, StepLeaves
<1>3. CASE a' = [a EXCEPT ![c].credit = @ + 1] /\ toGateway' = toGateway
  <2>1. toAgent # <<>> /\ toAgent \in Seq(Messages)
        /\ toAgent' = Tail(toAgent) /\ Head(toAgent).kind = "window"
    BY <1>0, <1>1, TakeShape
  <2>2. /\ \A e : e # c => Same(toAgent', toAgent, e)
        /\ \A e : Same(toGateway', toGateway, e)
        /\ HasEnd(toGateway') => HasEnd(toGateway)
    BY <1>0, <1>1, <1>3, QuietQueues
  <2>3. SlotOnward
    BY <1>1, <2>2, SlotKept
  <2>4. a \in [Conns -> AgentConns]
    BY <1>0 DEF TypeOK, AgentTypes
  <2>5. /\ \A e \in Conns : e # c => a'[e] = a[e]
        /\ a'[c].st = a[c].st /\ a'[c].reader = a[c].reader /\ a'[c].credit = a[c].credit + 1
        /\ a'[c].d = a[c].d /\ a'[c].t = a[c].t
    BY <1>3, <2>4 DEF AgentConns
  <2>6. ActsOn(c)
    BY <1>1, <2>2, <2>5, LoopStills DEF ActsOn
  <2>7. One(Draining(c)') = One(Draining(c)) /\ (Connecting(c)' => Connecting(c))
    BY <1>1 DEF Draining, Connecting, One
  <2>8. /\ Count(toAgent', "window", c) + 1 = Count(toAgent, "window", c)
        /\ Count(toAgent', "data", c) = Count(toAgent, "data", c)
        /\ Count(toAgent', "window", c) \in Nat
    <3>1. One(Head(toAgent).kind = "data" /\ Head(toAgent).c = c) = 0
          /\ One(Head(toAgent).kind = "window" /\ Head(toAgent).c = c) = 1
      BY <1>1, <2>1 DEF One
    <3>2. toAgent' \in Seq(Messages)
      BY <2>1, SeqTail
    <3>3. Count(toAgent', "data", c) \in Nat /\ Count(toAgent', "window", c) \in Nat
      BY <3>2, IndicesType
    <3>4. Count(toAgent', "data", c) + 0 = Count(toAgent, "data", c)
      BY <2>1, <3>1, CountTail
    <3>5. Count(toAgent', "window", c) + 1 = Count(toAgent, "window", c)
      BY <2>1, <3>1, CountTail
    <3> QED BY <3>3, <3>4, <3>5
  <2>9. /\ g[c].st \notin {"none", "ended"} /\ slot # "none" /\ ~Connecting(c)
        /\ Count(toGateway, "connection_end", c) = 0
        /\ a[c].d + One(Draining(c)) + Count(toAgent, "data", c) <= g[c].d
    BY <1>0, <1>1, LifeOpen
  <2>10. Life(c)'
    <3>1. Receipts(toGateway', c, a'[c].d, a'[c].t)
      BY <1>0, <1>3, <2>5 DEF Life
    <3>2. a'[c].d + One(Draining(c)') + Count(toAgent', "data", c) <= g[c].d
      BY <2>5, <2>7, <2>8, <2>9
    <3>3. /\ slot' # "none" /\ a'[c].st # "none" /\ ~Connecting(c)'
          /\ Count(toGateway', "connection_end", c) > 0 => a'[c].st = "ended"
      BY <1>1, <1>3, <2>5, <2>7, <2>9
    <3> QED BY <1>0, <2>9, <3>1, <3>2, <3>3, LifeActive
  <2>11. Flow(c)'
    <3> SUFFICES ASSUME Flowing(c)'
                 PROVE  /\ g[c].dCredit + Count(toAgent', "data", c) + One(Draining(c)')
                             + Credit(toGateway', c) = Window
                        /\ a'[c].credit + One(a'[c].reader = "emitting")
                             + Count(toGateway', "data", c) + Count(toAgent', "window", c)
                             = g[c].tCredit
                        /\ g[c].st = "pending" => OpenedFirst(toGateway', c)
                        /\ Sequenced(toGateway', c, g[c].t,
                                     a'[c].t - One(a'[c].reader = "emitting"))
      BY <1>0, <2>3, FlowAgent
    <3>1. /\ g[c].dCredit + Count(toAgent, "data", c) + One(Draining(c))
               + Credit(toGateway, c) = Window
          /\ a[c].credit + One(a[c].reader = "emitting")
               + Count(toGateway, "data", c) + Count(toAgent, "window", c)
               = g[c].tCredit
          /\ g[c].st = "pending" => OpenedFirst(toGateway, c)
          /\ Sequenced(toGateway, c, g[c].t, a[c].t - One(a[c].reader = "emitting"))
          /\ a[c].credit \in Nat /\ One(a[c].reader = "emitting") \in 0..1
          /\ Count(toGateway, "data", c) \in Nat
      BY <1>0, <1>1, <2>3, FlowBefore
    <3>2. a'[c].credit + One(a[c].reader = "emitting")
            + Count(toGateway, "data", c) + Count(toAgent', "window", c) = g[c].tCredit
      BY <2>5, <2>8, <3>1
    <3> QED BY <1>3, <2>5, <2>7, <2>8, <3>1, <3>2
  <2>12. a'[c].reader = "emitting" => a'[c].t > 0
    <3>1. Bounds(c)
      BY InvParts
    <3> QED BY <2>5, <3>1 DEF Bounds
  <2> QED BY <1>0, <2>3, <2>6, <2>10, <2>11, <2>12, AgentActs
<1> QED BY <1>2, <1>3 DEF TakeCredit

LEMMA StepDrained ==
    ASSUME IInv, Drained
    PROVE  IInv'
<1>0. Next /\ AgentOnly /\ TypeOK
  <2>1. Next /\ Loop
    BY DEF Next, Loop
  <2> QED BY <2>1, AgentSteps, InvParts
<1>1. PICK c \in Conns : c = acur
  BY <1>0 DEF TypeOK, AgentTypes
<1>2. /\ aloop = "draining" /\ acur' = acur /\ aloop' \in {"idle", "stopped"}
      /\ a' = [a EXCEPT ![c].d = @ + 1] /\ Emit(<<Msg("window", c, 1)>>)
      /\ slot' = slot /\ toAgent' = toAgent
  BY <1>1 DEF Drained, tableVars
<1>3. Life(c) /\ Bounds(c) /\ Draining(c) /\ a[c].st # "none" /\ g[c].st # "none" /\ slot # "none"
  BY <1>1, <1>2, InvParts DEF Life, Draining, Untouched
<1>4. a \in [Conns -> AgentConns] /\ toGateway \in Seq(Messages)
      /\ a[c].d \in Nat /\ g[c].d \in Nat
  BY <1>0, FieldTypes DEF TypeOK, AgentTypes, LinkTypes, Fields
<1>5. /\ \A e \in Conns : e # c => a'[e] = a[e]
      /\ a'[c].st = a[c].st /\ a'[c].reader = a[c].reader /\ a'[c].credit = a[c].credit
      /\ a'[c].d = a[c].d + 1 /\ a'[c].t = a[c].t
  BY <1>2, <1>4 DEF AgentConns
<1> DEFINE m == Msg("window", c, 1)
<1>6. /\ m \in Messages /\ m.kind = "window" /\ m.c = c /\ m.n = 1
      /\ \A e : e # c => Other(m, e)
  BY KindNames, FrameType
<1>7. /\ toGateway' = (IF link = "up" THEN Append(toGateway, m) ELSE toGateway)
      /\ \A e : e # c => Same(toGateway', toGateway, e)
      /\ HasEnd(toGateway') => HasEnd(toGateway)
      /\ toGateway' \in Seq(Messages)
  BY <1>0, <1>2, <1>6, EmitShape
<1> HIDE DEF m
<1>8. /\ Count(toGateway', "connection_end", c) = Count(toGateway, "connection_end", c)
      /\ Count(toGateway', "data", c) = Count(toGateway, "data", c)
      /\ link = "up" => Credit(toGateway', c) = Credit(toGateway, c) + 1
  <2>1. /\ One(m.kind = "data" /\ m.c = c) = 0 /\ One(m.kind = "connection_end" /\ m.c = c) = 0
        /\ Grant(m, c) = 1
    BY <1>6 DEF One, Grant
  <2>2. /\ Count(toGateway, "connection_end", c) \in Nat /\ Count(toGateway, "data", c) \in Nat
    BY <1>4, IndicesType
  <2>3. Count(toGateway', "connection_end", c) = Count(toGateway, "connection_end", c)
    BY <1>4, <1>6, <1>7, <2>1, <2>2, CountAppend
  <2>4. Count(toGateway', "data", c) = Count(toGateway, "data", c)
    BY <1>4, <1>6, <1>7, <2>1, <2>2, CountAppend
  <2>5. link = "up" => Credit(toGateway', c) = Credit(toGateway, c) + 1
    BY <1>4, <1>6, <1>7, <2>1, CreditAppend
  <2> QED BY <2>3, <2>4, <2>5
<1>9. SlotOnward
  BY <1>2, <1>7, SlotKept
<1>10. \A e : Same(toAgent', toAgent, e)
  BY <1>0, <1>2, QuietQueues
<1>11. ActsOn(c)
  BY <1>1, <1>2, <1>5, <1>7, <1>10, LoopStills DEF ActsOn
<1>12. One(Draining(c)) = 1 /\ One(Draining(c)') = 0 /\ ~Connecting(c)'
  BY <1>2, <1>3 DEF Connecting, Draining, One
<1>13. a[c].d + 1 + Count(toAgent, "data", c) <= g[c].d /\ Count(toAgent, "data", c) \in Nat
  <2>1. a[c].d + One(Draining(c)) + Count(toAgent, "data", c) <= g[c].d
    BY <1>3 DEF Life
  <2>2. Count(toAgent, "data", c) \in Nat
    BY <1>0, ViewTypes, KindNames DEF Views
  <2> QED BY <1>12, <2>1, <2>2
\* The gateway has not seen the end: it has relayed more than was counted.
<1>14. g[c].st # "ended"
  <2>1. a[c].d # g[c].d
    BY <1>4, <1>13
  <2> QED BY <1>3, <2>1 DEF Life
<1>15. Life(c)'
  <2>1. Receipts(toGateway', c, a'[c].d, a'[c].t)
    <3>1. Receipts(toGateway, c, a[c].d, a[c].t)
      BY <1>3 DEF Life
    <3>2. Receipts(toGateway, c, a[c].d + 1, a[c].t)
      <4>1. \A i \in Indices(toGateway, "connection_end", c) : toGateway[i].n \in Nat
        <5>1. Indices(toGateway, "connection_end", c) \subseteq 1..Len(toGateway)
          BY <1>4, IndicesType
        <5>2. \A i \in 1..Len(toGateway) : toGateway[i] \in Messages
          BY <1>4, ElementOfSeq
        <5> QED BY <5>1, <5>2 DEF Messages
      <4> QED BY <1>4, <3>1, <4>1 DEF Receipts
    <3>3. Receipts(Append(toGateway, m), c, a[c].d + 1, a[c].t)
      BY <1>4, <1>6, <3>2, ReceiptsAppend
    <3> QED BY <1>5, <1>7, <3>2, <3>3
  <2>2. a'[c].d + One(Draining(c)') + Count(toAgent', "data", c) <= g[c].d
    BY <1>2, <1>4, <1>5, <1>12, <1>13
  <2>3. slot' # "none" /\ a'[c].st # "none"
    BY <1>2, <1>3, <1>5
  <2>4. Count(toGateway', "connection_end", c) > 0 => a'[c].st = "ended"
    BY <1>3, <1>5, <1>8 DEF Life
  <2> QED BY <1>0, <1>3, <1>12, <1>14, <2>1, <2>2, <2>3, <2>4, LifeActive
<1>16. Flow(c)'
  <2> SUFFICES ASSUME Flowing(c)'
               PROVE  /\ g[c].dCredit + Count(toAgent', "data", c) + One(Draining(c)')
                           + Credit(toGateway', c) = Window
                      /\ a'[c].credit + One(a'[c].reader = "emitting")
                           + Count(toGateway', "data", c) + Count(toAgent', "window", c)
                           = g[c].tCredit
                      /\ g[c].st = "pending" => OpenedFirst(toGateway', c)
                      /\ Sequenced(toGateway', c, g[c].t,
                                   a'[c].t - One(a'[c].reader = "emitting"))
    BY <1>0, <1>9, FlowAgent
  <2>1. a[c].st = "open"
    BY <1>5 DEF Flowing
  <2>2. /\ link = "up"
        /\ g[c].dCredit + Count(toAgent, "data", c) + One(Draining(c))
             + Credit(toGateway, c) = Window
        /\ a[c].credit + One(a[c].reader = "emitting")
             + Count(toGateway, "data", c) + Count(toAgent, "window", c)
             = g[c].tCredit
        /\ g[c].st = "pending" => OpenedFirst(toGateway, c)
        /\ Sequenced(toGateway, c, g[c].t, a[c].t - One(a[c].reader = "emitting"))
        /\ g[c].dCredit \in Nat /\ Credit(toGateway, c) \in Nat
    BY <1>0, <1>9, <2>1, FlowBefore
  <2>3. toGateway' = Append(toGateway, m)
    BY <1>7, <2>2
  <2>4. g[c].dCredit + Count(toAgent', "data", c) + One(Draining(c)') + Credit(toGateway', c) = Window
    BY <1>2, <1>8, <1>12, <1>13, <2>2
  <2>5. g[c].st = "pending" => OpenedFirst(toGateway', c)
    BY <1>4, <1>6, <2>2, <2>3, OpenedFirstAppend
  <2>6. Sequenced(toGateway', c, g[c].t, a'[c].t - One(a'[c].reader = "emitting"))
    BY <1>4, <1>5, <1>6, <2>2, <2>3, SequencedOtherAppend
  <2> QED BY <1>2, <1>5, <1>8, <2>2, <2>4, <2>5, <2>6
<1>17. a'[c].reader = "emitting" => a'[c].t > 0
  BY <1>3, <1>5 DEF Bounds
<1> QED BY <1>0, <1>9, <1>11, <1>15, <1>16, <1>17, AgentActs

LEMMA StepReadFrame ==
    ASSUME IInv, NEW c \in Conns, ReadFrame(c)
    PROVE  IInv'
<1>0. Next /\ AgentOnly /\ TypeOK /\ Life(c)
  <2>1. Next /\ Target(c)
    BY DEF Next, Target
  <2> QED BY <2>1, AgentSteps, InvParts
<1>1. /\ c \in Live /\ a[c].st = "open" /\ a[c].reader = "reading" /\ a[c].credit > 0
      /\ slot' = slot /\ UNCHANGED <<aloop, acur, toAgent>>
  BY DEF ReadFrame, Reading, tableVars, Live
<1>2. CASE FinishConnection(c, "reader", <<>>)
  <2>1. Finishes(c, "reader")
    BY <1>2 DEF Finishes
  <2> QED BY <1>0, <1>1, <2>1, StepLeaves
<1>3. CASE /\ a' = [a EXCEPT ![c].credit = @ - 1, ![c].t = @ + 1, ![c].reader = "emitting"]
           /\ toGateway' = toGateway
  <2>1. /\ \A e : Same(toAgent', toAgent, e)
        /\ \A e : Same(toGateway', toGateway, e)
        /\ HasEnd(toGateway') => HasEnd(toGateway)
    BY <1>0, <1>1, <1>3, QuietQueues
  <2>2. SlotOnward
    BY <1>1, <2>1, SlotKept
  <2>3. a \in [Conns -> AgentConns] /\ toGateway \in Seq(Messages)
    BY <1>0 DEF TypeOK, AgentTypes, LinkTypes
  <2>4. /\ \A e \in Conns : e # c => a'[e] = a[e]
        /\ a'[c].st = a[c].st /\ a'[c].reader = "emitting" /\ a'[c].credit = a[c].credit - 1
        /\ a'[c].d = a[c].d /\ a'[c].t = a[c].t + 1
    BY <1>3, <2>3 DEF AgentConns
  <2>5. ActsOn(c)
    BY <1>1, <2>1, <2>4, LoopStills DEF ActsOn
  <2>6. One(Draining(c)') = One(Draining(c)) /\ (Connecting(c)' => Connecting(c))
    BY <1>1 DEF Draining, Connecting, One
  <2>7. a[c].t \in Nat
    BY <1>0, FieldTypes DEF Fields
  <2>8. a'[c].t > 0
    BY <2>4, <2>7
  <2>9. /\ g[c].st \notin {"none", "ended"} /\ slot # "none" /\ ~Connecting(c)
        /\ Count(toGateway, "connection_end", c) = 0
        /\ a[c].d + One(Draining(c)) + Count(toAgent, "data", c) <= g[c].d
    BY <1>0, <1>1, LifeOpen
  <2>10. Life(c)'
    <3>1. Receipts(toGateway', c, a'[c].d, a'[c].t)
      BY <1>3, <2>3, <2>9, ReceiptsNone
    <3>2. a'[c].d + One(Draining(c)') + Count(toAgent', "data", c) <= g[c].d
      BY <1>1, <2>4, <2>6, <2>9
    <3>3. /\ slot' # "none" /\ a'[c].st # "none" /\ ~Connecting(c)'
          /\ Count(toGateway', "connection_end", c) > 0 => a'[c].st = "ended"
      BY <1>1, <1>3, <2>4, <2>6, <2>9
    <3> QED BY <1>0, <2>9, <3>1, <3>2, <3>3, LifeActive
  <2>11. Flow(c)'
    <3> SUFFICES ASSUME Flowing(c)'
                 PROVE  /\ g[c].dCredit + Count(toAgent', "data", c) + One(Draining(c)')
                             + Credit(toGateway', c) = Window
                        /\ a'[c].credit + One(a'[c].reader = "emitting")
                             + Count(toGateway', "data", c) + Count(toAgent', "window", c)
                             = g[c].tCredit
                        /\ g[c].st = "pending" => OpenedFirst(toGateway', c)
                        /\ Sequenced(toGateway', c, g[c].t,
                                     a'[c].t - One(a'[c].reader = "emitting"))
      BY <1>0, <2>2, FlowAgent
    <3>1. /\ g[c].dCredit + Count(toAgent, "data", c) + One(Draining(c))
               + Credit(toGateway, c) = Window
          /\ a[c].credit + One(a[c].reader = "emitting")
               + Count(toGateway, "data", c) + Count(toAgent, "window", c)
               = g[c].tCredit
          /\ g[c].st = "pending" => OpenedFirst(toGateway, c)
          /\ Sequenced(toGateway, c, g[c].t, a[c].t - One(a[c].reader = "emitting"))
          /\ a[c].credit \in Nat /\ Count(toGateway, "data", c) \in Nat
          /\ Count(toAgent, "window", c) \in Nat
      BY <1>0, <1>1, <2>2, FlowBefore
    <3>2. One(a[c].reader = "emitting") = 0 /\ One(a'[c].reader = "emitting") = 1
      BY <1>1, <2>4 DEF One
    <3>3. a'[c].credit + One(a'[c].reader = "emitting")
            + Count(toGateway, "data", c) + Count(toAgent, "window", c) = g[c].tCredit
      BY <2>4, <3>1, <3>2
    <3>4. a'[c].t - One(a'[c].reader = "emitting") = a[c].t - One(a[c].reader = "emitting")
      BY <2>4, <2>7, <3>2
    <3> QED BY <1>1, <1>3, <2>6, <3>1, <3>3, <3>4
  <2> QED BY <1>0, <2>2, <2>5, <2>8, <2>10, <2>11, AgentActs
<1> QED BY <1>2, <1>3 DEF ReadFrame

LEMMA StepSendFrame ==
    ASSUME IInv, NEW c \in Conns, SendFrame(c)
    PROVE  IInv'
<1>0. Next /\ AgentOnly /\ TypeOK /\ Life(c) /\ Bounds(c)
  <2>1. Next /\ \E e \in Conns : SendFrame(e) \/ Target(e)
    BY DEF Next
  <2> QED BY <2>1, AgentSteps, InvParts
<1>1. /\ a[c].st = "open" /\ a[c].reader = "emitting" /\ Emit(<<Msg("data", c, a[c].t - 1)>>)
      /\ a' = [a EXCEPT ![c].reader = IF link = "up" THEN "reading" ELSE "dead"]
      /\ slot' = slot /\ UNCHANGED <<aloop, acur, toAgent>>
  BY DEF SendFrame, tableVars, Live
<1>2. a \in [Conns -> AgentConns] /\ toGateway \in Seq(Messages) /\ a[c].t \in Nat /\ a[c].t > 0
      /\ g[c].t \in Nat
  BY <1>0, <1>1, FieldTypes DEF TypeOK, AgentTypes, LinkTypes, Fields, Bounds
<1>3. a[c].t - 1 \in Nat
  BY <1>2
<1>4. /\ \A e \in Conns : e # c => a'[e] = a[e]
      /\ a'[c].st = a[c].st /\ a'[c].reader # "emitting" /\ a'[c].credit = a[c].credit
      /\ a'[c].d = a[c].d /\ a'[c].t = a[c].t
  BY <1>1, <1>2 DEF AgentConns
<1> DEFINE m == Msg("data", c, a[c].t - 1)
<1>5. /\ m \in Messages /\ m.kind = "data" /\ m.c = c /\ m.n = a[c].t - 1
      /\ \A e : e # c => Other(m, e)
  BY <1>3, KindNames, FrameType
<1>6. /\ toGateway' = (IF link = "up" THEN Append(toGateway, m) ELSE toGateway)
      /\ \A e : e # c => Same(toGateway', toGateway, e)
      /\ HasEnd(toGateway') => HasEnd(toGateway)
      /\ toGateway' \in Seq(Messages)
  BY <1>0, <1>1, <1>5, EmitShape
<1> HIDE DEF m
<1>7. /\ Count(toGateway', "connection_end", c) = Count(toGateway, "connection_end", c)
      /\ link = "up" => /\ Count(toGateway', "data", c) = Count(toGateway, "data", c) + 1
                        /\ Credit(toGateway', c) = Credit(toGateway, c)
  <2>1. /\ One(m.kind = "data" /\ m.c = c) = 1 /\ One(m.kind = "connection_end" /\ m.c = c) = 0
        /\ Grant(m, c) = 0
    BY <1>5 DEF One, Grant
  <2>2. Count(toGateway, "connection_end", c) \in Nat /\ Credit(toGateway, c) \in Nat
    BY <1>2, IndicesType, UnitsType
  <2>3. Count(toGateway', "connection_end", c) = Count(toGateway, "connection_end", c)
    BY <1>2, <1>5, <1>6, <2>1, <2>2, CountAppend
  <2>4. link = "up" => Count(toGateway', "data", c) = Count(toGateway, "data", c) + 1
    BY <1>2, <1>5, <1>6, <2>1, CountAppend
  <2>5. link = "up" => Credit(toGateway', c) = Credit(toGateway, c)
    BY <1>2, <1>5, <1>6, <2>1, <2>2, CreditAppend
  <2> QED BY <2>3, <2>4, <2>5
<1>8. SlotOnward
  BY <1>1, <1>6, SlotKept
<1>9. \A e : Same(toAgent', toAgent, e)
  BY <1>0, <1>1, QuietQueues
<1>10. ActsOn(c)
  BY <1>1, <1>4, <1>6, <1>9, LoopStills DEF ActsOn
<1>11. One(Draining(c)') = One(Draining(c)) /\ (Connecting(c)' => Connecting(c))
  BY <1>1 DEF Draining, Connecting, One
<1>12. /\ g[c].st \notin {"none", "ended"} /\ slot # "none" /\ ~Connecting(c)
       /\ Count(toGateway, "connection_end", c) = 0
       /\ a[c].d + One(Draining(c)) + Count(toAgent, "data", c) <= g[c].d
  BY <1>0, <1>1, LifeOpen
<1>13. Life(c)'
  <2>1. Receipts(toGateway', c, a'[c].d, a'[c].t)
    BY <1>6, <1>7, <1>12, ReceiptsNone
  <2>2. a'[c].d + One(Draining(c)') + Count(toAgent', "data", c) <= g[c].d
    BY <1>1, <1>4, <1>11, <1>12
  <2>3. /\ slot' # "none" /\ a'[c].st # "none" /\ ~Connecting(c)'
        /\ Count(toGateway', "connection_end", c) > 0 => a'[c].st = "ended"
    BY <1>1, <1>4, <1>7, <1>11, <1>12
  <2> QED BY <1>0, <1>12, <2>1, <2>2, <2>3, LifeActive
<1>14. Flow(c)'
  <2> SUFFICES ASSUME Flowing(c)'
               PROVE  /\ g[c].dCredit + Count(toAgent', "data", c) + One(Draining(c)')
                           + Credit(toGateway', c) = Window
                      /\ a'[c].credit + One(a'[c].reader = "emitting")
                           + Count(toGateway', "data", c) + Count(toAgent', "window", c)
                           = g[c].tCredit
                      /\ g[c].st = "pending" => OpenedFirst(toGateway', c)
                      /\ Sequenced(toGateway', c, g[c].t,
                                   a'[c].t - One(a'[c].reader = "emitting"))
    BY <1>0, <1>8, FlowAgent
  <2>1. /\ link = "up"
        /\ g[c].dCredit + Count(toAgent, "data", c) + One(Draining(c))
             + Credit(toGateway, c) = Window
        /\ a[c].credit + One(a[c].reader = "emitting")
             + Count(toGateway, "data", c) + Count(toAgent, "window", c)
             = g[c].tCredit
        /\ g[c].st = "pending" => OpenedFirst(toGateway, c)
        /\ Sequenced(toGateway, c, g[c].t, a[c].t - One(a[c].reader = "emitting"))
        /\ a[c].credit \in Nat /\ Count(toGateway, "data", c) \in Nat
        /\ Count(toAgent, "window", c) \in Nat
    BY <1>0, <1>1, <1>8, FlowBefore
  <2>2. toGateway' = Append(toGateway, m)
    BY <1>6, <2>1
  <2>3. One(a[c].reader = "emitting") = 1 /\ One(a'[c].reader = "emitting") = 0
    BY <1>1, <1>4 DEF One
  <2>4. a'[c].credit + One(a'[c].reader = "emitting")
          + Count(toGateway', "data", c) + Count(toAgent', "window", c) = g[c].tCredit
    BY <1>1, <1>4, <1>7, <2>1, <2>3
  <2>5. g[c].st = "pending" => OpenedFirst(toGateway', c)
    BY <1>2, <1>5, <2>1, <2>2, OpenedFirstAppend
  <2>6. Sequenced(toGateway', c, g[c].t, a'[c].t - One(a'[c].reader = "emitting"))
    <3>1. Sequenced(toGateway, c, g[c].t, a[c].t - 1)
      BY <2>1, <2>3
    <3>2. Sequenced(Append(toGateway, m), c, g[c].t, (a[c].t - 1) + 1)
      BY <1>2, <1>3, <1>5, <3>1, SequencedAppend
    <3>3. (a[c].t - 1) + 1 = a'[c].t - One(a'[c].reader = "emitting")
      BY <1>2, <1>4, <2>3
    <3> QED BY <2>2, <3>2, <3>3
  <2> QED BY <1>1, <1>7, <1>11, <2>1, <2>4, <2>5, <2>6
<1> QED BY <1>0, <1>4, <1>8, <1>10, <1>13, <1>14, AgentActs

LEMMA StepEmitConnectionEnd ==
    ASSUME IInv, NEW c \in Conns, EmitConnectionEnd(c)
    PROVE  IInv'
<1>0. Next /\ AgentOnly /\ TypeOK /\ Life(c) /\ Bounds(c)
  <2>1. Next /\ Closer
    BY DEF Next, Closer
  <2> QED BY <2>1, AgentSteps, InvParts
<1>1. /\ a[c].st = "ending" /\ a' = [a EXCEPT ![c].st = "ended"]
      /\ Emit(<<Receipt("connection_end", c, a[c].d, a[c].t)>>)
      /\ aloop' = aloop \/ (aloop' = "stopped" /\ link # "up")
      /\ slot' = slot /\ UNCHANGED <<acur, toAgent>> /\ link' = link
  BY DEF EmitConnectionEnd
<1>2. a \in [Conns -> AgentConns] /\ toGateway \in Seq(Messages)
      /\ a[c].d \in Nat /\ a[c].t \in Nat
  BY <1>0, FieldTypes DEF TypeOK, AgentTypes, LinkTypes, Fields
<1>3. /\ \A e \in Conns : e # c => a'[e] = a[e]
      /\ a'[c].st = "ended" /\ a'[c].reader = a[c].reader
      /\ a'[c].d = a[c].d /\ a'[c].t = a[c].t
  BY <1>1, <1>2 DEF AgentConns
<1> DEFINE m == Receipt("connection_end", c, a[c].d, a[c].t)
<1>4. /\ m \in Messages /\ m.kind = "connection_end" /\ m.c = c
      /\ m.n = a[c].d /\ m.m = a[c].t
      /\ \A e : e # c => Other(m, e)
  BY <1>2, FrameType
<1>5. /\ toGateway' = (IF link = "up" THEN Append(toGateway, m) ELSE toGateway)
      /\ \A e : e # c => Same(toGateway', toGateway, e)
      /\ HasEnd(toGateway') => HasEnd(toGateway)
      /\ toGateway' \in Seq(Messages)
  BY <1>0, <1>1, <1>4, EmitShape
<1> HIDE DEF m
<1>6. SlotOnward
  BY <1>1, <1>5, SlotKept
<1>7. \A e : Same(toAgent', toAgent, e)
  BY <1>0, <1>1, QuietQueues
<1>8. ActsOn(c)
  BY <1>1, <1>3, <1>5, <1>7, LoopStills DEF ActsOn
<1>9. (Draining(c)' => Draining(c)) /\ (Connecting(c)' => Connecting(c))
  BY <1>1 DEF Draining, Connecting
<1>10. /\ g[c].st \notin {"none", "ended"} /\ slot # "none" /\ ~Connecting(c)
       /\ a[c].d + One(Draining(c)) + Count(toAgent, "data", c) <= g[c].d
       /\ One(Draining(c)) \in 0..1 /\ Count(toAgent, "data", c) \in Nat
       /\ a[c].d \in Nat /\ g[c].d \in Nat
  BY <1>0, <1>1, LifeOpen
<1>11. Life(c)'
  <2>1. Receipts(toGateway', c, a'[c].d, a'[c].t)
    <3>1. Receipts(toGateway, c, a[c].d, a[c].t)
      BY <1>0 DEF Life
    <3>2. m.kind = "connection_end" /\ m.c = c => m.n <= a[c].d /\ m.m = a[c].t
      BY <1>2, <1>4
    <3>3. Receipts(Append(toGateway, m), c, a[c].d, a[c].t)
      BY <1>2, <1>4, <3>1, <3>2, ReceiptsAppend
    <3> QED BY <1>3, <1>5, <3>1, <3>3
  <2>2. a'[c].d + One(Draining(c)') + Count(toAgent', "data", c) <= g[c].d
    <3>1. One(Draining(c)') \in 0..1 /\ One(Draining(c)') <= One(Draining(c))
      BY <1>9 DEF One
    <3> QED BY <1>1, <1>3, <1>10, <3>1
  <2>3. /\ slot' # "none" /\ a'[c].st # "none" /\ ~Connecting(c)'
    BY <1>1, <1>3, <1>9, <1>10
  <2> QED BY <1>0, <1>3, <1>10, <2>1, <2>2, <2>3, LifeActive
<1>12. Flow(c)'
  BY <1>3 DEF Flow, Flowing
<1>13. a'[c].reader = "emitting" => a'[c].t > 0
  BY <1>0, <1>3 DEF Bounds
<1> QED BY <1>0, <1>6, <1>8, <1>11, <1>12, <1>13, AgentActs

-----------------------------------------------------------------------------
(* The invariant is inductive. *)

LEMMA InvDesktop ==
    ASSUME IInv, Desktop \/ ServeBrowser \/ Start \/ AuditFails \/ Timeout \/ LinkLost \/ Deliver
    PROVE  IInv'
<1>1. CASE Desktop
  BY <1>1, StepOpenConnection, StepDesktopData, StepGrantCredit, StepDesktopQuiet,
     StepCloseSession DEF Desktop
<1>2. CASE ServeBrowser
  <2>1. CASE FinishAfterClose("desktop")
    BY <2>1, StepFinish DEF Tasks
  <2> QED BY <1>2, <2>1, StepServeBrowser DEF ServeBrowser
<1> QED BY <1>1, <1>2, StepServeBrowser, StepDeliver

LEMMA InvFrames ==
    ASSUME IInv, AgentLive
    PROVE  IInv'
<1>1. CASE FinishAfterClose("agent")
  BY <1>1, StepFinish DEF Tasks
<1> QED BY <1>1, StepFrameOfNoSession, StepOnQuiet, StepOnEnd, StepFinish,
           StepOnConnectionOpened, StepOnWindow, StepOnConnectionEnd, StepOnData DEF AgentLive

LEMMA InvAgent ==
    ASSUME IInv, Loop \/ Watch \/ Closer \/ (\E c \in Conns : SendFrame(c) \/ Target(c))
    PROVE  IInv'
<1>1. CASE Loop
  BY <1>1, StepLoopQuiet, StepTcpOpened, StepDrained, StepDrainFails, StepOpenTcp,
     StepWriteData, StepTakeCredit, StepDesktopHalfClosed, StepCloseTcp DEF Loop
<1>2. CASE Watch \/ Closer
  BY <1>2, StepLoopQuiet, StepCloseNext, StepEmitConnectionEnd DEF Closer
<1>3. ASSUME NEW c \in Conns, SendFrame(c) \/ Target(c) PROVE IInv'
  BY <1>3, StepSendFrame, StepReadFrame, StepReaderEnds DEF Target
<1> QED BY <1>1, <1>2, <1>3

LEMMA InvStutters == ASSUME IInv, UNCHANGED vars PROVE IInv'
<1>1. /\ UNCHANGED <<gw, opened, g, total, out, ending, loop, audit>>
      /\ UNCHANGED <<slot, closer, rest, a, atotal, tcp, aloop, acur>>
      /\ UNCHANGED <<link, toAgent, toGateway, desk, seen, told>>
  BY DEF vars, gatewayVars, agentVars, tableVars, deskVars
<1>2. TypeOK'
  BY TypeNext
<1>3. TypeOK /\ LoopInv /\ Totals /\ AuditInv
  BY InvParts
<1>4. Onward
  BY <1>1 DEF Onward
<1>5. LoopInv' /\ Totals'
  BY <1>1, <1>3, TotalsUnchanged DEF LoopInv, TotalsKept
<1>6. AuditInv'
  BY <1>1, <1>3 DEF AuditInv, Ended, Connecting
<1>7. ASSUME NEW c \in Conns PROVE Holds(c)'
  <2>1. Still(c)
    BY <1>1, <1>3, PartsKept DEF Still
  <2> QED BY <1>2, <1>4, <2>1, StillKeeps, InvParts
<1> QED BY <1>2, <1>5, <1>6, <1>7 DEF IInv, Parts

LEMMA InvNext == ASSUME IInv, [Next]_vars PROVE IInv'
BY InvDesktop, InvFrames, InvAgent, InvStutters DEF Next

LEMMA NoFrames ==
    ASSUME NEW f \in [Conns -> Nat], \A c \in Conns : f[c] = 0
    PROVE  IsFiniteSet(Frames(f)) /\ Cardinality(Frames(f)) = 0
<1>1. \A u : u \notin Frames(f)
  BY FrameOf
<1>2. Frames(f) = {}
  BY <1>1
<1> QED BY <1>2, FS_EmptySet

LEMMA InitTypes == ASSUME Init PROVE TypeOK
<1>1. Window \in Nat \ {0} /\ ByteLimit \in Nat /\ QueueMax \in Nat \ {0} /\ MaxFrames \in Nat
      /\ Anyone \in Conns
  BY PortForwardAssumption, AnyoneType
<1>2. 0 \in 0..Window /\ Window \in 0..Window /\ 0 \in 0..ByteLimit /\ 0 \in 0..MaxFrames
  BY <1>1
<1>3. <<>> \in Seq(Messages) /\ Len(<<>>) <= QueueMax
  BY <1>1, EmptySeq
<1>4. g \in [Conns -> GatewayConns]
  BY <1>2 DEF Init, GatewayConns
<1>5. a \in [Conns -> AgentConns]
  BY <1>2 DEF Init, AgentConns
<1>6. desk \in [Conns -> DesktopConns]
  BY <1>2 DEF Init, DesktopConns
<1>7. audit \in Audits
  BY <1>2 DEF Init, Audits
<1>8. total \in [d : 0..ByteLimit, t : 0..ByteLimit] /\ atotal \in [d : Nat, t : Nat]
  BY <1>2 DEF Init
<1>9. ending \in [Tasks -> Reasons \cup {NoEnd}]
  BY DEF Init
<1>10. GatewayTypes
  BY <1>3, <1>4, <1>7, <1>8, <1>9 DEF Init, GatewayTypes
<1>11. AgentTypes
  BY <1>1, <1>5, <1>8 DEF Init, AgentTypes
<1>12. LinkTypes /\ DesktopTypes
  BY <1>3, <1>6 DEF Init, LinkTypes, DesktopTypes
<1> QED BY <1>10, <1>11, <1>12 DEF TypeOK

LEMMA InvInit == ASSUME Init PROVE IInv
<1>1. TypeOK
  BY InitTypes
<1>2. /\ gw = "absent" /\ loop = "off" /\ slot = "none" /\ aloop = "idle"
      /\ out = <<>> /\ toAgent = <<>> /\ toGateway = <<>>
      /\ audit.reason = NoEnd /\ total.d = 0 /\ total.t = 0
      /\ \A k \in Tasks : ending[k] = NoEnd
  BY DEF Init
<1>3. LoopInv
  BY <1>2 DEF LoopInv, NoEnd
<1>4. AuditInv
  BY <1>2, HasEndViews DEF AuditInv, NoEnd
<1>5. \A c \in Conns :
        /\ g[c].st = "none" /\ g[c].dCredit = 0 /\ g[c].tCredit = Window
        /\ g[c].d = 0 /\ g[c].t = 0
        /\ a[c].st = "none" /\ a[c].credit = Window /\ a[c].d = 0 /\ a[c].t = 0
        /\ a[c].reader = "off"
        /\ desk[c].st = "none" /\ desk[c].credit = 0 /\ desk[c].sent = 0 /\ desk[c].got = 0
  BY DEF Init
<1>6. Totals
  <2>1. /\ [c \in Conns |-> g[c].d] \in [Conns -> Nat] /\ [c \in Conns |-> g[c].t] \in [Conns -> Nat]
    BY <1>1, CountsAreNat
  <2>2. IsFiniteSet(FromDesktop) /\ Cardinality(FromDesktop) = 0
    BY <1>5, <2>1, NoFrames DEF FromDesktop
  <2>3. IsFiniteSet(FromTarget) /\ Cardinality(FromTarget) = 0
    BY <1>5, <2>1, NoFrames DEF FromTarget
  <2> QED BY <1>2, <2>2, <2>3 DEF Totals
<1>7. ASSUME NEW c \in Conns PROVE Holds(c)
  <2>1. /\ \A k \in Kinds : Count(<<>>, k, c) = 0
        /\ Credit(<<>>, c) = 0 /\ DataFirst(<<>>, c) /\ \A d, t : Receipts(<<>>, c, d, t)
    BY EmptyViews DEF Empty
  <2>2. /\ Count(<<>>, "data", c) = 0 /\ Count(<<>>, "window", c) = 0
        /\ Count(<<>>, "connection_open", c) = 0 /\ Count(<<>>, "connection_opened", c) = 0
        /\ Count(<<>>, "connection_end", c) = 0
    BY <2>1, KindNames
  <2>3. ~Connecting(c) /\ ~Draining(c) /\ One(Draining(c)) = 0
    BY <1>2 DEF Connecting, Draining, One
  <2>4. Bounds(c)
    BY <1>2, <1>5, <2>1 DEF Bounds
  <2>5. Untouched(c)
    BY <1>2, <1>5, <2>2, <2>3 DEF Untouched
  <2>6. Life(c)
    BY <1>2, <1>5, <2>1, <2>2, <2>3, <2>5 DEF Life
  <2>7. Shown(c)
    BY <1>2, <1>5, <2>1, <2>2 DEF Shown
  <2>8. Flow(c)
    BY <1>5 DEF Flow, Flowing
  <2> QED BY <2>4, <2>6, <2>7, <2>8 DEF Holds
<1> QED BY <1>1, <1>3, <1>4, <1>6, <1>7 DEF IInv, Parts

-----------------------------------------------------------------------------
(* The theorems. *)

\* The invariant holds in every reachable state: whatever the desktop, the
\* target and the network do, and however the gateway's and the agent's tasks
\* interleave.
THEOREM Invariant == Spec => []IInv
<1>1. Init => IInv
  BY InvInit
<1>2. IInv /\ [Next]_vars => IInv'
  BY InvNext
<1> QED BY <1>1, <1>2, PTL DEF Spec

\* Every variable keeps its type: no credit leaves 0..Window, and the gateway
\* counts no more than the byte limit in either direction.
THEOREM TypeCorrect == Spec => []TypeOK
<1>1. IInv => TypeOK
  BY InvParts
<1> QED BY <1>1, Invariant, PTL

LEMMA InvFlow == ASSUME IInv PROVE FlowControlled
<1> SUFFICES ASSUME gw = "open", link = "up", InTable, NEW c \in Conns, c \in Known, c \in Live
             PROVE  /\ g[c].dCredit + Count(toAgent, "data", c)
                         + One(aloop = "draining" /\ acur = c) + Credit(toGateway, c) = Window
                    /\ a[c].credit + One(a[c].reader = "emitting")
                         + Count(toGateway, "data", c) + Count(toAgent, "window", c)
                         = g[c].tCredit
  BY DEF FlowControlled, Known
<1>1. Flow(c)
  BY InvParts
<1>2. Flowing(c)
  BY DEF Flowing, InTable, Live
<1> QED BY <1>1, <1>2 DEF Flow, Draining

\* Credit is conserved in both directions, by _browser_binary, _grant_credit
\* and the gateway's frame handlers together with handle_data, _read_target
\* and _grant_output_credit of the agent: nothing is lost between the three
\* queues, and no frame finds its window used up.
THEOREM FlowIsControlled == Spec => []FlowControlled
BY InvFlow, Invariant, PTL

LEMMA InvReceipt == ASSUME IInv PROVE ReceiptTrue
<1> SUFFICES ASSUME gw = "open", ending = [k \in Tasks |-> NoEnd],
                    NEW c \in Conns, desk[c].st = "ended"
             PROVE  desk[c].got = a[c].t /\ desk[c].sent = a[c].d
  BY DEF ReceiptTrue
<1>1. TypeOK /\ Shown(c) /\ Life(c)
  BY InvParts
<1>2. ending["desktop"] = NoEnd /\ ending["agent"] = NoEnd
  BY DEF Tasks
<1>3. g[c].st = "ended" /\ Count(out, "data", c) = 0
  BY <1>1 DEF Shown
<1>4. a[c].d = g[c].d /\ a[c].t = g[c].t
  BY <1>1, <1>3 DEF Life
<1>5. desk[c].sent = g[c].d /\ desk[c].got + Count(out, "data", c) = g[c].t
  BY <1>1, <1>2 DEF Shown
<1>6. desk[c].got \in Nat
  BY <1>1, FieldTypes DEF Fields
<1> QED BY <1>3, <1>4, <1>5, <1>6

\* The byte receipt that the desktop holds is true end to end: what the
\* comparison in the gateway's connection_end handler is for, although the
\* agent's reader may be cancelled between counting a frame and sending it.
THEOREM ReceiptIsTrue == Spec => []ReceiptTrue
BY InvReceipt, Invariant, PTL

LEMMA InvAudit == ASSUME IInv PROVE AuditTrue
<1> SUFFICES ASSUME audit.reason = "ended"
             PROVE  /\ audit.d = SumOf([c \in Conns |-> a[c].d])
                    /\ audit.t = SumOf([c \in Conns |-> a[c].t])
  BY DEF AuditTrue
<1>1. Totals /\ Ended
  BY InvParts DEF AuditInv
<1>2. /\ [c \in Conns |-> a[c].d] = [c \in Conns |-> g[c].d]
      /\ [c \in Conns |-> a[c].t] = [c \in Conns |-> g[c].t]
  BY <1>1 DEF Ended
<1>3. audit.d = total.d /\ audit.t = total.t
  BY <1>1 DEF Ended
<1>4. total.d = SumOf([c \in Conns |-> g[c].d]) /\ total.t = SumOf([c \in Conns |-> g[c].t])
  BY <1>1 DEF Totals, FromDesktop, FromTarget, SumOf
<1> QED BY <1>2, <1>3, <1>4

\* The audit record of a session that the agent ended has the bytes that the
\* agent relayed over all connections, one that was being opened while the
\* session closed included: the end frame is taken only when no connection is
\* left and both totals agree, and nothing is counted after it.
THEOREM AuditIsTrue == Spec => []AuditTrue
BY InvAudit, Invariant, PTL

=============================================================================
