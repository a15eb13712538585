-------------------------- MODULE RouteCheckProofs --------------------------
(***************************************************************************)
(* The route checker is right about every routing: what it accepts is a    *)
(* tree for each net and fits into the device, and it turns away no trace  *)
(* that lists such a tree.  It compares only neighbours in the list and    *)
(* keeps two sets, of nodes met and of pins reached; the invariant says    *)
(* what the part of the trace that has been read is, in terms of positions *)
(* in the list, and the tree comes out of it at the end.                   *)
(***************************************************************************)
EXTENDS RouteCheck, DataInduction

\* Element k of the trace is at the end of a wire: the one before is no SINK.
IsWire(t, k) == t[k - 1] \notin Sink

Before(t, k) == { t[j] : j \in 1 .. k - 1 }

\* What is known of the trace t of net i when its first p - 1 elements are read.
ReadUpTo(i, t, p) ==
  /\ t # <<>> /\ t[1] = Source[i]
  /\ \A k \in 2 .. p - 1 : ~IsWire(t, k) => t[k] \in Before(t, k)
  /\ \A k \in 2 .. p - 1 : IsWire(t, k) =>
       /\ << t[k - 1], t[k] >> \in Edge
       /\ t[k] \in Before(t, k) => t[k] \in Sink
       /\ t[k] \in Sink => \E m \in DOMAIN PinSink[i] : PinSink[i][m] = t[k]
  /\ \A j, k \in 2 .. p - 1 : IsWire(t, j) /\ IsWire(t, k) /\ t[j] = t[k] => j = k

\* The pins of net i that a wire before element p leads to.
PinsUpTo(i, t, p) ==
  { m \in DOMAIN PinSink[i] : \E k \in 2 .. p - 1 : IsWire(t, k) /\ t[k] = PinSink[i][m] }

\* The whole trace has been read, and the net is done.
Done(i, t) ==
  /\ ReadUpTo(i, t, Len(t) + 1)
  /\ PinsUpTo(i, t, Len(t) + 1) = DOMAIN PinSink[i]

TypeOK ==
  /\ trace \in [Net -> Seq(Node)]
  /\ local \in Seq(Node)
  /\ ipin \in Nat
  /\ inet \in Net
  /\ pos \in Nat \ {0}
  /\ pc \in {"recount", "opins", "net"} \cup Ended

\* The net being read: nothing of it yet, or what the two sets say.
Reading ==
  /\ pc \in {"recount", "opins"} => inet = 1 /\ pos = 1
  /\ pc \in {"recount", "opins", "net"} /\ pos = 1 => connected = {}
  /\ pc = "net" /\ pos > 1 =>
       /\ pos <= Len(T) + 1
       /\ ReadUpTo(inet, T, pos)
       /\ connected = Before(T, pos)
       /\ pinDone = PinsUpTo(inet, T, pos)

NetsDone ==
  /\ pc = "net" => \A i \in 1 .. inet - 1 : Done(i, trace[i])
  /\ pc = "legal" => \A i \in Net : Done(i, trace[i])

Fits == pc \in {"opins", "net", "legal"} => Feasible

IInv == TypeOK /\ Reading /\ NetsDone /\ Fits

-----------------------------------------------------------------------------
(* Recounting *)

\* Whether an element counts depends on the one before.
LEMMA CountedValue ==
  ASSUME NEW t \in Seq(Node)
  PROVE  /\ t # <<>> => Counted(t)[1]
         /\ \A k \in 2 .. Len(t) : Counted(t)[k] <=> ~(Counted(t)[k - 1] /\ t[k - 1] \in Sink)
<1> DEFINE F(c) == [k \in Nat |-> k <= 1 \/ ~(c[k - 1] /\ t[k - 1] \in Sink)]
<1>1. \E c : c = F(c)
  <2> DEFINE B == {0, 1}
             g == [x \in Nat \X B |->
                     IF x[1] = 0 \/ ~(x[2] = 1 /\ t[x[1]] \in Sink) THEN 1 ELSE 0]
  <2>1. g \in [Nat \X B -> B] /\ 1 \in B
    OBVIOUS
  <2>2. \A n \in Nat, v \in B :
          g[<<n, v>>] = IF n = 0 \/ ~(v = 1 /\ t[n] \in Sink) THEN 1 ELSE 0
    OBVIOUS
  <2> HIDE DEF g, B
  <2>3. PICK h : IsRecursion(h, B, 1, g)
    BY <2>1, Recursion
  <2> USE <2>3 DEF IsRecursion
  <2>4. ASSUME NEW k \in Nat
        PROVE  (h[k] = 1) <=> (k <= 1 \/ ~(h[k - 1] = 1 /\ t[k - 1] \in Sink))
    <3>1. CASE k = 0
      BY <3>1, <2>3
    <3>2. CASE k # 0
      <4>1. k - 1 \in Nat /\ (k - 1) + 1 = k /\ h[k - 1] \in B
        BY <3>2
      <4>2. h[k] = g[<<k - 1, h[k - 1]>>]
        BY <4>1, <2>3
      <4>3. h[k] = IF k - 1 = 0 \/ ~(h[k - 1] = 1 /\ t[k - 1] \in Sink) THEN 1 ELSE 0
        BY <4>1, <4>2, <2>2
      <4> QED BY <4>3, <3>2
    <3> QED BY <3>1, <3>2
  <2> DEFINE c == [k \in Nat |-> h[k] = 1]
  <2>5. ASSUME NEW k \in Nat
        PROVE  (h[k] = 1) = (k <= 1 \/ ~(c[k - 1] /\ t[k - 1] \in Sink))
    <3>1. CASE k = 0
      BY <3>1, <2>4
    <3>2. CASE k # 0
      <4>1. k - 1 \in Nat
        BY <3>2
      <4>2. c[k - 1] <=> h[k - 1] = 1
        BY <4>1
      <4> QED BY <4>2, <2>4
    <3> QED BY <3>1, <3>2
  <2>6. c = F(c)
    BY <2>5
  <2> QED BY <2>6
<1> DEFINE c == CHOOSE c : c = F(c)
<1>2. c = F(c)
  BY <1>1
<1>3. Counted(t) = [k \in DOMAIN t |-> c[k]]
  BY DEF Counted
<1> HIDE DEF c
<1>4. \A k \in Nat : c[k] = (k <= 1 \/ ~(c[k - 1] /\ t[k - 1] \in Sink))
  BY <1>2
<1>4a. \A k \in Nat : k <= 1 => c[k]
  BY <1>2
<1>5. DOMAIN t = 1 .. Len(t)
  OBVIOUS
<1>6. \A k \in 1 .. Len(t) : Counted(t)[k] = c[k]
  BY <1>3, <1>5
<1>7. t # <<>> => Counted(t)[1]
  <2>1. c[1]
    BY <1>4a
  <2>2. t # <<>> => 1 \in 1 .. Len(t)
    OBVIOUS
  <2> QED BY <2>1, <2>2, <1>6
<1>8. ASSUME NEW k \in 2 .. Len(t)
      PROVE Counted(t)[k] <=> ~(Counted(t)[k - 1] /\ t[k - 1] \in Sink)
  <2>1. k - 1 \in 1 .. Len(t) /\ k \in 1 .. Len(t) /\ k \in Nat /\ ~(k <= 1)
    OBVIOUS
  <2>2. c[k] <=> ~(c[k - 1] /\ t[k - 1] \in Sink)
    BY <1>4, <2>1
  <2> QED BY <2>1, <2>2, <1>6
<1> QED BY <1>7, <1>8

\* The sum over the nets, as a sum.
LEMMA OccIsSum ==
  ASSUME NEW n, NEW v \in [Net -> Nat],
         \A i \in Net : v[i] = Cardinality({ k \in DOMAIN trace[i] :
                                  trace[i][k] = n /\ Counted(trace[i])[k] })
  PROVE  \E it : /\ IsSum(it, Net, v)
                 /\ Occ(n) = it[Net] + Cardinality({ k \in DOMAIN local : local[k] = n })
<1> DEFINE uses(i) == Cardinality({ k \in DOMAIN trace[i] :
                                 trace[i][k] = n /\ Counted(trace[i])[k] })
           one(s) == CHOOSE x \in s : TRUE
           G(it) == [s \in SUBSET Net |-> IF s = {} THEN 0
                                         ELSE uses(one(s)) + it[s \ {one(s)}]]
           w == CHOOSE it : it = G(it)
<1>1. Occ(n) = w[Net] + Cardinality({ k \in DOMAIN local : local[k] = n })
  BY Zenon DEF Occ, MapThenSumSet, MapThenFoldSet
<1>2. ASSUME NEW it  PROVE IsSum(it, Net, v) <=> it = G(it)
  <2>1. \A s \in SUBSET Net : s # {} => one(s) \in Net
    OBVIOUS
  <2>2. \A i \in Net : v[i] = uses(i)
    OBVIOUS
  <2> HIDE DEF uses
  <2>3. IsSum(it, Net, v) <=>
          it = [s \in SUBSET Net |-> IF s = {} THEN 0 ELSE v[one(s)] + it[s \ {one(s)}]]
    BY DEF IsSum
  <2> HIDE DEF one
  <2>4. [s \in SUBSET Net |-> IF s = {} THEN 0 ELSE v[one(s)] + it[s \ {one(s)}]] = G(it)
    BY <2>1, <2>2
  <2> QED BY <2>3, <2>4
<1>3. IsFiniteSet(Net)
  BY CheckAssumption, FS_Interval DEF Net
<1>4. \E it : it = G(it)
  <2>1. \E it : IsSum(it, Net, v)
    BY <1>3, SumExists
  <2> HIDE DEF G
  <2> QED BY <2>1, <1>2
<1>5. w = G(w)
  <2> HIDE DEF G
  <2> QED BY <1>4
<1> HIDE DEF w, G
<1> QED BY <1>1, <1>2, <1>5

-----------------------------------------------------------------------------
(* A trace that has been read is a tree *)

\* The first place of a node in the trace, if not the head, is a wire's end.
LEMMA FirstIsWire ==
  ASSUME NEW i \in Net, TypeOK, NEW p \in Nat, p <= Len(trace[i]) + 1, ReadUpTo(i, trace[i], p),
         NEW n, n # Source[i], NEW l \in 1 .. p - 1, trace[i][l] = n
  PROVE  \E k \in 2 .. p - 1 : IsWire(trace[i], k) /\ trace[i][k] = n
<1> DEFINE P == {k \in Nat : k \in 1 .. p - 1 /\ trace[i][k] = n}
<1>1. P \in SUBSET Nat /\ P # {}
  OBVIOUS
<1>2. PICK k \in P : \A j \in P : k <= j
  <2> HIDE DEF P
  <2> QED BY <1>1, Least
<1>3. k \in 1 .. p - 1 /\ trace[i][k] = n
  OBVIOUS
<1>4. k # 1
  BY <1>3 DEF ReadUpTo
<1>5. k \in 2 .. p - 1
  BY <1>3, <1>4
<1>6. CASE ~IsWire(trace[i], k)
  <2>1. trace[i][k] \in Before(trace[i], k)
    BY <1>5, <1>6 DEF ReadUpTo
  <2>2. PICK j \in 1 .. k - 1 : trace[i][j] = n
    BY <2>1, <1>3 DEF Before
  <2>3. j \in P /\ j < k
    BY <2>2, <1>3
  <2> QED BY <2>3, <1>2, <1>3
<1> QED BY <1>3, <1>5, <1>6

\* So every node of a trace that has been read, but the SOURCE, is such an end.
LEMMA UsedIsWire ==
  ASSUME NEW i \in Net, TypeOK, Done(i, trace[i]), NEW n \in Uses(i), n # Source[i]
  PROVE  \E k \in 2 .. Len(trace[i]) : IsWire(trace[i], k) /\ trace[i][k] = n
<1> DEFINE p == Len(trace[i]) + 1
<1>1. trace[i] \in Seq(Node) /\ ReadUpTo(i, trace[i], p)
  BY DEF TypeOK, Done
<1>2. PICK l \in 1 .. Len(trace[i]) : trace[i][l] = n
  BY <1>1 DEF Uses, ToSet
<1>3. p \in Nat /\ p <= Len(trace[i]) + 1 /\ p - 1 = Len(trace[i]) /\ l \in 1 .. p - 1
  BY <1>1, <1>2
<1> HIDE DEF p
<1>4. \E k \in 2 .. p - 1 : IsWire(trace[i], k) /\ trace[i][k] = n
  BY <1>1, <1>2, <1>3, FirstIsWire
<1> QED BY <1>3, <1>4

\* The nodes that are k wires away from the SOURCE, as IsTree counts them.
IsUp(u, i) ==
  u = [k \in Nat |->
         IF k = 0 THEN {Source[i]}
         ELSE u[k - 1] \cup { e[2] : e \in { w \in Wires(i) : w[1] \in u[k - 1] } }]

\* There is such a function.
LEMMA UpExists ==
  ASSUME NEW i \in Net
  PROVE  \E u : IsUp(u, i)
<1> DEFINE near(X) == X \cup { e[2] : e \in { w \in Wires(i) : w[1] \in X } }
           S == SUBSET (near({Source[i]}) \cup { e[2] : e \in Wires(i) })
           x0 == {Source[i]}
           g == [x \in Nat \X S |-> near(x[2])]
<1>1. x0 \in S
  OBVIOUS
<1>2. \A X \in S : near(X) \in S
  OBVIOUS
<1> HIDE DEF near, S, x0
<1>3. g \in [Nat \X S -> S] /\ \A n \in Nat, X \in S : g[<<n, X>>] = near(X)
  BY <1>2
<1> HIDE DEF g
<1>4. PICK u : IsRecursion(u, S, x0, g)
  BY <1>1, <1>3, Recursion
<1>5. \A n \in Nat : u[n + 1] = near(u[n])
  BY <1>3, <1>4 DEF IsRecursion
<1>6. \A k \in Nat : u[k] = IF k = 0 THEN x0 ELSE near(u[k - 1])
  <2> TAKE k \in Nat
  <2>1. CASE k = 0
    BY <2>1, <1>4 DEF IsRecursion
  <2>2. CASE k # 0
    <3>1. k - 1 \in Nat /\ (k - 1) + 1 = k
      BY <2>2
    <3> QED BY <3>1, <2>2, <1>5
  <2> QED BY <2>1, <2>2
<1>7. u = [k \in Nat |-> IF k = 0 THEN x0 ELSE near(u[k - 1])]
  <2>1. u \in [Nat -> S]
    BY <1>4 DEF IsRecursion
  <2> QED BY <2>1, <1>6
<1> QED BY <1>7 DEF IsUp, near, x0

\* The wires of a net are pairs of nodes, and every element of the trace that is not a
\* branch comes over one.
LEMMA WiresInNodes ==
  ASSUME NEW i \in Net, TypeOK
  PROVE  /\ \A w \in Wires(i) : w \in Node \X Node
         /\ \A k \in 2 .. Len(trace[i]) : IsWire(trace[i], k) =>
              << trace[i][k - 1], trace[i][k] >> \in Wires(i)
<1>1. trace[i] \in Seq(Node)
  BY DEF TypeOK
<1>2. \A k \in 2 .. Len(trace[i]) : trace[i][k - 1] \in Node /\ trace[i][k] \in Node
  BY <1>1
<1> QED BY <1>2 DEF Wires, IsWire

\* All of the trace can be reached from the SOURCE, over as many wires at most
\* as there are nodes.
LEMMA UsesReached ==
  ASSUME NEW i \in Net, TypeOK, Done(i, trace[i]), NEW u, IsUp(u, i)
  PROVE  \A n \in Uses(i) : n \in u[Cardinality(Node)]
<1> DEFINE c == Cardinality(Node)
           t == trace[i]
<1>1. IsFiniteSet(Node) /\ c \in Nat
  BY CheckAssumption, FS_CardinalityType
<1>2. t \in Seq(Node) /\ Source[i] \in Node
  BY CheckAssumption DEF TypeOK
<1>3. \A k \in Nat : u[k + 1] = u[k] \cup { e[2] : e \in { w \in Wires(i) : w[1] \in u[k] } }
  <2> TAKE k \in Nat
  <2>1. k + 1 \in Nat /\ k + 1 # 0 /\ (k + 1) - 1 = k
    OBVIOUS
  <2> QED BY <2>1 DEF IsUp
<1>4. u[0] = {Source[i]}
  BY DEF IsUp
<1>5. \A k \in Nat : u[k] \in SUBSET Node
  <2> DEFINE A == {k \in Nat : u[k] \in SUBSET Node}
  <2>1. 0 \in A
    BY <1>2, <1>4
  <2>2. ASSUME NEW k \in Nat, k \in A  PROVE k + 1 \in A
    <3>1. \A w \in Wires(i) : w[2] \in Node
      BY WiresInNodes
    <3> QED BY <2>2, <3>1, <1>3
  <2> HIDE DEF A
  <2>3. Nat \subseteq A
    BY <2>1, <2>2, NatInduct
  <2> QED BY <2>3 DEF A
<1>6. u \in [Nat -> SUBSET Node]
  <2>1. u = [k \in Nat |-> u[k]]
    BY DEF IsUp
  <2> QED BY <2>1, <1>5
<1>7. \A k \in Nat : u[k] \subseteq u[c]
  <2>1. \A k \in Nat : u[k] \subseteq u[k + 1]
    BY <1>3
  <2>2. \A k \in Nat : u[k + 1] = u[k] => u[k + 2] = u[k + 1]
    <3> TAKE k \in Nat
    <3>1. k + 1 \in Nat /\ (k + 1) + 1 = k + 2
      OBVIOUS
    <3>2. u[k + 2] = u[k + 1] \cup { e[2] : e \in { w \in Wires(i) : w[1] \in u[k + 1] } }
      BY <3>1, <1>3
    <3> QED BY <3>2, <1>3
  <2> HIDE DEF c
  <2> QED BY <2>1, <2>2, <1>1, <1>6, Saturates DEF c
<1>8. ASSUME NEW w \in Wires(i), w[1] \in u[c]  PROVE w[2] \in u[c]
  <2>1. w[2] \in u[c + 1]
    BY <1>1, <1>3, <1>8
  <2> QED BY <2>1, <1>1, <1>7
<1> DEFINE A == {k \in Int : \A j \in 1 .. k : t[j] \in u[c]}
<1>9. 1 \in A
  <2>1. t[1] \in u[c]
    BY <1>1, <1>4, <1>7 DEF Done, ReadUpTo
  <2> QED BY <2>1
<1>10. ASSUME NEW k \in 1 .. Len(t) - 1, k \in A  PROVE k + 1 \in A
  <2>1. k + 1 \in 2 .. Len(t) /\ (k + 1) - 1 = k /\ Len(t) \in Nat
    BY <1>2
  <2>2. t[k + 1] \in u[c]
    <3>1. CASE IsWire(t, k + 1)
      <4>1. << t[k], t[k + 1] >> \in Wires(i)
        BY <2>1, <3>1, WiresInNodes
      <4> QED BY <4>1, <1>8, <1>10
    <3>2. CASE ~IsWire(t, k + 1)
      <4>1. t[k + 1] \in Before(t, k + 1)
        BY <2>1, <3>2 DEF Done, ReadUpTo
      <4> QED BY <4>1, <2>1, <1>10 DEF Before
    <3> QED BY <3>1, <3>2
  <2>3. \A j \in 1 .. k + 1 : j \in 1 .. k \/ j = k + 1
    BY <2>1
  <2>4. k + 1 \in Int /\ \A j \in 1 .. k : t[j] \in u[c]
    BY <2>1, <1>10
  <2> QED BY <2>2, <2>3, <2>4
<1>11. 1 .. Len(t) \subseteq A
  <2> DEFINE b == Len(t)
  <2> HIDE DEF A
  <2>1. b \in Int /\ 1 \in Int /\ 1 \in A
    BY <1>2, <1>9
  <2>2. \A k \in 1 .. b - 1 : k \in A => k + 1 \in A
    BY <1>10
  <2> HIDE DEF b
  <2>3. 1 .. b \subseteq A
    BY <2>1, <2>2, IntervalInduct
  <2> QED BY <2>3 DEF b
<1>12. ASSUME NEW n \in Uses(i)  PROVE n \in u[c]
  <2>1. PICK k \in 1 .. Len(t) : t[k] = n
    BY <1>2 DEF Uses, ToSet
  <2> QED BY <2>1, <1>11
<1> QED BY <1>12

\* A trace read to its end is a tree, if each SINK has at most one pin.
LEMMA DoneIsTree ==
  ASSUME NEW i \in Net, TypeOK, Done(i, trace[i]), OneByOne(i)
  PROVE  IsTree(i)
<1> DEFINE t == trace[i]
           into(n) == { e \in Wires(i) : e[2] = n }
           pins(n) == { k \in DOMAIN PinSink[i] : PinSink[i][k] = n }
<1>1. t \in Seq(Node) /\ Source[i] \in Node \ Sink
  BY CheckAssumption DEF TypeOK
<1>2. \A e \in Wires(i) : \E k \in 2 .. Len(t) : IsWire(t, k) /\ e = << t[k - 1], t[k] >>
  BY DEF Wires, IsWire
<1>3. \A k \in 2 .. Len(t) : IsWire(t, k) => << t[k - 1], t[k] >> \in Wires(i)
  BY WiresInNodes
<1>4. ReadUpTo(i, trace[i], Len(t) + 1) /\ (Len(t) + 1) - 1 = Len(t) /\ Len(t) \in Nat
  BY <1>1 DEF Done
<1>5. \A k \in 2 .. Len(t) : IsWire(t, k) =>
        /\ << t[k - 1], t[k] >> \in Edge
        /\ t[k] \in Before(t, k) => t[k] \in Sink
        /\ t[k] \in Sink => \E m \in DOMAIN PinSink[i] : PinSink[i][m] = t[k]
  BY <1>4 DEF ReadUpTo
<1>6. \A j, k \in 2 .. Len(t) : IsWire(t, j) /\ IsWire(t, k) /\ t[j] = t[k] => j = k
  BY <1>4 DEF ReadUpTo
<1>7. Wires(i) \subseteq Edge
  BY <1>2, <1>5
<1>8. into(Source[i]) = {}
  <2> SUFFICES ASSUME NEW k \in 2 .. Len(t), IsWire(t, k), t[k] = Source[i]  PROVE FALSE
    BY <1>2
  <2>1. t[1] = t[k] /\ 1 \in 1 .. k - 1
    BY <1>4 DEF ReadUpTo
  <2>2. t[k] \in Before(t, k)
    BY <2>1 DEF Before
  <2> QED BY <2>2, <1>1, <1>5
<1>9. ASSUME NEW k \in 2 .. Len(t), IsWire(t, k)
      PROVE  into(t[k]) = { << t[k - 1], t[k] >> }
  BY <1>2, <1>3, <1>6, <1>9
<1>10. ASSUME NEW k \in 2 .. Len(t), IsWire(t, k)
       PROVE  Cardinality(into(t[k])) = 1
  BY <1>9, <1>10, FS_Singleton
<1>11. ASSUME NEW n \in Uses(i) \ (Sink \cup {Source[i]})
       PROVE  Cardinality(into(n)) = 1
  <2>1. n \in Uses(i) /\ n # Source[i]
    BY <1>11
  <2>2. \E k \in 2 .. Len(trace[i]) : IsWire(trace[i], k) /\ trace[i][k] = n
    BY <2>1, UsedIsWire
  <2> QED BY <2>2, <1>10
<1>12. ASSUME NEW n \in Sink
       PROVE  Cardinality(into(n)) = Cardinality(pins(n))
  <2>1. CASE \E k \in 2 .. Len(t) : IsWire(t, k) /\ t[k] = n
    <3>1. PICK k \in 2 .. Len(t) : IsWire(t, k) /\ t[k] = n
      BY <2>1
    <3>2. PICK m \in DOMAIN PinSink[i] : PinSink[i][m] = n
      BY <3>1, <1>5
    <3>3. pins(n) = {m}
      BY <3>2 DEF OneByOne, IsInjective
    <3> QED BY <3>1, <3>3, <1>10, FS_Singleton
  <2>2. CASE ~\E k \in 2 .. Len(t) : IsWire(t, k) /\ t[k] = n
    <3>1. into(n) = {}
      BY <2>2, <1>2
    <3>2. pins(n) = {}
      <4> SUFFICES ASSUME NEW m \in DOMAIN PinSink[i], PinSink[i][m] = n  PROVE FALSE
        OBVIOUS
      <4>1. m \in PinsUpTo(i, trace[i], Len(t) + 1)
        BY DEF Done
      <4> QED BY <4>1, <2>2, <1>4 DEF PinsUpTo
    <3> QED BY <3>1, <3>2
  <2> QED BY <2>1, <2>2
<1> DEFINE near(X) == X \cup { e[2] : e \in { w \in Wires(i) : w[1] \in X } }
           u == CHOOSE u : u = [k \in Nat |-> IF k = 0 THEN {Source[i]} ELSE near(u[k - 1])]
<1>13. \A n \in Uses(i) : n \in u[Cardinality(Node)]
  <2>1. \E v : v = [k \in Nat |-> IF k = 0 THEN {Source[i]} ELSE near(v[k - 1])]
    BY UpExists DEF IsUp
  <2>2. u = [k \in Nat |-> IF k = 0 THEN {Source[i]} ELSE near(u[k - 1])]
    BY <2>1
  <2> HIDE DEF u
  <2>3. IsUp(u, i)
    BY <2>2 DEF IsUp
  <2> QED BY <2>3, UsesReached
<1> HIDE DEF t
<1> QED BY <1>7, <1>8, <1>11, <1>12, <1>13, Zenon DEF IsTree

\* Every node of the trace is counted at least once.
LEMMA UsesCounted ==
  ASSUME NEW i \in Net, TypeOK, Done(i, trace[i]), NEW n \in Uses(i)
  PROVE  \E k \in 1 .. Len(trace[i]) : trace[i][k] = n /\ Counted(trace[i])[k]
<1> DEFINE t == trace[i]
<1>1. t \in Seq(Node) /\ ReadUpTo(i, trace[i], Len(t) + 1) /\ t # <<>> /\ t[1] = Source[i]
  BY DEF TypeOK, Done, ReadUpTo
<1>2. CASE n = Source[i]
  <2>1. Counted(t)[1] /\ 1 \in 1 .. Len(t)
    BY <1>1, CountedValue
  <2> QED BY <2>1, <1>1, <1>2
<1>3. CASE n # Source[i]
  <2>4. PICK k \in 2 .. Len(t) : IsWire(t, k) /\ t[k] = n
    BY <1>3, UsedIsWire
  <2>5. Counted(t)[k]
    BY <2>4, <1>1, CountedValue DEF IsWire
  <2> QED BY <2>4, <2>5
<1> QED BY <1>2, <1>3

\* The counts that make up occupancy are numbers.
LEMMA CountsFinite ==
  ASSUME TypeOK, NEW n
  PROVE  /\ IsFiniteSet(Net)
         /\ \A i \in Net :
              LET P == { k \in DOMAIN trace[i] : trace[i][k] = n /\ Counted(trace[i])[k] }
              IN  IsFiniteSet(P) /\ Cardinality(P) \in Nat
         /\ Cardinality({ k \in DOMAIN local : local[k] = n }) \in Nat
<1>1. IsFiniteSet(Net)
  BY CheckAssumption, FS_Interval DEF Net
<1>2. ASSUME NEW q \in Seq(Node), NEW P, P \subseteq DOMAIN q
      PROVE  IsFiniteSet(P) /\ Cardinality(P) \in Nat
  <2>1. Len(q) \in Int /\ DOMAIN q = 1 .. Len(q)
    OBVIOUS
  <2>2. IsFiniteSet(1 .. Len(q))
    BY <2>1, FS_Interval
  <2>3. P \in SUBSET (1 .. Len(q))
    BY <2>1, <1>2
  <2> QED BY <2>2, <2>3, FS_Subset, FS_CardinalityType
<1>3. \A i \in Net : trace[i] \in Seq(Node)
  BY DEF TypeOK
<1>4. local \in Seq(Node)
  BY DEF TypeOK
<1> QED BY <1>1, <1>2, <1>3, <1>4

\* When every net has been walked, what the checker recomputed is the true occupancy.
LEMMA DoneFits ==
  ASSUME TypeOK, \A i \in Net : Done(i, trace[i]), Feasible
  PROVE  WithinCapacity
<1> SUFFICES ASSUME NEW n \in Node
             PROVE  Cardinality({ i \in Net : n \in Uses(i) })
                      + Cardinality({ k \in DOMAIN local : local[k] = n }) <= Capacity[n]
  BY DEF WithinCapacity
<1> DEFINE P(i) == { k \in DOMAIN trace[i] : trace[i][k] = n /\ Counted(trace[i])[k] }
           v == [i \in Net |-> Cardinality(P(i))]
           L == Cardinality({ k \in DOMAIN local : local[k] = n })
           U == { i \in Net : n \in Uses(i) }
           V == { i \in Net : v[i] # 0 }
<1>1. v \in [Net -> Nat] /\ IsFiniteSet(Net) /\ L \in Nat /\ Capacity[n] \in Nat
  <2>1. \A i \in Net : Cardinality(P(i)) \in Nat
    BY CountsFinite
  <2>2. v \in [Net -> Nat]
    BY <2>1
  <2>3. IsFiniteSet(Net) /\ L \in Nat
    BY CountsFinite
  <2> QED BY <2>2, <2>3, CheckAssumption
<1>2. PICK it : IsSum(it, Net, v) /\ Occ(n) = it[Net] + L
  BY <1>1, OccIsSum
<1>3. U \subseteq V
  <2> SUFFICES ASSUME NEW i \in Net, n \in Uses(i)  PROVE Cardinality(P(i)) # 0
    OBVIOUS
  <2>1. PICK k \in 1 .. Len(trace[i]) : trace[i][k] = n /\ Counted(trace[i])[k]
    BY UsesCounted
  <2>2. DOMAIN trace[i] = 1 .. Len(trace[i])
    BY DEF TypeOK
  <2>3. P(i) # {} /\ IsFiniteSet(P(i))
    BY <2>1, <2>2, CountsFinite
  <2> HIDE DEF P
  <2> QED BY <2>3, FS_EmptySet
<1> HIDE DEF v, U, L
<1>4. IsFiniteSet(V) /\ U \in SUBSET V
  <2>1. V \in SUBSET Net
    OBVIOUS
  <2> QED BY <2>1, <1>1, <1>3, FS_Subset
<1>5. Cardinality(U) <= Cardinality(V) /\ Cardinality(U) \in Nat /\ Cardinality(V) \in Nat
  BY <1>4, FS_Subset, FS_CardinalityType
<1>6. it[Net] \in Nat /\ it[Net] >= Cardinality(V)
  BY <1>1, <1>2, SumCounts
<1>7. it[Net] + L <= Capacity[n]
  BY <1>2 DEF Feasible
<1>8. Cardinality(U) + L <= Capacity[n]
  <2> HIDE DEF V
  <2> QED BY <1>1, <1>5, <1>6, <1>7
<1> QED BY <1>8 DEF U, L

-----------------------------------------------------------------------------
(* A trace that lists a tree is read to its end *)

Routed(i) == OneByOne(i) /\ IsTree(i) /\ IsListing(i)

LocalsRight == \A k \in DOMAIN local : local[k] \in Opin /\ OpinClass[local[k]] = 1

Routing == (\A i \in Net : Routed(i)) /\ WithinCapacity /\ LocalsRight

\* The wires that lead to n.
Into(i, n) == { e \in Wires(i) : e[2] = n }

\* In a routing every wire of a trace is an edge, never comes back to the SOURCE, is the
\* only one into its node, and leads to a SINK of the net if to any.
LEMMA OneWayIn ==
  ASSUME NEW i \in Net, TypeOK, Routed(i),
         NEW k \in 2 .. Len(trace[i]), IsWire(trace[i], k)
  PROVE  /\ << trace[i][k - 1], trace[i][k] >> \in Edge
         /\ trace[i][k] # Source[i]
         /\ Into(i, trace[i][k]) = { << trace[i][k - 1], trace[i][k] >> }
         /\ trace[i][k] \in Sink => \E m \in DOMAIN PinSink[i] : PinSink[i][m] = trace[i][k]
<1> DEFINE t == trace[i]
           e == << t[k - 1], t[k] >>
           pins(n) == { m \in DOMAIN PinSink[i] : PinSink[i][m] = n }
<1>1. /\ Wires(i) \subseteq Edge /\ Into(i, Source[i]) = {}
      /\ \A n \in Uses(i) \ (Sink \cup {Source[i]}) : Cardinality(Into(i, n)) = 1
      /\ \A n \in Sink : Cardinality(Into(i, n)) = Cardinality(pins(n))
  BY Zenon DEF Routed, IsTree, Into
<1>2. t \in Seq(Node) /\ e \in Wires(i) /\ e[2] = t[k] /\ t[k] \in Node
  BY WiresInNodes DEF TypeOK
<1>3. t[k] \in Uses(i)
  BY <1>2 DEF Uses, ToSet
<1> HIDE DEF e
<1>4. e \in Into(i, t[k])
  BY <1>2 DEF Into
<1>5. t[k] # Source[i]
  BY <1>1, <1>4
<1>6. IsFiniteSet(Into(i, t[k]))
  <2>1. IsFiniteSet(Node \X Node)
    BY CheckAssumption, FS_Product
  <2>2. Into(i, t[k]) \in SUBSET (Node \X Node)
    BY WiresInNodes DEF Into
  <2> QED BY <2>1, <2>2, FS_Subset
<1>7. Cardinality(Into(i, t[k])) # 0
  BY <1>4, <1>6, FS_EmptySet
<1>8. ASSUME t[k] \in Sink
      PROVE  \E m \in DOMAIN PinSink[i] : pins(t[k]) = {m} /\ PinSink[i][m] = t[k]
  <2>1. pins(t[k]) # {}
    BY <1>1, <1>7, <1>8, FS_EmptySet
  <2>2. PICK m \in DOMAIN PinSink[i] : PinSink[i][m] = t[k]
    BY <2>1
  <2>3. pins(t[k]) = {m}
    BY <2>2 DEF Routed, OneByOne, IsInjective
  <2> QED BY <2>2, <2>3
<1>9. Cardinality(Into(i, t[k])) = 1
  <2>1. CASE t[k] \in Sink
    <3>1. Cardinality(pins(t[k])) = 1
      BY <2>1, <1>8, FS_Singleton
    <3> QED BY <3>1, <2>1, <1>1
  <2>2. CASE t[k] \notin Sink
    BY <2>2, <1>1, <1>3, <1>5
  <2> QED BY <2>1, <2>2
<1>10. Into(i, t[k]) = {e}
  <2>1. PICK x : Into(i, t[k]) = {x}
    BY <1>6, <1>9, FS_Singleton
  <2> QED BY <2>1, <1>4
<1> QED BY <1>1, <1>2, <1>5, <1>8, <1>10 DEF e

\* No two wires of the list lead to the same node.
LEMMA WiresApart ==
  ASSUME NEW i \in Net, TypeOK, Routed(i)
  PROVE  \A j, k \in 2 .. Len(trace[i]) :
           IsWire(trace[i], j) /\ IsWire(trace[i], k) /\ trace[i][j] = trace[i][k] => j = k
<1> DEFINE t == trace[i]
<1>1. \A j, k \in 2 .. Len(t) :
        j < k /\ IsWire(t, j) /\ IsWire(t, k) => << t[j - 1], t[j] >> # << t[k - 1], t[k] >>
  BY DEF Routed, IsListing, IsWire
<1>2. \A j, k \in 2 .. Len(t) :
        IsWire(t, j) /\ IsWire(t, k) /\ t[j] = t[k] => << t[j - 1], t[j] >> = << t[k - 1], t[k] >>
  <2> TAKE j, k \in 2 .. Len(t)
  <2> HAVE IsWire(t, j) /\ IsWire(t, k) /\ t[j] = t[k]
  <2>1. Into(i, t[j]) = { << t[j - 1], t[j] >> }
    BY OneWayIn
  <2>2. Into(i, t[k]) = { << t[k - 1], t[k] >> }
    BY OneWayIn
  <2>3. Into(i, t[j]) = Into(i, t[k])
    OBVIOUS
  <2> HIDE DEF t
  <2> QED BY <2>1, <2>2, <2>3
<1> QED BY <1>1, <1>2

\* A routed net passes the walk along its trace.
LEMMA RoutedIsDone ==
  ASSUME NEW i \in Net, TypeOK, Routed(i)
  PROVE  Done(i, trace[i])
<1> DEFINE t == trace[i]
           p == Len(t) + 1
<1>1. t \in Seq(Node) /\ p - 1 = Len(t) /\ Len(t) \in Nat
  BY DEF TypeOK
<1>2. /\ t # <<>> /\ t[1] = Source[i]
      /\ \A k \in 2 .. Len(t) : ~IsWire(t, k) => t[k] \notin Sink /\ t[k] \in Before(t, k)
  BY DEF Routed, IsListing, IsWire, Before
<1>3. \A j, k \in 2 .. Len(t) : IsWire(t, j) /\ IsWire(t, k) /\ t[j] = t[k] => j = k
  BY WiresApart
<1>4. ASSUME NEW k \in 2 .. Len(t), IsWire(t, k)
      PROVE  t[k] \notin Before(t, k)
  <2> SUFFICES ASSUME t[k] \in Before(t, k)  PROVE FALSE
    OBVIOUS
  <2> DEFINE P == {l \in Nat : l \in 1 .. k - 1 /\ t[l] = t[k]}
  <2>1. P \in SUBSET Nat /\ P # {}
    BY DEF Before
  <2>2. PICK l \in P : \A j \in P : l <= j
    <3> HIDE DEF P
    <3> QED BY <2>1, Least
  <2>3. l \in 1 .. k - 1 /\ t[l] = t[k]
    OBVIOUS
  <2>4. l # 1
    <3>1. t[k] # Source[i]
      BY <1>4, OneWayIn
    <3> QED BY <3>1, <2>3, <1>2
  <2>5. l \in 2 .. Len(t) /\ l # k
    BY <2>3, <2>4, <1>1
  <2>6. ~IsWire(t, l)
    BY <2>3, <2>5, <1>3, <1>4
  <2>7. PICK j \in 1 .. l - 1 : t[j] = t[l]
    BY <2>5, <2>6, <1>2 DEF Before
  <2>8. j \in P /\ j < l
    BY <2>7, <2>3
  <2> QED BY <2>8, <2>2, <2>3
<1>5. ReadUpTo(i, t, p)
  <2>1. \A k \in 2 .. Len(t) : IsWire(t, k) =>
       /\ << t[k - 1], t[k] >> \in Edge
       /\ t[k] \notin Before(t, k)
       /\ t[k] \in Sink => \E m \in DOMAIN PinSink[i] : PinSink[i][m] = t[k]
    BY <1>4, OneWayIn
  <2> HIDE DEF t, p
  <2> QED BY <1>1, <1>2, <1>3, <2>1 DEF ReadUpTo
<1>6. \A m \in DOMAIN PinSink[i] : \E k \in 2 .. Len(t) : IsWire(t, k) /\ t[k] = PinSink[i][m]
  <2> TAKE m \in DOMAIN PinSink[i]
  <2> DEFINE n == PinSink[i][m]
             pins == { q \in DOMAIN PinSink[i] : PinSink[i][q] = n }
  <2>1. n \in Sink
    BY CheckAssumption
  <2>2. Cardinality(Into(i, n)) = Cardinality(pins)
    BY <2>1, Zenon DEF Routed, IsTree, Into
  <2>3. pins = {m}
    BY DEF Routed, OneByOne, IsInjective
  <2>4. Cardinality(Into(i, n)) = 1
    BY <2>2, <2>3, FS_Singleton
  <2>5. Into(i, n) # {}
    BY <2>4, FS_EmptySet
  <2> QED BY <2>5 DEF Into, Wires, IsWire
<1>7. PinsUpTo(i, t, p) = DOMAIN PinSink[i]
  BY <1>1, <1>6 DEF PinsUpTo
<1> QED BY <1>5, <1>7 DEF Done

\* No hook counts, if no SINK comes right after a hook.
LEMMA CountedOnce ==
  ASSUME NEW i \in Net, TypeOK, Routed(i)
  PROVE  /\ ~RunsOff(trace[i])
         /\ \A j, k \in DOMAIN trace[i] :
              /\ Counted(trace[i])[j] /\ Counted(trace[i])[k]
              /\ trace[i][j] = trace[i][k]
              => j = k
<1> DEFINE t == trace[i]
           C == Counted(t)
<1>1. t \in Seq(Node) /\ Len(t) \in Nat /\ DOMAIN t = 1 .. Len(t) /\ Last(t) = t[Len(t)]
  BY DEF TypeOK, Last
<1>2. /\ t # <<>> /\ t[1] = Source[i] /\ Source[i] \notin Sink /\ Last(t) \in Sink
      /\ \A k \in 2 .. Len(t) : t[k - 1] \in Sink => t[k] \notin Sink
  BY CheckAssumption DEF Routed, IsListing
<1>3. /\ C[1]
      /\ \A k \in 2 .. Len(t) : C[k] <=> ~(C[k - 1] /\ t[k - 1] \in Sink)
  BY <1>1, <1>2, CountedValue
<1> HIDE DEF C
<1>4. ASSUME NEW k \in 2 .. Len(t), C[k]  PROVE IsWire(t, k)
  <2> SUFFICES ASSUME t[k - 1] \in Sink  PROVE FALSE
    BY DEF IsWire
  <2>1. ~C[k - 1]
    BY <1>3, <1>4
  <2>2. k - 1 \in 2 .. Len(t)
    BY <2>1, <1>3, <1>1
  <2>3. t[(k - 1) - 1] \in Sink
    BY <2>1, <2>2, <1>3
  <2> QED BY <2>2, <2>3, <1>2
<1>5. C[Len(t)]
  <2>1. Len(t) # 1
    BY <1>1, <1>2
  <2>2. Len(t) \in 2 .. Len(t)
    BY <1>1, <1>2, <2>1
  <2>3. t[Len(t) - 1] \notin Sink
    BY <1>1, <1>2, <2>2
  <2> QED BY <1>3, <2>2, <2>3
<1>6. ~RunsOff(t)
  BY <1>2, <1>5 DEF RunsOff, C
<1>7. ASSUME NEW k \in 2 .. Len(t), C[k]  PROVE t[k] # t[1]
  <2>1. t[k] # Source[i]
    BY <1>4, <1>7, OneWayIn
  <2> QED BY <2>1, <1>2
<1>8. \A j, k \in 2 .. Len(t) : C[j] /\ C[k] /\ t[j] = t[k] => j = k
  BY <1>4, WiresApart
<1>9. \A j, k \in DOMAIN t : C[j] /\ C[k] /\ t[j] = t[k] => j = k
  <2>1. \A k \in DOMAIN t : k = 1 \/ k \in 2 .. Len(t)
    BY <1>1
  <2> QED BY <2>1, <1>7, <1>8, Zenon
<1> QED BY <1>6, <1>9 DEF C

\* In a routing the recomputed occupancy fits the capacities.
LEMMA RoutingFits ==
  ASSUME TypeOK, Routing
  PROVE  Feasible
<1> SUFFICES ASSUME NEW n \in Node  PROVE Occ(n) <= Capacity[n]
  BY DEF Feasible
<1> DEFINE P(i) == { k \in DOMAIN trace[i] : trace[i][k] = n /\ Counted(trace[i])[k] }
           v == [i \in Net |-> Cardinality(P(i))]
           L == Cardinality({ k \in DOMAIN local : local[k] = n })
           U == { i \in Net : n \in Uses(i) }
           V == { i \in Net : v[i] # 0 }
<1>1. v \in [Net -> Nat] /\ IsFiniteSet(Net) /\ L \in Nat /\ Capacity[n] \in Nat
  <2>1. \A i \in Net : Cardinality(P(i)) \in Nat
    BY CountsFinite
  <2>2. v \in [Net -> Nat]
    BY <2>1
  <2>3. IsFiniteSet(Net) /\ L \in Nat
    BY CountsFinite
  <2> QED BY <2>2, <2>3, CheckAssumption
<1>2. PICK it : IsSum(it, Net, v) /\ Occ(n) = it[Net] + L
  BY <1>1, OccIsSum
<1>3. ASSUME NEW i \in Net  PROVE v[i] <= 1 /\ (v[i] # 0 => n \in Uses(i))
  <2>1. \A j, k \in P(i) : j = k
    BY CountedOnce DEF Routing
  <2>2. P(i) = {} \/ \E k \in P(i) : P(i) = {k}
    <3> HIDE DEF P
    <3> QED BY <2>1
  <2>3. v[i] \in {0, 1} /\ (v[i] # 0 => P(i) # {})
    <3> HIDE DEF P
    <3> QED BY <2>2, FS_EmptySet, FS_Singleton
  <2>4. P(i) # {} => n \in Uses(i)
    BY DEF Uses, ToSet
  <2> HIDE DEF v, P
  <2> QED BY <2>3, <2>4
<1>4. Cardinality(U) + L <= Capacity[n]
  BY DEF Routing, WithinCapacity
<1> HIDE DEF v, U, L
<1>5. it[Net] \in Nat /\ it[Net] = Cardinality(V)
  BY <1>1, <1>2, <1>3, SumCounts
<1>6. V \in SUBSET U
  BY <1>3 DEF U
<1>7. IsFiniteSet(U)
  <2>1. U \in SUBSET Net
    BY DEF U
  <2> QED BY <2>1, <1>1, FS_Subset
<1>8. Cardinality(V) <= Cardinality(U) /\ Cardinality(V) \in Nat /\ Cardinality(U) \in Nat
  <2>1. IsFiniteSet(V)
    BY <1>6, <1>7, FS_Subset
  <2> HIDE DEF V
  <2> QED BY <2>1, <1>6, <1>7, FS_Subset, FS_CardinalityType
<1> HIDE DEF V
<1> QED BY <1>1, <1>2, <1>4, <1>5, <1>8

-----------------------------------------------------------------------------
(* The invariant is inductive *)

\* Feasible as an operator on a routing.
FeasibleFor(tr, loc) ==
  \A n \in Node :
    LET uses(i) == Cardinality({ k \in DOMAIN tr[i] : tr[i][k] = n /\ Counted(tr[i])[k] })
    IN  MapThenSumSet(uses, Net) + Cardinality({ k \in DOMAIN loc : loc[k] = n }) <= Capacity[n]

\* The routing that is checked does not change.
LEMMA SameInput ==
  ASSUME UNCHANGED input
  PROVE  trace' = trace /\ local' = local /\ (Feasible => Feasible')
<1>1. trace' = trace /\ local' = local
  BY DEF input
<1>2. Feasible <=> FeasibleFor(trace, local)
  BY Zenon DEF Feasible, Occ, FeasibleFor, MapThenSumSet, MapThenFoldSet
<1>3. Feasible' <=> FeasibleFor(trace', local')
  BY Zenon DEF Feasible, Occ, FeasibleFor, MapThenSumSet, MapThenFoldSet
<1> QED BY <1>1, <1>2, <1>3

\* The invariant holds at the start and is kept by every step of the checker, element by
\* element of the traces.
LEMMA InitIInv == Init => IInv
<1> SUFFICES ASSUME Init  PROVE IInv
  OBVIOUS
<1>1. TypeOK
  BY CheckAssumption DEF Init, TypeOK, Net
<1>2. Reading /\ NetsDone /\ Fits
  BY DEF Init, Reading, NetsDone, Fits
<1> QED BY <1>1, <1>2 DEF IInv

\* The steps before the traces are read, and those that end the check.
LEMMA OtherIInv ==
  ASSUME IInv, Recount \/ CheckLocal \/ LocalsChecked \/ UNCHANGED vars
  PROVE  IInv'
<1>1. UNCHANGED input /\ UNCHANGED << inet, pos, connected, pinDone >>
  BY DEF Recount, CheckLocal, LocalsChecked, vars, input, netVars
<1>2. trace' = trace /\ local' = local /\ T' = T
  BY <1>1 DEF input, T
<1>3. \/ pc' = pc
      \/ pc' \in {"error", "crashed"}
      \/ pc = "recount" /\ pc' = "opins" /\ Feasible
      \/ pc = "opins" /\ pc' = "net"
  BY DEF Recount, CheckLocal, LocalsChecked, vars
<1>4. ipin' \in Nat
  <2>1. ipin \in Nat
    BY DEF IInv, TypeOK
  <2>2. CASE CheckLocal
    <3>1. IsRight(local[ipin + 1]) => Ptc[local[ipin + 1]] + 1 \in Nat
      BY CheckAssumption DEF IsRight
    <3> QED BY <2>1, <2>2, <3>1 DEF CheckLocal
  <2>3. CASE ~CheckLocal
    BY <2>1, <2>3 DEF Recount, LocalsChecked, vars
  <2> QED BY <2>2, <2>3
<1>5. TypeOK'
  BY <1>1, <1>2, <1>3, <1>4 DEF IInv, TypeOK, Ended
<1>6. Reading'
  BY <1>1, <1>2, <1>3 DEF IInv, Reading
<1>7. NetsDone'
  BY <1>1, <1>2, <1>3 DEF IInv, NetsDone, Reading
<1>8. Fits'
  <2>1. pc' \in {"opins", "net", "legal"} => Feasible
    BY <1>3 DEF IInv, Fits
  <2> QED BY <2>1, <1>1, SameInput DEF Fits
<1> QED BY <1>5, <1>6, <1>7, <1>8 DEF IInv

\* The first element of a net.
LEMMA CheckSourceIInv == ASSUME IInv, CheckSource PROVE IInv'
<1>1. /\ pc = "net" /\ pos = 1 /\ inet \in Net /\ inet' = inet /\ ipin' = ipin
      /\ UNCHANGED input /\ connected = {} /\ pinDone' = {}
  BY DEF CheckSource, IInv, TypeOK, Reading
<1>2. T' = T /\ trace' = trace /\ T \in Seq(Node)
  BY <1>1, SameInput DEF T, IInv, TypeOK
<1>3. \/ T # <<>> /\ T[1] = Source[inet] /\ connected' = {T[1]} /\ pos' = 2 /\ pc' = "net"
      \/ pc' = "error" /\ connected' = {} /\ pos' = 1
  BY <1>1 DEF CheckSource
<1>4. TypeOK'
  BY <1>1, <1>3, SameInput DEF IInv, TypeOK, Ended
<1>5. Reading'
  <2> SUFFICES ASSUME pc' = "net"
               PROVE  /\ pos' <= Len(T) + 1 /\ ReadUpTo(inet, T, pos') /\ pos' # 1
                      /\ connected' = Before(T, pos') /\ pinDone' = PinsUpTo(inet, T, pos')
    BY <1>1, <1>2, <1>3 DEF Reading
  <2>1. T # <<>> /\ T[1] = Source[inet] /\ connected' = {T[1]} /\ pos' = 2
    BY <1>3
  <2>2. Before(T, 2) = {T[1]} /\ PinsUpTo(inet, T, 2) = {} /\ ReadUpTo(inet, T, 2)
    BY <2>1 DEF Before, PinsUpTo, ReadUpTo
  <2>3. 2 <= Len(T) + 1
    BY <1>2, <2>1
  <2> QED BY <1>1, <2>1, <2>2, <2>3
<1>6. NetsDone'
  BY <1>1, <1>2, <1>3 DEF IInv, NetsDone
<1>7. Fits'
  BY <1>1, <1>3, SameInput DEF IInv, Fits
<1> QED BY <1>4, <1>5, <1>6, <1>7 DEF IInv

\* What a step that reads element pos has to show.
LEMMA ReadIInv ==
  ASSUME IInv, pc = "net", pos \in 2 .. Len(T),
         UNCHANGED << input, ipin, inet >>,
         \/ pc' = "error"
         \/ /\ pc' = pc /\ pos' = pos + 1
            /\ ReadUpTo(inet, T, pos + 1)
            /\ connected' = Before(T, pos + 1)
            /\ pinDone' = PinsUpTo(inet, T, pos + 1),
         pos' \in {pos, pos + 1}
  PROVE  IInv'
<1>1. T' = T /\ trace' = trace /\ local' = local /\ ipin' = ipin /\ inet' = inet /\ UNCHANGED input
  BY SameInput DEF T
<1>2. T \in Seq(Node) /\ pos \in Nat /\ pos >= 2
  BY DEF T, IInv, TypeOK
<1>3. TypeOK'
  BY <1>1, <1>2 DEF IInv, TypeOK, Ended
<1>4. Reading'
  BY <1>1, <1>2 DEF Reading
<1>5. NetsDone'
  BY <1>1 DEF IInv, NetsDone
<1>6. Fits'
  BY <1>1, SameInput DEF IInv, Fits
<1> QED BY <1>3, <1>4, <1>5, <1>6 DEF IInv

\* One more element has been read: the sets of elements and of pins before it.
LEMMA OneMore ==
  ASSUME NEW i \in Net, NEW t \in Seq(Node), NEW p \in 2 .. Len(t)
  PROVE  /\ Before(t, p + 1) = Before(t, p) \cup {t[p]}
         /\ PinsUpTo(i, t, p + 1) =
              PinsUpTo(i, t, p) \cup
                { m \in DOMAIN PinSink[i] : IsWire(t, p) /\ t[p] = PinSink[i][m] }
         /\ \A k : k \in 2 .. (p + 1) - 1 <=> k \in 2 .. p - 1 \/ k = p
<1>1. p \in Nat /\ (p + 1) - 1 = p /\ p >= 2
  OBVIOUS
<1>2. \A k : k \in 2 .. (p + 1) - 1 <=> k \in 2 .. p - 1 \/ k = p
  BY <1>1
<1>3. \A k : k \in 1 .. (p + 1) - 1 <=> k \in 1 .. p - 1 \/ k = p
  BY <1>1
<1>4. Before(t, p + 1) = Before(t, p) \cup {t[p]}
  BY <1>3 DEF Before
<1>5. PinsUpTo(i, t, p + 1) =
        PinsUpTo(i, t, p) \cup
          { m \in DOMAIN PinSink[i] : IsWire(t, p) /\ t[p] = PinSink[i][m] }
  BY <1>2 DEF PinsUpTo
<1> QED BY <1>2, <1>4, <1>5

\* A branch, which must start at a node of the net walked before.
LEMMA HookIInv == ASSUME IInv, Hook PROVE IInv'
<1>1. /\ pc = "net" /\ pos \in 2 .. Len(T) /\ T[pos - 1] \in Sink /\ inet \in Net
      /\ UNCHANGED << input, ipin, inet, connected, pinDone >>
  BY DEF Hook, IInv, TypeOK
<1>2. T \in Seq(Node)
  BY <1>1 DEF T, IInv, TypeOK
<1>3. ReadUpTo(inet, T, pos) /\ connected = Before(T, pos) /\ pinDone = PinsUpTo(inet, T, pos)
  BY <1>1 DEF IInv, Reading
<1>4. CASE T[pos] \in connected
  <2>1. pos' = pos + 1 /\ pc' = pc
    BY <1>4 DEF Hook
  <2>2. Before(T, pos + 1) = connected /\ PinsUpTo(inet, T, pos + 1) = pinDone
    <3>1. ~IsWire(T, pos) /\ T[pos] \in Before(T, pos)
      BY <1>1, <1>3, <1>4 DEF IsWire
    <3>2. Before(T, pos + 1) = Before(T, pos) \cup {T[pos]}
      BY <1>1, <1>2, OneMore
    <3>3. PinsUpTo(inet, T, pos + 1) =
            PinsUpTo(inet, T, pos) \cup
              { m \in DOMAIN PinSink[inet] : IsWire(T, pos) /\ T[pos] = PinSink[inet][m] }
      BY <1>1, <1>2, OneMore
    <3>4. { m \in DOMAIN PinSink[inet] : IsWire(T, pos) /\ T[pos] = PinSink[inet][m] } = {}
      BY <3>1
    <3>5. Before(T, pos + 1) = connected
      BY <3>1, <3>2, <1>3, Zenon
    <3>6. PinsUpTo(inet, T, pos + 1) = pinDone
      BY <3>3, <3>4, <1>3
    <3> QED BY <3>5, <3>6
  <2>3. ReadUpTo(inet, T, pos + 1)
    <3>1. ~IsWire(T, pos) /\ T[pos] \in Before(T, pos)
      BY <1>1, <1>3, <1>4 DEF IsWire
    <3>2. \A k : k \in 2 .. (pos + 1) - 1 <=> k \in 2 .. pos - 1 \/ k = pos
      BY <1>1, <1>2, OneMore
    <3> QED BY <3>1, <3>2, <1>3, Zenon DEF ReadUpTo
  <2> QED BY <1>1, <2>1, <2>2, <2>3, ReadIInv
<1>5. CASE T[pos] \notin connected
  <2>1. pos' = pos /\ pc' = "error"
    BY <1>5 DEF Hook
  <2> QED BY <1>1, <2>1, ReadIInv
<1> QED BY <1>4, <1>5

\* An element reached over a wire.
LEMMA ElementIInv == ASSUME IInv, Element PROVE IInv'
<1>1. /\ pc = "net" /\ pos \in 2 .. Len(T) /\ IsWire(T, pos) /\ inet \in Net
      /\ UNCHANGED << input, ipin, inet >>
  BY DEF Element, IInv, TypeOK, IsWire
<1>2. T \in Seq(Node)
  BY <1>1 DEF T, IInv, TypeOK
<1>3. ReadUpTo(inet, T, pos) /\ connected = Before(T, pos) /\ pinDone = PinsUpTo(inet, T, pos)
  BY <1>1 DEF IInv, Reading
<1> DEFINE ok == IsNew /\ (T[pos] \in Sink => SinkAccepted(T[pos]))
<1>4. CASE ok
  <2>1. /\ pos' = pos + 1 /\ pc' = pc /\ connected' = connected \cup {T[pos]}
        /\ pinDone' = pinDone \cup (IF T[pos] \in Sink THEN Reached(T[pos]) ELSE {})
    BY <1>4 DEF Element
  <2>2. PinSink[inet] \in Seq(Sink)
    BY <1>1, CheckAssumption
  <2>3. \A m \in DOMAIN PinSink[inet] : PinSink[inet][m] \in Sink
    BY <2>2
  <2>4. connected' = Before(T, pos + 1)
    BY <1>1, <1>2, <1>3, <2>1, OneMore
  <2>5. pinDone' = PinsUpTo(inet, T, pos + 1)
    <3>1. PinsUpTo(inet, T, pos + 1) =
            pinDone \cup { m \in DOMAIN PinSink[inet] : T[pos] = PinSink[inet][m] }
      BY <1>1, <1>2, <1>3, OneMore
    <3> QED BY <2>1, <2>3, <3>1 DEF Reached
  <2>6. /\ << T[pos - 1], T[pos] >> \in Edge
        /\ T[pos] \in Before(T, pos) => T[pos] \in Sink
        /\ T[pos] \in Sink => \E m \in DOMAIN PinSink[inet] :
                                PinSink[inet][m] = T[pos] /\ m \notin pinDone
    BY <1>3, <1>4 DEF IsNew, SinkAccepted, Reached
  <2>7. \A j \in 2 .. pos - 1 : IsWire(T, j) => T[j] # T[pos]
    <3> SUFFICES ASSUME NEW j \in 2 .. pos - 1, IsWire(T, j), T[j] = T[pos]  PROVE FALSE
      OBVIOUS
    <3>1. T[pos] \in Before(T, pos)
      BY <1>1 DEF Before
    <3>2. PICK m \in DOMAIN PinSink[inet] : PinSink[inet][m] = T[pos] /\ m \notin pinDone
      BY <2>6, <3>1
    <3>3. m \in PinsUpTo(inet, T, pos)
      BY <3>2 DEF PinsUpTo
    <3> QED BY <3>2, <3>3, <1>3
  <2>8. \A k : k \in 2 .. (pos + 1) - 1 <=> k \in 2 .. pos - 1 \/ k = pos
    BY <1>1, <1>2, OneMore
  <2>9. ReadUpTo(inet, T, pos + 1)
    BY <2>6, <2>7, <2>8, <1>1, <1>3, Zenon DEF ReadUpTo
  <2> QED BY <1>1, <2>1, <2>4, <2>5, <2>9, ReadIInv
<1>5. CASE ~ok
  <2>1. pos' = pos /\ pc' = "error"
    BY <1>5 DEF Element
  <2> QED BY <1>1, <2>1, ReadIInv
<1> QED BY <1>4, <1>5

\* The end of a net.
LEMMA NetDoneIInv == ASSUME IInv, NetDone PROVE IInv'
<1>1. /\ pc = "net" /\ pos > 1 /\ pos > Len(T) /\ inet \in Net /\ ipin' = ipin
      /\ UNCHANGED input /\ connected' = connected \ ToSet(T)
  BY DEF NetDone, IInv, TypeOK
<1>2. T' = trace[inet'] /\ trace' = trace /\ T \in Seq(Node) /\ T = trace[inet]
  BY <1>1, SameInput DEF T, IInv, TypeOK
<1>3. /\ pos = Len(T) + 1 /\ ReadUpTo(inet, T, pos)
      /\ connected = Before(T, pos) /\ pinDone = PinsUpTo(inet, T, pos)
  BY <1>1, <1>2 DEF IInv, Reading, TypeOK
<1>4. \/ pc' = "error" /\ UNCHANGED << inet, pos >>
      \/ /\ pinDone = DOMAIN PinSink[inet]
         /\ \/ inet = NumNets /\ pc' = "legal" /\ UNCHANGED << inet, pos >>
            \/ inet # NumNets /\ inet' = inet + 1 /\ pos' = 1 /\ pc' = "net"
  BY <1>1 DEF NetDone, AllPins
<1>5. connected' = {}
  <2>1. DOMAIN T = 1 .. Len(T) /\ pos - 1 = Len(T)
    BY <1>2, <1>3
  <2> QED BY <2>1, <1>1, <1>3 DEF Before, ToSet
<1>6. inet # NumNets => inet + 1 \in Net
  BY <1>1, CheckAssumption DEF Net
<1>7. TypeOK'
  BY <1>1, <1>4, <1>6, SameInput DEF IInv, TypeOK, Ended
<1>8. Reading'
  BY <1>4, <1>5 DEF Reading
<1>9. pc' # "error" => \A i \in 1 .. inet : Done(i, trace[i])
  <2>1. pc' # "error" => Done(inet, trace[inet])
    BY <1>2, <1>3, <1>4 DEF Done
  <2>2. \A i \in 1 .. inet - 1 : Done(i, trace[i])
    BY <1>1 DEF IInv, NetsDone
  <2>3. \A i \in 1 .. inet : i \in 1 .. inet - 1 \/ i = inet
    BY <1>1 DEF Net
  <2> QED BY <2>1, <2>2, <2>3
<1>10. NetsDone'
  <2>1. inet \in Int /\ (inet + 1) - 1 = inet
    BY <1>1 DEF Net
  <2> QED BY <1>2, <1>4, <1>9, <2>1 DEF NetsDone, Net
<1>11. Fits'
  BY <1>1, <1>4, SameInput DEF IInv, Fits
<1> QED BY <1>7, <1>8, <1>10, <1>11 DEF IInv

\* Every step keeps it.
LEMMA NextIInv == IInv /\ [Next]_vars => IInv'
  BY OtherIInv, CheckSourceIInv, HookIInv, ElementIInv, NetDoneIInv DEF Next, Step, Stopped

\* It is an invariant.
LEMMA AlwaysIInv == Spec => []IInv
  BY InitIInv, NextIInv, PTL DEF Spec

-----------------------------------------------------------------------------
(* No step turns a routing away *)

\* IsTree, as an operator on a trace.
TreeOf(i, t) ==
  LET wires == { << t[k - 1], t[k] >> : k \in { j \in 2 .. Len(t) : t[j - 1] \notin Sink } }
      into(n) == { e \in wires : e[2] = n }
      up[k \in Nat] ==
        IF k = 0 THEN {Source[i]}
        ELSE LET near == up[k - 1]
             IN  near \cup { e[2] : e \in { w \in wires : w[1] \in near } }
      pins(n) == { k \in DOMAIN PinSink[i] : PinSink[i][k] = n }
  IN  /\ wires \subseteq Edge
      /\ into(Source[i]) = {}
      /\ \A n \in ToSet(t) \ (Sink \cup {Source[i]}) : Cardinality(into(n)) = 1
      /\ \A n \in ToSet(t) : n \in up[Cardinality(Node)]
      /\ \A n \in Sink : Cardinality(into(n)) = Cardinality(pins(n))

\* The checker changes nothing of what it checks.
LEMMA SameRouting ==
  ASSUME UNCHANGED input, Routing'
  PROVE  Routing
<1>1. trace' = trace /\ local' = local
  BY DEF input
<1>2. ASSUME NEW i \in Net  PROVE IsTree(i) <=> TreeOf(i, trace[i])
  BY Zenon DEF IsTree, TreeOf, Wires, Uses
<1>3. ASSUME NEW i \in Net  PROVE IsTree(i)' <=> TreeOf(i, trace'[i])
  BY Zenon DEF IsTree, TreeOf, Wires, Uses
<1>4. ASSUME NEW i \in Net  PROVE IsTree(i)
  <2>1. IsTree(i)'
    BY <1>4 DEF Routing, Routed
  <2> QED BY <2>1, <1>1, <1>2, <1>3, Zenon
<1>5. ASSUME NEW i \in Net  PROVE OneByOne(i) /\ IsListing(i)
  <2>1. OneByOne(i)' /\ IsListing(i)'
    BY <1>5 DEF Routing, Routed
  <2>2. OneByOne(i)
    BY <2>1 DEF OneByOne
  <2>3. IsListing(i)
    BY <2>1, <1>1 DEF IsListing
  <2> QED BY <2>2, <2>3
<1>6. WithinCapacity
  BY <1>1 DEF Routing, WithinCapacity, Uses
<1>7. LocalsRight
  BY <1>1 DEF Routing, LocalsRight
<1> QED BY <1>4, <1>5, <1>6, <1>7 DEF Routing, Routed

\* While a routing is looked at, the part that has been read bears the marks of
\* what it is, so that the next element passes.
LEMMA RoutingPasses ==
  ASSUME IInv, Routing, Step, pc \notin Ended
  PROVE  pc' \notin {"error", "crashed"}
<1>1. TypeOK /\ Reading /\ Fits
  BY DEF IInv
<1>2. inet \in Net /\ T = trace[inet] /\ T \in Seq(Node)
  BY <1>1 DEF TypeOK, T
<1>3. Done(inet, T) /\ Routed(inet)
  BY <1>1, <1>2, RoutedIsDone DEF Routing
<1>4. Len(T) \in Nat /\ Len(T) >= 1 /\ (Len(T) + 1) - 1 = Len(T)
  BY <1>2, <1>3 DEF Done, ReadUpTo
<1>5. CASE Recount
  <2>1. \A i \in Net : ~RunsOff(trace[i])
    BY <1>1, CountedOnce DEF Routing
  <2> QED BY <2>1, <1>1, <1>5, RoutingFits DEF Recount
<1>6. CASE CheckLocal
  <2>1. local \in Seq(Node) /\ ipin \in Nat /\ ipin < Len(local)
    BY <1>1, <1>6 DEF TypeOK, CheckLocal
  <2>2. ipin + 1 \in DOMAIN local
    BY <2>1
  <2>3. IsRight(local[ipin + 1])
    BY <2>2 DEF Routing, LocalsRight, IsRight
  <2> QED BY <2>3, <1>6 DEF CheckLocal, Ended
<1>7. CASE LocalsChecked
  BY <1>7 DEF LocalsChecked
<1>8. CASE CheckSource
  BY <1>3, <1>8 DEF CheckSource, Done, ReadUpTo, Ended
<1>9. CASE Hook
  <2>1. /\ pc = "net" /\ pos \in 2 .. Len(T) /\ ~IsWire(T, pos)
        /\ connected = Before(T, pos)
    BY <1>1, <1>9 DEF Hook, Reading, IsWire
  <2>2. T[pos] \in connected
    BY <2>1, <1>3, <1>4 DEF Done, ReadUpTo
  <2> QED BY <2>2, <1>9 DEF Hook, Ended
<1>10. CASE Element
  <2>1. /\ pc = "net" /\ pos \in 2 .. Len(T) /\ IsWire(T, pos)
        /\ connected = Before(T, pos) /\ pinDone = PinsUpTo(inet, T, pos)
    BY <1>1, <1>10 DEF Element, Reading, IsWire
  <2>2. /\ << T[pos - 1], T[pos] >> \in Edge
        /\ T[pos] \in Before(T, pos) => T[pos] \in Sink
        /\ T[pos] \in Sink => \E m \in DOMAIN PinSink[inet] : PinSink[inet][m] = T[pos]
    BY <2>1, <1>3, <1>4 DEF Done, ReadUpTo
  <2>3. IsNew
    BY <2>1, <2>2 DEF IsNew
  <2>4. ASSUME T[pos] \in Sink  PROVE SinkAccepted(T[pos])
    <3>1. PICK m \in DOMAIN PinSink[inet] : PinSink[inet][m] = T[pos]
      BY <2>2, <2>4
    <3>2. m \notin pinDone
      <4> SUFFICES ASSUME NEW k \in 2 .. pos - 1, IsWire(T, k), T[k] = T[pos]  PROVE FALSE
        BY <2>1, <3>1 DEF PinsUpTo
      <4>1. k \in 2 .. Len(T) /\ k # pos
        BY <2>1, <1>4
      <4> QED BY <4>1, <2>1, <1>1, <1>2, <1>3, WiresApart
    <3>3. Reached(T[pos]) = {m}
      BY <3>1, <3>2, <1>3 DEF Reached, Routed, OneByOne, IsInjective
    <3> QED BY <3>3, FS_Singleton DEF SinkAccepted
  <2> QED BY <2>3, <2>4, <1>10 DEF Element, Ended
<1>11. CASE NetDone
  <2>1. pc = "net" /\ pos > 1 /\ pos > Len(T)
    BY <1>11 DEF NetDone
  <2>2. pos = Len(T) + 1 /\ pinDone = PinsUpTo(inet, T, pos)
    BY <2>1, <1>1, <1>4 DEF Reading, TypeOK
  <2>3. Last(T) \in Sink
    BY <1>2, <1>3 DEF Routed, IsListing
  <2>4. AllPins
    BY <2>2, <2>3, <1>3 DEF AllPins, Done
  <2> QED BY <2>4, <1>11 DEF NetDone, Ended
<1> QED BY <1>5, <1>6, <1>7, <1>8, <1>9, <1>10, <1>11 DEF Step

-----------------------------------------------------------------------------
(* Theorems *)

\* The checker stays within the nets and the list of OPINs it is given.
THEOREM Typed == Spec => []TypeOK
  BY AlwaysIInv, PTL DEF IInv

\* What check_route accepts is a routing, for every device, every set of nets
\* and every trace it may be given.
THEOREM AcceptsRoutingsOnly == Spec => []AcceptedIsRouting
<1>1. IInv => AcceptedIsRouting
  <2> SUFFICES ASSUME IInv, pc = "legal"
               PROVE  (\A i \in Net : OneByOne(i) => IsTree(i)) /\ WithinCapacity
    BY DEF AcceptedIsRouting
  <2>1. TypeOK /\ Feasible /\ \A i \in Net : Done(i, trace[i])
    BY DEF IInv, NetsDone, Fits
  <2> QED BY <2>1, DoneIsTree, DoneFits
<1> QED BY <1>1, AlwaysIInv, PTL

\* check_route turns no routing away and does not crash on one, whatever the
\* device, the nets and the order in which the trace lists the branches.
THEOREM RoutingsPass == Spec => []RoutingIsAccepted
<1> DEFINE A == pc \in {"error", "crashed"} => ~Routing
<1>1. A <=> RoutingIsAccepted
  BY DEF Routing, Routed, LocalsRight, RoutingIsAccepted
<1>2. Init => A
  BY DEF Init
<1>3. ASSUME IInv, A, [Next]_vars  PROVE A'
  <2> SUFFICES ASSUME pc' \in {"error", "crashed"}, Routing'  PROVE FALSE
    OBVIOUS
  <2>1. UNCHANGED input
    BY <1>3 DEF Next, Step, Recount, CheckLocal, LocalsChecked, CheckSource, Hook, Element,
                NetDone, Stopped, vars
  <2>2. Routing
    BY <2>1, SameRouting
  <2>3. pc \notin {"error", "crashed"}
    BY <2>2, <1>3
  <2>4. Step /\ pc \notin Ended
    BY <2>3, <1>3 DEF Next, Step, Stopped, vars, Ended, Recount, CheckLocal, LocalsChecked,
                      CheckSource, Hook, Element, NetDone
  <2> QED BY <2>2, <2>4, <1>3, RoutingPasses
<1> HIDE DEF A
<1>4. Spec => []A
  BY <1>2, <1>3, AlwaysIInv, PTL DEF Spec
<1> QED BY <1>1, <1>4, PTL
=============================================================================
