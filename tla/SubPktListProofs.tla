-------------------------- MODULE SubPktListProofs --------------------------
(***************************************************************************)
(* What SubPktList promises, for any number of nodes and packets of any    *)
(* sizes: the list ends and stays in ascending order however its nodes are *)
(* linked, what is copied out of it ascends, and it is the set of sub ids  *)
(* that RudpReassembly takes it for.                                       *)
(***************************************************************************)
EXTENDS SubPktList, Integers, SequenceTheorems, TLAPS

----------------------------------------------------------------------------
(***************************************************************************)
(* Lists.                                                                  *)
(***************************************************************************)
\* A chain holds its first node, and the next of each of its nodes.
LEMMA ChainHolds ==
    ASSUME NEW N, NULL \notin N, NEW nx \in [N -> N \cup {NULL}], NEW x \in N \cup {NULL}
    PROVE  /\ Chain(nx, x) \subseteq N
           /\ x \in N => x \in Chain(nx, x)
           /\ \A m \in Chain(nx, x) : nx[m] \in Chain(nx, x) \cup {NULL}
<1>1. DOMAIN nx = N
  OBVIOUS
<1>2. Chain(nx, x) \subseteq N
  BY <1>1 DEF Chain
<1>3. ASSUME x \in N PROVE x \in Chain(nx, x)
  BY <1>1, <1>3 DEF Chain, Covers
<1>4. ASSUME NEW m \in Chain(nx, x) PROVE nx[m] \in Chain(nx, x) \cup {NULL}
  <2>1. m \in N
    BY <1>2, <1>4
  <2>2. ASSUME NEW S \in SUBSET N, Covers(S, nx, x), nx[m] # NULL PROVE nx[m] \in S
    <3>1. m \in S
      BY <1>1, <1>4, <2>2 DEF Chain
    <3>2. QED
      BY <2>2, <3>1 DEF Covers
  <2>3. QED
    BY <1>1, <2>1, <2>2 DEF Chain
<1>5. QED
  BY <1>2, <1>3, <1>4

\* It is in every set that a walk from its first node does not leave.
LEMMA ChainLeast ==
    ASSUME NEW N, NEW nx \in [N -> N \cup {NULL}], NEW x,
           NEW S \in SUBSET N, Covers(S, nx, x)
    PROVE  Chain(nx, x) \subseteq S
<1>1. DOMAIN nx = N
  OBVIOUS
<1>2. QED
  BY <1>1 DEF Chain

\* From NULL nothing is reached, and from a node, itself and what its next reaches.
LEMMA ChainStep ==
    ASSUME NEW N, NULL \notin N, NEW nx \in [N -> N \cup {NULL}]
    PROVE  /\ Chain(nx, NULL) = {}
           /\ \A x \in N : Chain(nx, x) = {x} \cup Chain(nx, nx[x])
<1>1. Chain(nx, NULL) \subseteq {}
  <2>1. Covers({}, nx, NULL)
    BY DEF Covers
  <2>2. QED
    BY <2>1, ChainLeast, Zenon
<1>2. ASSUME NEW x \in N PROVE Chain(nx, x) = {x} \cup Chain(nx, nx[x])
  <2>1. nx[x] \in N \cup {NULL}
    OBVIOUS
  <2>2. /\ Chain(nx, nx[x]) \subseteq N
        /\ nx[x] \in N => nx[x] \in Chain(nx, nx[x])
        /\ \A m \in Chain(nx, nx[x]) : nx[m] \in Chain(nx, nx[x]) \cup {NULL}
    BY <2>1, ChainHolds
  <2>3. /\ Chain(nx, x) \subseteq N
        /\ x \in Chain(nx, x)
        /\ \A m \in Chain(nx, x) : nx[m] \in Chain(nx, x) \cup {NULL}
    BY ChainHolds
  <2>4. Chain(nx, x) \subseteq {x} \cup Chain(nx, nx[x])
    <3>1. {x} \cup Chain(nx, nx[x]) \in SUBSET N
      BY <2>2
    <3>2. Covers({x} \cup Chain(nx, nx[x]), nx, x)
      BY <2>1, <2>2 DEF Covers
    <3>3. QED
      BY <3>1, <3>2, ChainLeast
  <2>5. Chain(nx, nx[x]) \subseteq Chain(nx, x)
    <3>1. Covers(Chain(nx, x), nx, nx[x])
      BY <2>3 DEF Covers
    <3>2. QED
      BY <2>3, <3>1, ChainLeast
  <2>6. QED
    BY <2>3, <2>4, <2>5
<1>3. QED
  BY <1>1, <1>2

\* In a list whose ids ascend, what follows a node is later than the node.
LEMMA Follows ==
    ASSUME NEW N, NULL \notin N, NEW nx \in [N -> N \cup {NULL}], NEW id \in [N -> Nat],
           NEW x \in N \cup {NULL},
           \A m \in Chain(nx, x) : nx[m] # NULL => id[m] < id[nx[m]],
           NEW n \in Chain(nx, x)
    PROVE  /\ \A m \in Chain(nx, nx[n]) : m \in Chain(nx, x) /\ id[n] < id[m]
           /\ n \notin Chain(nx, nx[n])
<1> DEFINE S == {m \in Chain(nx, x) : id[n] < id[m]}
<1>1. /\ Chain(nx, x) \subseteq N
      /\ \A m \in Chain(nx, x) : nx[m] \in Chain(nx, x) \cup {NULL}
  BY ChainHolds
<1>2. S \in SUBSET N
  BY <1>1
<1>3. nx[n] \in S \cup {NULL}
  BY <1>1
<1>4. ASSUME NEW m \in S PROVE nx[m] \in S \cup {NULL}
  <2>1. m \in N /\ n \in N /\ nx[m] \in Chain(nx, x) \cup {NULL}
    BY <1>1
  <2>2. nx[m] # NULL => id[n] < id[nx[m]]
    <3> SUFFICES ASSUME nx[m] # NULL PROVE id[n] < id[nx[m]]
      OBVIOUS
    <3>1. id[n] \in Nat /\ id[m] \in Nat /\ id[nx[m]] \in Nat
      BY <2>1, <1>1
    <3>2. id[n] < id[m] /\ id[m] < id[nx[m]]
      OBVIOUS
    <3>3. QED
      BY <3>1, <3>2
  <2>3. QED
    BY <2>1, <2>2
<1>5. Covers(S, nx, nx[n])
  BY <1>3, <1>4 DEF Covers
<1>6. Chain(nx, nx[n]) \subseteq S
  BY <1>2, <1>5, ChainLeast
<1>7. id[n] \in Nat
  BY <1>1
<1>8. QED
  BY <1>6, <1>7

\* The node n is put behind b and has no next: what was before b's next stays, and
\* what began with it is cut off.
LEMMA PutBehind ==
    ASSUME NEW N, NULL \notin N, NEW nx \in [N -> N \cup {NULL}], NEW x \in N,
           NEW b \in Chain(nx, x), NEW c, nx[b] = c,
           b \notin Chain(nx, c), x \notin Chain(nx, c),
           \A m \in Chain(nx, x) \ Chain(nx, c) : nx[m] \in Chain(nx, c) => m = b,
           NEW n \in N \ Chain(nx, x),
           NEW now \in [N -> N \cup {NULL}],
           now[n] = NULL, now[b] = n, \A m \in N \ {n, b} : now[m] = nx[m]
    PROVE  Chain(now, x) = (Chain(nx, x) \ Chain(nx, c)) \cup {n}
<1> DEFINE A == Chain(nx, x)
           B == Chain(nx, c)
           T == (A \ B) \cup {n}
           C == Chain(now, x)
<1>1. A \subseteq N /\ x \in A /\ \A m \in A : nx[m] \in A \cup {NULL}
  BY ChainHolds
<1>2. c \in N \cup {NULL}
  BY <1>1
<1>3. B \subseteq N /\ (c \in N => c \in B) /\ \A m \in B : nx[m] \in B \cup {NULL}
  BY <1>2, ChainHolds
<1>4. C \subseteq N /\ x \in C /\ \A m \in C : now[m] \in C \cup {NULL}
  BY ChainHolds
<1> HIDE DEF A, B, C
<1>5. /\ b \in A /\ b \notin B /\ x \notin B /\ n \in N /\ n \notin A
      /\ \A m \in A \ B : nx[m] \in B => m = b
  BY DEF A, B
<1>6. C \subseteq T
  <2>1. T \in SUBSET N
    BY <1>1, <1>5
  <2>2. x \in T
    BY <1>1, <1>5
  <2>3. ASSUME NEW m \in T PROVE now[m] \in T \cup {NULL}
    <3>1. CASE m = n
      BY <3>1
    <3>2. CASE m = b
      BY <3>2
    <3>3. CASE m # n /\ m # b
      <4>1. m \in A \ B /\ m \in N
        BY <3>3, <1>1
      <4>2. now[m] = nx[m]
        BY <4>1, <3>3
      <4>3. nx[m] \in A \cup {NULL} /\ nx[m] \notin B
        BY <4>1, <3>3, <1>1, <1>5
      <4>4. QED
        BY <4>2, <4>3
    <3>4. QED
      BY <3>1, <3>2, <3>3
  <2>4. Covers(T, now, x)
    BY <2>2, <2>3 DEF Covers
  <2>5. QED
    BY <2>1, <2>4, ChainLeast DEF C
<1>7. A \subseteq (C \ {n}) \cup B
  <2> DEFINE S == (C \ {n}) \cup B
  <2>1. S \in SUBSET N
    BY <1>3, <1>4
  <2>2. x \in S
    BY <1>1, <1>4, <1>5
  <2>3. ASSUME NEW m \in S PROVE nx[m] \in S \cup {NULL}
    <3>1. CASE m \in B
      BY <3>1, <1>3
    <3>2. CASE m \notin B /\ m = b
      BY <3>2, <1>2, <1>3
    <3>3. CASE m \notin B /\ m # b
      <4>1. m \in C /\ m # n /\ m \in A /\ m \in N
        BY <3>3, <1>6, <1>4
      <4>2. now[m] = nx[m]
        BY <4>1, <3>3
      <4>3. nx[m] \in C \cup {NULL}
        BY <4>1, <4>2, <1>4
      <4>4. nx[m] # n \/ n = NULL
        BY <4>1, <1>1, <1>5
      <4>5. QED
        BY <4>3, <4>4
    <3>4. QED
      BY <3>1, <3>2, <3>3
  <2>4. Covers(S, nx, x)
    BY <2>2, <2>3 DEF Covers
  <2>5. QED
    BY <2>1, <2>4, ChainLeast DEF A
<1>8. n \in C
  <2>1. b \in C
    BY <1>5, <1>7
  <2>2. now[b] \in C \cup {NULL}
    BY <2>1, <1>4
  <2>3. QED
    BY <2>2, <1>5
<1>9. C = T
  BY <1>6, <1>7, <1>8
<1>10. QED
  BY <1>9 DEF A, B, C

\* The only node of a list.
LEMMA Alone ==
    ASSUME NEW N, NULL \notin N, NEW nx \in [N -> N \cup {NULL}], NEW n \in N, nx[n] = NULL
    PROVE  Chain(nx, n) = {n}
<1>1. Chain(nx, n) = {n} \cup Chain(nx, nx[n]) /\ Chain(nx, NULL) = {}
  BY ChainStep
<1>2. QED
  BY <1>1

----------------------------------------------------------------------------
(***************************************************************************)
(* The invariant.                                                          *)
(***************************************************************************)
Types ==
    /\ subpkt \in Nodes \cup {NULL}
    /\ next \in [Nodes -> Nodes \cup {NULL}]
    /\ subid \in [Nodes -> Nat]
    /\ live \subseteq Nodes
    /\ recved \in Nat
    /\ at \in {"out", "scan", "walk"}
    /\ new \in Nat
    /\ bp \in Nodes \cup {NULL} /\ sp \in Nodes \cup {NULL}
    /\ out \in Seq(Nat)

\* The list ascends, whole or with its first nodes freed by the walk.
ListInv ==
    /\ \A n \in List : next[n] # NULL => subid[n] < subid[next[n]]
    /\ at # "out" => sp \in List \cup {NULL}
    /\ (IF at = "walk" THEN Ahead ELSE List) \subseteq live

\* What the scan has passed: all of it is smaller, and only bp leads on to sp.
Before == List \ Chain(next, sp)

ScanInv ==
    at = "scan" =>
        /\ \E p \in PktIds : new \in Subs(p)
        /\ subpkt # NULL
        /\ bp = NULL => sp = subpkt
        /\ bp # NULL => bp \in Before /\ subpkt \in Before /\ next[bp] = sp
        /\ \A m \in Before : subid[m] < new /\ (next[m] \in Chain(next, sp) => m = bp)

Inv == Types /\ ListInv /\ ScanInv /\ CopiedAscending /\ NoLeakInOrder

----------------------------------------------------------------------------
LEMMA NullIsNone == NULL \notin Nodes
BY NodesAssumption

LEMMA IdsAreNaturals == \A p \in PktIds : Subs(p) \subseteq Nat
BY SubCountAssumption DEF Subs

LEMMA ListIs ==
    ASSUME Types
    PROVE  /\ List \subseteq Nodes
           /\ subpkt # NULL => subpkt \in List
           /\ subpkt = NULL => List = {}
           /\ \A m \in List : next[m] \in List \cup {NULL}
<1>1. /\ NULL \notin Nodes /\ next \in [Nodes -> Nodes \cup {NULL}]
      /\ subpkt \in Nodes \cup {NULL}
  BY NullIsNone DEF Types
<1>2. Chain(next, NULL) = {}
  BY <1>1, ChainStep
<1>3. /\ Chain(next, subpkt) \subseteq Nodes
      /\ subpkt \in Nodes => subpkt \in Chain(next, subpkt)
      /\ \A m \in Chain(next, subpkt) : next[m] \in Chain(next, subpkt) \cup {NULL}
  BY <1>1, ChainHolds
<1>4. QED
  BY <1>1, <1>2, <1>3 DEF List

\* What the second pointer has ahead of it.
LEMMA FromNode ==
    ASSUME Types, ListInv, at # "out"
    PROVE  /\ Chain(next, sp) \subseteq List
           /\ sp = NULL => Chain(next, sp) = {}
           /\ sp # NULL => /\ sp \in Nodes /\ next[sp] \in List \cup {NULL}
                           /\ Chain(next, sp) = {sp} \cup Chain(next, next[sp])
                           /\ \A m \in Chain(next, next[sp]) : subid[sp] < subid[m]
                           /\ sp \notin Chain(next, next[sp])
<1>1. /\ NULL \notin Nodes /\ next \in [Nodes -> Nodes \cup {NULL}]
      /\ subpkt \in Nodes \cup {NULL} /\ subid \in [Nodes -> Nat]
  BY NullIsNone DEF Types
<1>2. Chain(next, NULL) = {} /\ \A x \in Nodes : Chain(next, x) = {x} \cup Chain(next, next[x])
  BY <1>1, ChainStep
<1>3. /\ List \subseteq Nodes
      /\ \A m \in List : next[m] \in List \cup {NULL}
  BY ListIs
<1>4. sp \in List \cup {NULL}
  BY DEF ListInv
<1>5. ASSUME sp # NULL
      PROVE  /\ \A m \in Chain(next, next[sp]) : m \in List /\ subid[sp] < subid[m]
             /\ sp \notin Chain(next, next[sp])
  <2>1. sp \in Chain(next, subpkt)
    BY <1>4, <1>5 DEF List
  <2>2. \A m \in Chain(next, subpkt) : next[m] # NULL => subid[m] < subid[next[m]]
    BY DEF ListInv, List
  <2>3. QED
    BY <1>1, <2>1, <2>2, Follows DEF List
<1>6. QED
  BY <1>2, <1>3, <1>4, <1>5

----------------------------------------------------------------------------
(***************************************************************************)
(* Steps that leave the list as it is.                                     *)
(***************************************************************************)
LEMMA InitInv == Init => Inv
<1> SUFFICES ASSUME Init PROVE Inv
  OBVIOUS
<1>1. Types
  BY DEF Init, Types
<1>2. List = {}
  BY <1>1, ListIs DEF Init
<1>3. ListInv /\ ScanInv
  BY <1>2 DEF Init, ListInv, ScanInv
<1>4. CopiedAscending
  BY DEF Init, CopiedAscending, Ahead
<1>5. NoLeakInOrder
  BY <1>2 DEF Init, NoLeakInOrder
<1>6. QED
  BY <1>1, <1>3, <1>4, <1>5 DEF Inv

LEMMA AddMoreInv ==
    ASSUME Inv, NEW p \in PktIds, NEW i \in Subs(p), AddMore(i)
    PROVE  Inv' /\ List' = List
<1> USE DEF Inv
<1>1. List' = List
  BY DEF AddMore, List
<1>2. i \in Nat
  BY IdsAreNaturals
<1>3. Types'
  BY <1>2 DEF AddMore, Types
<1>4. ListInv'
  BY <1>1, ListIs DEF AddMore, ListInv
<1>5. ScanInv'
  <2>1. Before' = {}
    BY <1>1 DEF AddMore, Before, List
  <2>2. QED
    BY <2>1 DEF AddMore, ScanInv
<1>6. CopiedAscending'
  BY DEF AddMore, CopiedAscending, Ahead
<1>7. NoLeakInOrder'
  BY <1>1 DEF AddMore, NoLeakInOrder
<1>8. QED
  BY <1>1, <1>3, <1>4, <1>5, <1>6, <1>7

LEMMA DuplicateInv ==
    ASSUME Inv, Duplicate
    PROVE  Inv' /\ List' = List
<1> USE DEF Inv
<1>1. List' = List
  BY DEF Duplicate, List
<1>2. Types'
  BY DEF Duplicate, Types
<1>3. ListInv'
  BY <1>1 DEF Duplicate, ListInv
<1>4. ScanInv' /\ CopiedAscending'
  BY DEF Duplicate, ScanInv, CopiedAscending, Ahead
<1>5. NoLeakInOrder'
  BY <1>1 DEF Duplicate, NoLeakInOrder
<1>6. QED
  BY <1>1, <1>2, <1>3, <1>4, <1>5

LEMMA AdvanceInv ==
    ASSUME Inv, Advance
    PROVE  Inv' /\ List' = List
<1> USE DEF Inv
<1>1. List' = List
  BY DEF Advance, List
<1>2. /\ sp \in Nodes /\ next[sp] \in List \cup {NULL}
      /\ Chain(next, sp) = {sp} \cup Chain(next, next[sp])
      /\ sp \notin Chain(next, next[sp])
      /\ Chain(next, sp) \subseteq List
  BY FromNode DEF Advance
<1>3. Types'
  BY <1>2 DEF Advance, Types
<1>4. ListInv'
  BY <1>1, <1>2 DEF Advance, ListInv
<1>5. ScanInv'
  <2>1. Chain(next, sp)' = Chain(next, next[sp])
    BY DEF Advance
  <2>2. Before' = Before \cup {sp} /\ sp \notin Before
    BY <1>1, <1>2, <2>1 DEF Before
  <2>3. subpkt \in Before'
    BY <1>2, <2>2 DEF Advance, ScanInv
  <2>4. ASSUME NEW m \in Before', next[m] \in Chain(next, next[sp]) PROVE m = sp
    <3>1. ASSUME m # sp PROVE FALSE
      <4>1. m \in Before /\ next[m] \in Chain(next, sp)
        BY <2>2, <2>4, <3>1, <1>2
      <4>2. m = bp /\ bp # NULL
        BY <4>1, <1>2, ListIs, NullIsNone DEF ScanInv, Advance, Before
      <4>3. next[m] = sp
        BY <4>2 DEF ScanInv, Advance
      <4>4. QED
        BY <4>3, <2>4, <1>2
    <3>2. QED
      BY <3>1
  <2>5. \A m \in Before' : subid[m] < new
    BY <2>2 DEF ScanInv, Advance
  <2>6. /\ subid' = subid /\ new' = new /\ next' = next /\ bp' = sp /\ sp' = next[sp]
        /\ subpkt' = subpkt /\ subpkt # NULL /\ sp # NULL
    BY DEF Advance, ScanInv
  <2>7. \E p \in PktIds : new \in Subs(p)
    BY DEF ScanInv, Advance
  <2>8. \A m \in Before' : subid'[m] < new' /\ (next'[m] \in Chain(next, sp)' => m = bp')
    BY <2>1, <2>4, <2>5, <2>6
  <2>9. QED
    BY <2>2, <2>3, <2>6, <2>7, <2>8 DEF ScanInv
<1>6. CopiedAscending'
  BY DEF Advance, CopiedAscending, Ahead
<1>7. NoLeakInOrder'
  BY <1>1 DEF Advance, NoLeakInOrder
<1>8. QED
  BY <1>1, <1>3, <1>4, <1>5, <1>6, <1>7

----------------------------------------------------------------------------
(***************************************************************************)
(* Linking a node.                                                         *)
(***************************************************************************)
\* A list of one node.
LEMMA OneNode ==
    ASSUME Types', NEW n \in Nodes, subpkt' = n, next'[n] = NULL
    PROVE  List' = {n}
<1>1. NULL \notin Nodes /\ next' \in [Nodes -> Nodes \cup {NULL}]
  BY NullIsNone DEF Types
<1>2. Chain(next', n) = {n}
  BY <1>1, Alone
<1>3. QED
  BY <1>2 DEF List

LEMMA AddFirstInv ==
    ASSUME Inv, NEW p \in PktIds, NEW i \in Subs(p), AddFirst(i)
    PROVE  Inv' /\ \E n \in Nodes : List' = {n} /\ subid'[n] = i
<1> USE DEF Inv
<1>1. PICK n \in Nodes : SubPktNew(n, i) /\ next' = [next EXCEPT ![n] = NULL] /\ subpkt' = n
  BY DEF AddFirst
<1>2. i \in Nat /\ recved' \in Nat
  BY IdsAreNaturals DEF AddFirst, Types
<1>3. live' \subseteq Nodes /\ subid' \in [Nodes -> Nat] /\ subid'[n] = i
  BY <1>1, <1>2 DEF SubPktNew, Types
<1>4. next' \in [Nodes -> Nodes \cup {NULL}] /\ next'[n] = NULL
  BY <1>1 DEF Types
<1>5. Types'
  BY <1>1, <1>2, <1>3, <1>4 DEF AddFirst, Types
<1>6. List' = {n}
  BY <1>1, <1>4, <1>5, OneNode
<1>7. ListInv'
  BY <1>1, <1>4, <1>6 DEF AddFirst, ListInv, SubPktNew
<1>8. ScanInv'
  BY DEF AddFirst, ScanInv
<1>9. CopiedAscending'
  BY DEF AddFirst, CopiedAscending
<1>10. NoLeakInOrder'
  <2>1. List = {}
    BY ListIs DEF AddFirst
  <2>2. QED
    BY <1>1, <1>6, <2>1 DEF AddFirst, NoLeakInOrder, SubPktNew
<1>11. QED
  BY <1>3, <1>5, <1>6, <1>7, <1>8, <1>9, <1>10

\* Before the scan's place, that is.
LEMMA PutBehindBp ==
    ASSUME NULL \notin Nodes, next \in [Nodes -> Nodes \cup {NULL}], subpkt \in Nodes,
           bp \in Before, subpkt \in Before, next[bp] = sp,
           \A m \in Before : next[m] \in Chain(next, sp) => m = bp,
           NEW n \in Nodes, n \notin List,
           NEW now \in [Nodes -> Nodes \cup {NULL}],
           now[n] = NULL, now[bp] = n, \A m \in Nodes \ {n, bp} : now[m] = next[m]
    PROVE  Chain(now, subpkt) = Before \cup {n}
<1>1. /\ bp \in Chain(next, subpkt) /\ bp \notin Chain(next, sp)
      /\ subpkt \notin Chain(next, sp) /\ n \in Nodes \ Chain(next, subpkt)
  BY DEF Before, List
<1>2. \A m \in Chain(next, subpkt) \ Chain(next, sp) :
         next[m] \in Chain(next, sp) => m = bp
  BY DEF Before, List
<1>3. Chain(now, subpkt) = (Chain(next, subpkt) \ Chain(next, sp)) \cup {n}
  BY <1>1, <1>2, PutBehind
<1>4. QED
  BY <1>3 DEF Before, List

\* The new node ends the list; what was larger is cut off.
LEMMA Linked ==
    ASSUME Inv, Link, Types', NEW n \in Nodes, SubPktNew(n, new), next' = NextAfterLink(n),
           subpkt' = IF bp = NULL THEN n ELSE subpkt
    PROVE  List' = Before \cup {n}
<1> USE DEF Inv
<1>1. CASE bp = NULL
  <2>1. Before = {}
    BY <1>1 DEF Link, ScanInv, Before, List
  <2>2. next'[n] = NULL /\ subpkt' = n
    BY <1>1 DEF NextAfterLink, Types
  <2>3. QED
    BY <2>1, <2>2, OneNode
<1>2. CASE bp # NULL
  <2>1. /\ NULL \notin Nodes
        /\ next \in [Nodes -> Nodes \cup {NULL}] /\ next' \in [Nodes -> Nodes \cup {NULL}]
    BY NullIsNone DEF Types
  <2>2. /\ bp \in Before /\ subpkt \in Before /\ next[bp] = sp
        /\ \A m \in Before : next[m] \in Chain(next, sp) => m = bp
    BY <1>2 DEF ScanInv, Link
  <2>3. List \subseteq Nodes /\ List \subseteq live
    BY ListIs DEF ListInv, Link
  <2>4. n \notin List
    BY <2>3 DEF SubPktNew
  <2>5. bp \in List /\ bp # n /\ bp \in Nodes
    BY <2>2, <2>3, <2>4 DEF Before
  <2>6. next'[n] = NULL /\ next'[bp] = n /\ \A m \in Nodes \ {n, bp} : next'[m] = next[m]
    <3>1. next' = [next EXCEPT ![n] = NULL, ![bp] = n]
      BY <1>2 DEF NextAfterLink
    <3>2. QED
      BY <3>1, <2>1, <2>5
  <2>7. subpkt \in Nodes
    BY <2>2, <2>3 DEF Before
  <2>8. ASSUME NEW now \in [Nodes -> Nodes \cup {NULL}],
               now[n] = NULL, now[bp] = n, \A m \in Nodes \ {n, bp} : now[m] = next[m]
        PROVE  Chain(now, subpkt) = Before \cup {n}
    BY <2>1, <2>2, <2>4, <2>7, <2>8, PutBehindBp
  <2>9. Chain(next', subpkt) = Before \cup {n}
    BY <2>1, <2>6, <2>8
  <2>10. subpkt' = subpkt
    BY <1>2
  <2>11. QED
    BY <2>9, <2>10 DEF List
<1>3. QED
  BY <1>1, <1>2

\* What the scan has passed is what was smaller, and nothing in the list has the new id.
LEMMA PassedIsSmaller ==
    ASSUME Inv, Link
    PROVE  /\ \A m \in Before : subid[m] < new
           /\ \A m \in List \ Before : new < subid[m]
           /\ sp = NULL => Before = List
<1> USE DEF Inv
<1>1. \A m \in Before : subid[m] < new
  BY DEF Link, ScanInv
<1>2. /\ Chain(next, sp) \subseteq List
      /\ sp = NULL => Chain(next, sp) = {}
      /\ sp # NULL => /\ sp \in Nodes
                      /\ Chain(next, sp) = {sp} \cup Chain(next, next[sp])
                      /\ \A m \in Chain(next, next[sp]) : subid[sp] < subid[m]
  BY FromNode DEF Link
<1>3. ASSUME NEW m \in Chain(next, sp) PROVE new < subid[m]
  <2>1. sp # NULL /\ new < subid[sp]
    BY <1>2, <1>3 DEF Link
  <2>2. subid[m] \in Nat /\ subid[sp] \in Nat /\ new \in Nat
    BY <1>2, <1>3, ListIs, <2>1 DEF Types
  <2>3. m = sp \/ subid[sp] < subid[m]
    BY <1>2, <1>3, <2>1
  <2>4. QED
    BY <2>1, <2>2, <2>3
<1>4. QED
  BY <1>1, <1>2, <1>3 DEF Before

LEMMA LinkInv ==
    ASSUME Inv, Link
    PROVE  /\ Inv'
           /\ \E n \in Nodes : n \notin List /\ List' = Before \cup {n}
                               /\ subid' = [subid EXCEPT ![n] = new]
<1> USE DEF Inv
<1>1. PICK n \in Nodes : /\ SubPktNew(n, new) /\ next' = NextAfterLink(n)
                         /\ subpkt' = IF bp = NULL THEN n ELSE subpkt
  BY DEF Link
<1>2. new \in Nat /\ recved' \in Nat
  BY DEF Link, Types
<1>3. live' = live \cup {n} /\ n \notin live /\ subid' = [subid EXCEPT ![n] = new]
  BY <1>1 DEF SubPktNew
<1>4. next' \in [Nodes -> Nodes \cup {NULL}]
  BY <1>1 DEF NextAfterLink, Types
<1>5. Types'
  <2>1. live' \subseteq Nodes /\ subid' \in [Nodes -> Nat]
    BY <1>2, <1>3 DEF Types
  <2>2. subpkt' \in Nodes \cup {NULL}
    BY <1>1 DEF Types
  <2>3. QED
    BY <1>2, <1>4, <2>1, <2>2 DEF Link, Types
<1>6. List' = Before \cup {n}
  BY <1>1, <1>5, Linked
<1>7. List \subseteq live /\ List \subseteq Nodes /\ n \notin List /\ Before \subseteq List
  BY <1>3, ListIs DEF ListInv, Link, Before
<1>8. ListInv'
  <2>1. at' = "out" /\ List' \subseteq live'
    BY <1>3, <1>6, <1>7 DEF Link
  <2>2. ASSUME NEW m \in List', next'[m] # NULL PROVE subid'[m] < subid'[next'[m]]
    <3>1. next'[n] = NULL
      BY <1>1 DEF NextAfterLink, Types
    <3>2. m # n /\ m \in Before /\ m \in List /\ m \in Nodes
      BY <1>6, <1>7, <2>2, <3>1
    <3>3. next'[m] = next[m] \/ next'[m] = n
      BY <1>1, <3>2 DEF NextAfterLink, Types
    <3>4. subid'[m] = subid[m] /\ subid'[n] = new
      BY <1>3, <3>2 DEF Types
    <3>5. CASE next'[m] = n
      <4>1. subid[m] < new
        BY <3>2, PassedIsSmaller
      <4>2. QED
        BY <3>4, <3>5, <4>1
    <3>6. CASE next'[m] = next[m] /\ next'[m] # n
      <4>1. next[m] \in List
        BY <2>2, <3>2, <3>6, ListIs
      <4>2. subid[m] < subid[next[m]]
        BY <2>2, <3>2, <3>6 DEF ListInv
      <4>3. subid'[next[m]] = subid[next[m]]
        BY <1>3, <1>7, <3>6, <4>1 DEF Types
      <4>4. QED
        BY <3>4, <3>6, <4>2, <4>3
    <3>7. QED
      BY <3>3, <3>5, <3>6
  <2>3. QED
    BY <2>1, <2>2 DEF ListInv
<1>9. ScanInv'
  BY DEF Link, ScanInv
<1>10. CopiedAscending'
  BY DEF Link, CopiedAscending, Ahead
<1>11. NoLeakInOrder'
  <2> SUFFICES ASSUME ~overtook' PROVE live' = List'
    BY DEF NoLeakInOrder, Link
  <2>1. ~overtook /\ sp = NULL
    BY DEF Link
  <2>2. live = List
    BY <2>1 DEF NoLeakInOrder, Link
  <2>3. QED
    BY <1>3, <1>6, <2>1, <2>2, PassedIsSmaller
<1>12. QED
  BY <1>3, <1>5, <1>6, <1>7, <1>8, <1>9, <1>10, <1>11

----------------------------------------------------------------------------
(***************************************************************************)
(* The walk.                                                               *)
(***************************************************************************)
LEMMA TakeAllInv ==
    ASSUME Inv, TakeAll
    PROVE  Inv' /\ List' = List
<1> USE DEF Inv
<1>1. List' = List /\ Ahead' = List
  BY DEF TakeAll, List, Ahead
<1>2. Types'
  BY DEF TakeAll, Types
<1>3. ListInv'
  BY <1>1, ListIs DEF TakeAll, ListInv
<1>4. ScanInv'
  BY DEF TakeAll, ScanInv
<1>5. CopiedAscending'
  BY DEF TakeAll, CopiedAscending
<1>6. NoLeakInOrder'
  BY <1>1 DEF TakeAll, NoLeakInOrder
<1>7. QED
  BY <1>1, <1>2, <1>3, <1>4, <1>5, <1>6

LEMMA WalkInv ==
    ASSUME Inv, Walk
    PROVE  Inv' /\ List' = List
<1> USE DEF Inv
<1>1. /\ sp \in Nodes /\ next[sp] \in List \cup {NULL}
      /\ Chain(next, sp) = {sp} \cup Chain(next, next[sp])
      /\ \A m \in Chain(next, next[sp]) : subid[sp] < subid[m]
      /\ sp \notin Chain(next, next[sp])
      /\ Chain(next, sp) \subseteq List
  BY FromNode DEF Walk
<1>2. List' = List
  BY DEF Walk, List
<1>3. Ahead = {sp} \cup Ahead' /\ Ahead' = Chain(next, next[sp])
  BY <1>1 DEF Walk, Ahead
<1>4. subid[sp] \in Nat
  BY <1>1 DEF Types
<1>5. out' = Append(out, subid[sp]) /\ out \in Seq(Nat)
  BY DEF Walk, Types
<1>6. Types'
  <2>1. out' \in Seq(Nat)
    BY <1>4, <1>5
  <2>2. QED
    BY <1>1, <2>1 DEF Walk, Types
<1>7. ListInv'
  <2>1. Ahead' \subseteq live'
    BY <1>1, <1>3 DEF Walk, ListInv
  <2>2. QED
    BY <1>1, <1>2, <2>1 DEF Walk, ListInv
<1>8. ScanInv'
  BY DEF Walk, ScanInv
<1>9. CopiedAscending'
  <2>1. Len(out') = Len(out) + 1 /\ out'[Len(out) + 1] = subid[sp] /\ Len(out) \in Nat
    BY <1>5
  <2>2. \A k \in DOMAIN out : k \in DOMAIN out' /\ out'[k] = out[k] /\ k \in 1..Len(out)
    BY <1>5
  <2>3. \A k \in DOMAIN out' : k \in Nat /\ (k \in DOMAIN out \/ k = Len(out) + 1)
    BY <1>5
  <2>4. sp \in Ahead /\ \A k \in DOMAIN out, m \in Ahead : out[k] < subid[m]
    BY <1>3 DEF CopiedAscending
  <2>5. ASSUME NEW k \in DOMAIN out', NEW l \in DOMAIN out', k < l PROVE out'[k] < out'[l]
    <3>1. k \in DOMAIN out
      BY <2>1, <2>2, <2>3, <2>5
    <3>2. CASE l \in DOMAIN out
      BY <2>2, <2>5, <3>1, <3>2 DEF CopiedAscending
    <3>3. CASE l = Len(out) + 1
      BY <2>1, <2>2, <2>4, <3>1, <3>3
    <3>4. QED
      BY <2>3, <3>2, <3>3
  <2>6. ASSUME NEW k \in DOMAIN out', NEW m \in Ahead' PROVE out'[k] < subid'[m]
    <3>1. subid' = subid
      BY DEF Walk
    <3>2. CASE k \in DOMAIN out
      BY <1>3, <2>2, <2>4, <3>1, <3>2
    <3>3. CASE k = Len(out) + 1
      BY <1>1, <1>3, <2>1, <3>1, <3>3
    <3>4. QED
      BY <2>3, <3>2, <3>3
  <2>7. QED
    BY <2>5, <2>6 DEF CopiedAscending
<1>10. NoLeakInOrder'
  BY <1>1, <1>3 DEF Walk, NoLeakInOrder
<1>11. QED
  BY <1>2, <1>6, <1>7, <1>8, <1>9, <1>10

LEMMA WalkDoneInv ==
    ASSUME Inv, WalkDone
    PROVE  Inv' /\ List' = {}
<1> USE DEF Inv
<1>1. Types'
  BY DEF WalkDone, Types
<1>2. List' = {}
  <2>1. next' \in [Nodes -> Nodes \cup {NULL}]
    BY <1>1 DEF Types
  <2>2. Chain(next', NULL) = {}
    BY <2>1, NullIsNone, ChainStep
  <2>3. QED
    BY <2>2 DEF WalkDone, List
<1>3. ListInv'
  BY <1>2 DEF WalkDone, ListInv
<1>4. ScanInv'
  BY DEF WalkDone, ScanInv
<1>5. CopiedAscending'
  BY DEF WalkDone, CopiedAscending, Ahead
<1>6. NoLeakInOrder'
  <2>1. Ahead = {}
    BY FromNode DEF WalkDone, Ahead
  <2>2. QED
    BY <1>2, <2>1 DEF WalkDone, NoLeakInOrder
<1>7. QED
  BY <1>1, <1>2, <1>3, <1>4, <1>5, <1>6

LEMMA StepInv == Inv /\ [Next]_vars => Inv'
<1> SUFFICES ASSUME Inv, [Next]_vars PROVE Inv'
  OBVIOUS
<1>1. CASE UNCHANGED vars
  <2>1. List' = List /\ Ahead' = Ahead /\ Before' = Before
    BY <1>1 DEF vars, List, Ahead, Before
  <2>2. Types' /\ ListInv'
    BY <1>1, <2>1 DEF vars, Inv, Types, ListInv
  <2>3. ScanInv'
    BY <1>1, <2>1 DEF vars, Inv, ScanInv
  <2>4. CopiedAscending' /\ NoLeakInOrder'
    BY <1>1, <2>1 DEF vars, Inv, CopiedAscending, NoLeakInOrder
  <2>5. QED
    BY <2>2, <2>3, <2>4 DEF Inv
<1>2. CASE Next
  BY <1>2, AddFirstInv, AddMoreInv, DuplicateInv, AdvanceInv, LinkInv, TakeAllInv, WalkInv,
     WalkDoneInv DEF Next
<1>3. QED
  BY <1>1, <1>2

LEMMA Always == Spec => []Inv
<1>1. QED
  BY InitInv, StepInv, PTL DEF Spec

----------------------------------------------------------------------------
(***************************************************************************)
(* What the list promises.                                                 *)
(***************************************************************************)
\* The list ends and holds no freed node, whatever is linked where: no node of it is
\* among those that follow it (the scan and the walk of rudp.c come to an end).
THEOREM ListTypeCorrect == Spec => []TypeOK
<1>1. Inv => TypeOK
  <2> SUFFICES ASSUME Inv PROVE TypeOK
    OBVIOUS
  <2> USE DEF Inv
  <2>1. ASSUME NEW n \in List PROVE n \notin Chain(next, next[n])
    <3>1. /\ NULL \notin Nodes /\ next \in [Nodes -> Nodes \cup {NULL}]
          /\ subpkt \in Nodes \cup {NULL} /\ subid \in [Nodes -> Nat]
      BY NullIsNone DEF Types
    <3>2. n \in Chain(next, subpkt)
      BY <2>1 DEF List
    <3>3. \A m \in Chain(next, subpkt) : next[m] # NULL => subid[m] < subid[next[m]]
      BY DEF ListInv, List
    <3>4. QED
      BY <3>1, <3>2, <3>3, Follows
  <2>2. QED
    BY <2>1 DEF Types, ListInv, TypeOK
<1>2. QED
  BY <1>1, Always, PTL

\* A payload is copied out in ascending order of sub ids and none twice, whatever order
\* the datagrams came in (rdpk_ack_all copies as it walks).
THEOREM PayloadAscends == Spec => []CopiedAscending
<1>1. Inv => CopiedAscending
  BY DEF Inv
<1>2. QED
  BY <1>1, Always, PTL

\* Until a node is linked before another every allocated node is in the list or ahead
\* of the walk that frees it.
THEOREM FreedInOrder == Spec => []NoLeakInOrder
<1>1. Inv => NoLeakInOrder
  BY DEF Inv
<1>2. QED
  BY <1>1, Always, PTL

\* The set and the count that the list stands for.
Stored == IF at = "walk" THEN {} ELSE {subid[n] : n \in List}
Count == IF at = "walk" THEN 0 ELSE recved

LEMMA LinkAdds == Inv /\ Link => AsSet!Add
<1> SUFFICES ASSUME Inv, Link PROVE AsSet!Add
  OBVIOUS
<1>1. PICK n \in Nodes : /\ n \notin List /\ List' = Before \cup {n}
                         /\ subid' = [subid EXCEPT ![n] = new]
  BY LinkInv
<1>2. List \subseteq Nodes /\ Before \subseteq List /\ subid \in [Nodes -> Nat] /\ new \in Nat
  BY ListIs DEF Inv, Types, Before
<1>3. at = "scan" /\ at' = "out" /\ recved' = recved + 1
  BY DEF Link
<1>4. /\ \A m \in Before : subid[m] < new
      /\ \A m \in List \ Before : new < subid[m]
  BY PassedIsSmaller
<1>5. subid'[n] = new /\ \A m \in Before : subid'[m] = subid[m]
  BY <1>1, <1>2
<1>6. {subid'[m] : m \in List'} = {subid[m] : m \in Before} \cup {new}
  BY <1>1, <1>5
<1>7. {j \in {subid[m] : m \in List} : j < new} = {subid[m] : m \in Before}
  <2>1. ASSUME NEW m \in List, subid[m] < new PROVE m \in Before
    <3>1. subid[m] \in Nat
      BY <1>2
    <3>2. QED
      BY <1>2, <1>4, <2>1, <3>1
  <2>2. QED
    BY <1>2, <1>4, <2>1
<1>8. new \notin {subid[m] : m \in List}
  <2>1. ASSUME NEW m \in List PROVE subid[m] # new
    <3>1. subid[m] \in Nat
      BY <1>2
    <3>2. QED
      BY <1>2, <1>4, <3>1
  <2>2. QED
    BY <2>1
<1>9. PICK p \in PktIds : new \in Subs(p)
  BY DEF Inv, ScanInv, Link
<1>10. Stored' = Insert(Stored, new) /\ new \notin Stored
  BY <1>3, <1>6, <1>7, <1>8 DEF Stored, Insert
<1>11. Count' = Count + 1
  BY <1>3 DEF Count
<1>12. QED
  BY <1>9, <1>10, <1>11 DEF AsSet!Add, Stored, Count, AsSet!Insert, Insert, AsSet!Subs, Subs

LEMMA FirstAdds ==
    ASSUME Inv, NEW p \in PktIds, NEW i \in Subs(p), AddFirst(i)
    PROVE  AsSet!Add
<1>1. PICK n \in Nodes : List' = {n} /\ subid'[n] = i
  BY AddFirstInv
<1>2. List = {}
  BY ListIs DEF AddFirst, Inv
<1>3. at = "out" /\ at' = "out" /\ recved' = recved + 1
  BY DEF AddFirst
<1>4. Stored = {} /\ Stored' = {i}
  BY <1>1, <1>2, <1>3 DEF Stored
<1>5. Stored' = Insert(Stored, i) /\ i \notin Stored
  BY <1>4 DEF Insert
<1>6. Count' = Count + 1
  BY <1>3 DEF Count
<1>7. QED
  BY <1>5, <1>6 DEF AsSet!Add, Stored, Count, AsSet!Insert, Insert, AsSet!Subs, Subs

\* Every other step leaves the set alone, or takes it.
LEMMA OthersTakeOrLeave ==
    ASSUME Inv, [Next]_vars,
           ~ \E p \in PktIds : \E i \in Subs(p) : AddFirst(i), ~ Link
    PROVE  AsSet!Take \/ (Stored' = Stored /\ Count' = Count)
<1>1. CASE \E p \in PktIds : \E i \in Subs(p) : AddMore(i)
  <2>1. PICK p \in PktIds : \E i \in Subs(p) : AddMore(i)
    BY <1>1
  <2>2. PICK i \in Subs(p) : AddMore(i)
    BY <2>1
  <2>3. List' = List
    BY <2>2, AddMoreInv
  <2>4. QED
    BY <2>2, <2>3 DEF AddMore, Stored, Count
<1>2. CASE Duplicate
  BY <1>2, DuplicateInv DEF Duplicate, Stored, Count
<1>3. CASE Advance
  BY <1>3, AdvanceInv DEF Advance, Stored, Count
<1>4. CASE TakeAll
  <2>1. subpkt \in List /\ at = "out" /\ at' = "walk"
    BY <1>4, ListIs DEF TakeAll, Inv
  <2>2. Stored # {} /\ Stored' = {} /\ Count' = 0
    BY <2>1 DEF Stored, Count
  <2>3. QED
    BY <2>2 DEF AsSet!Take, Stored, Count
<1>5. CASE Walk
  BY <1>5 DEF Walk, Stored, Count
<1>6. CASE WalkDone
  BY <1>6, WalkDoneInv DEF WalkDone, Stored, Count
<1>7. CASE UNCHANGED vars
  <2>1. List' = List
    BY <1>7 DEF vars, List
  <2>2. QED
    BY <1>7, <2>1 DEF vars, Stored, Count
<1>8. QED
  BY <1>1, <1>2, <1>3, <1>4, <1>5, <1>6, <1>7 DEF Next

\* The linked list is the set that RudpReassembly keeps, for packets of any sizes:
\* what is smaller than a new sub-packet stays, what is larger is lost, and no
\* sub-packet is stored twice (sub_pkt_add's scan).
THEOREM ListIsSet == Spec => ImplementsSet
<1>1. Init => Stored = {} /\ Count = 0
  <2> SUFFICES ASSUME Init PROVE Stored = {} /\ Count = 0
    OBVIOUS
  <2>1. List = {}
    BY InitInv, ListIs DEF Init, Inv
  <2>2. QED
    BY <2>1 DEF Init, Stored, Count
<1>2. Inv /\ [Next]_vars => [AsSet!Add \/ AsSet!Take]_<<Stored, Count>>
  <2> SUFFICES ASSUME Inv, [Next]_vars
               PROVE  AsSet!Add \/ AsSet!Take \/ (Stored' = Stored /\ Count' = Count)
    OBVIOUS
  <2>1. CASE \E p \in PktIds : \E i \in Subs(p) : AddFirst(i)
    BY <2>1, FirstAdds
  <2>2. CASE Link
    BY <2>2, LinkAdds
  <2>3. QED
    BY <2>1, <2>2, OthersTakeOrLeave
<1>3. QED
  BY <1>1, <1>2, Always, PTL DEF Spec, ImplementsSet, AsSet!Spec, Stored, Count
============================================================================
