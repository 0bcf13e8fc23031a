---------------------------- MODULE UserTableProofs ----------------------------
(***************************************************************************)
(* What UserTable promises of the table and of the flash, for every number *)
(* of houses, of changes and of power failures.                            *)
(***************************************************************************)
EXTENDS UserTable, Integers, Functions, FiniteSetTheorems, TLAPS

----------------------------------------------------------------------------
(***************************************************************************)
(* The order of the sections.  The users of a file are numbered by how     *)
(* many of them have a house up to theirs; that this numbers all of them,  *)
(* with no gap, is what keeps a restart from losing one or making one up.  *)
(***************************************************************************)
Rank(S, j) == Cardinality({k \in S : k <= j})
Nth(S, i) == CHOOSE j \in S : Rank(S, j) = i

LEMMA SlotsAre == Houses \in Nat \ {0} /\ Slots = 1..Houses /\ Slots \subseteq Nat
<1>1. Houses \in Nat \ {0}
  BY TableAssumption
<1>2. QED
  BY <1>1 DEF Slots

LEMMA SlotsFinite ==
    ASSUME NEW S \in SUBSET Slots
    PROVE  IsFiniteSet(S) /\ Cardinality(S) \in 0..Houses
<1>1. Houses \in Nat
  BY SlotsAre
<1>2. IsFiniteSet(Slots) /\ Cardinality(Slots) = Houses
  <2>1. IsFiniteSet(1..Houses) /\ Cardinality(1..Houses) = IF 1 > Houses THEN 0 ELSE Houses - 1 + 1
    BY <1>1, FS_Interval
  <2>2. QED
    BY <2>1, SlotsAre
<1>3. IsFiniteSet(S) /\ Cardinality(S) <= Cardinality(Slots)
  BY <1>2, FS_Subset
<1>4. Cardinality(S) \in Nat
  BY <1>3, FS_CardinalityType
<1>5. QED
  BY <1>1, <1>2, <1>3, <1>4

\* A house further on has a higher number.
LEMMA RankRises ==
    ASSUME NEW S \in SUBSET Slots
    PROVE  /\ \A j \in S : Rank(S, j) \in 1..Cardinality(S)
           /\ \A j, k \in S : j < k => Rank(S, j) < Rank(S, k)
<1>1. ASSUME NEW j \in S PROVE Rank(S, j) \in 1..Cardinality(S)
  <2>1. {k \in S : k <= j} \in SUBSET S /\ {k \in S : k <= j} \in SUBSET Slots
    OBVIOUS
  <2>2. IsFiniteSet(S) /\ Cardinality(S) \in Nat
    BY SlotsFinite
  <2>3. IsFiniteSet({k \in S : k <= j}) /\ Cardinality({k \in S : k <= j}) <= Cardinality(S)
    BY <2>1, <2>2, FS_Subset
  <2>4. Cardinality({k \in S : k <= j}) \in Nat
    BY <2>3, FS_CardinalityType
  <2>5. Cardinality({k \in S : k <= j}) # 0
    <3>1. j \in {k \in S : k <= j}
      BY DEF Slots
    <3>2. QED
      BY <2>3, <3>1, FS_EmptySet
  <2>6. QED
    BY <2>2, <2>3, <2>4, <2>5 DEF Rank
<1>2. ASSUME NEW j \in S, NEW k \in S, j < k PROVE Rank(S, j) < Rank(S, k)
  <2> DEFINE J == {i \in S : i <= j}
             K == {i \in S : i <= k}
  <2>1. J \in SUBSET K /\ J # K
    <3>1. j \in Nat /\ k \in Nat /\ \A i \in S : i \in Nat
      BY SlotsAre
    <3>2. k \in K /\ k \notin J
      BY <1>2, <3>1
    <3>3. \A i \in S : i <= j => i <= k
      BY <1>2, <3>1
    <3>4. QED
      BY <3>2, <3>3
  <2>2. J \in SUBSET Slots /\ K \in SUBSET Slots
    OBVIOUS
  <2>3. /\ IsFiniteSet(K) /\ Cardinality(K) \in Nat /\ Cardinality(J) \in Nat
    BY <2>2, SlotsFinite
  <2> HIDE DEF J, K
  <2>4. Cardinality(J) <= Cardinality(K) /\ Cardinality(J) # Cardinality(K)
    BY <2>1, <2>3, FS_Subset
  <2>5. Rank(S, j) = Cardinality(J) /\ Rank(S, k) = Cardinality(K)
    BY DEF Rank, J, K
  <2>6. QED
    BY <2>3, <2>4, <2>5
<1>3. QED
  BY <1>1, <1>2

\* Every number up to that of the houses is that of one of them, and of one only.
LEMMA NthIs ==
    ASSUME NEW S \in SUBSET Slots
    PROVE  /\ \A i \in 1..Cardinality(S) : Nth(S, i) \in S /\ Rank(S, Nth(S, i)) = i
           /\ \A j \in S : Nth(S, Rank(S, j)) = j
<1>1. /\ \A j \in S : Rank(S, j) \in 1..Cardinality(S)
      /\ \A j, k \in S : j < k => Rank(S, j) < Rank(S, k)
  BY RankRises
<1>2. \A j, k \in S : Rank(S, j) = Rank(S, k) => j = k
  <2>1. \A j, k \in S : j \in Int /\ k \in Int /\ Rank(S, j) \in Int /\ Rank(S, k) \in Int
    BY <1>1 DEF Slots
  <2>2. QED
    BY <1>1, <2>1
<1>3. Cardinality(S) \in Nat /\ IsFiniteSet(S)
  BY SlotsFinite
<1>4. ASSUME NEW i \in 1..Cardinality(S) PROVE \E j \in S : Rank(S, j) = i
  <2> DEFINE r == [j \in S |-> Rank(S, j)]
  <2>1. r \in Injection(S, 1..Cardinality(S))
    BY <1>1, <1>2 DEF Injection, IsInjective
  <2>2. IsFiniteSet(1..Cardinality(S)) /\ Cardinality(1..Cardinality(S)) = Cardinality(S)
    BY <1>3, FS_Interval
  <2>3. r \in Surjection(S, 1..Cardinality(S))
    <3> HIDE DEF r
    <3>1. QED
      BY <2>1, <2>2, FS_Injection
  <2>4. QED
    BY <2>3 DEF Surjection
<1>5. \A i \in 1..Cardinality(S) : Nth(S, i) \in S /\ Rank(S, Nth(S, i)) = i
  BY <1>4 DEF Nth
<1>6. \A j \in S : Nth(S, Rank(S, j)) = j
  BY <1>1, <1>2, <1>5
<1>7. QED
  BY <1>5, <1>6

\* Houses that are taken without a gap keep their numbers.
LEMMA NthOfFirst ==
    ASSUME NEW n \in 0..Houses, NEW i \in 1..n
    PROVE  1..n \in SUBSET Slots /\ Cardinality(1..n) = n /\ Nth(1..n, i) = i
<1>1. Houses \in Nat
  BY SlotsAre
<1>2. n \in Nat /\ i \in Nat
  BY <1>1
<1>3. 1..n \in SUBSET Slots
  BY <1>1, <1>2 DEF Slots
<1>4. Cardinality(1..n) = n /\ Cardinality(1..i) = i
  BY <1>2, FS_Interval
<1>5. {k \in 1..n : k <= i} = 1..i
  BY <1>2
<1>6. Rank(1..n, i) = i
  BY <1>4, <1>5 DEF Rank
<1>7. Nth(1..n, i) = i
  BY <1>3, <1>6, NthIs
<1>8. QED
  BY <1>3, <1>4, <1>7

----------------------------------------------------------------------------
(***************************************************************************)
(* Tables and files.                                                       *)
(***************************************************************************)
\* What a house can hold, even when two clients have stored at once and sections are
\* missing.
Card == [name : Names \cup {""}, password : Passwords, admin : BOOLEAN]
File == [version : BOOLEAN, md5 : BOOLEAN, n : Int, house : [Slots -> Card]]

Number(h) == Cardinality(Carded(h))
Stored(h) == FileOf(Number(h), h)

\* A table in which somebody can manage the camera, and every name is told from the
\* others.
Good(h) ==
    /\ h \in [Slots -> User \cup {Empty}]
    /\ \E i \in Slots : h[i].admin = TRUE
    /\ \A i, j \in Carded(h) : h[i].name = h[j].name => i = j

LEMMA NamesAre == Admin \in Names /\ "" \notin Names /\ NoPassword \in Passwords
BY TableAssumption DEF Names, Passwords

LEMMA CardsAre ==
    /\ User \subseteq Card /\ Empty \in Card /\ Ghost \in Card
    /\ Empty \notin User
    /\ Empty.name = "" /\ Empty.admin = FALSE
    /\ \A u \in User : u.name \in Names /\ u.password \in Passwords /\ u.admin \in BOOLEAN
<1>1. User \subseteq Card /\ Empty \in Card /\ Ghost \in Card
  BY NamesAre DEF User, Card, Empty, Ghost
<1>2. Empty \notin User
  BY NamesAre DEF User, Empty
<1>3. Empty.name = "" /\ Empty.admin = FALSE
  BY DEF Empty
<1>4. \A u \in User : u.name \in Names /\ u.password \in Passwords /\ u.admin \in BOOLEAN
  BY DEF User
<1>5. QED
  BY <1>1, <1>2, <1>3, <1>4

LEMMA CardedFinite ==
    ASSUME NEW h
    PROVE  Carded(h) \in SUBSET Slots /\ Number(h) \in 0..Houses
<1>1. Carded(h) \in SUBSET Slots
  BY DEF Carded
<1>2. QED
  BY <1>1, SlotsFinite DEF Number

LEMMA LoadedIs ==
    ASSUME NEW f \in File
    PROVE  /\ Loaded(f) \in [Slots -> Card]
           /\ \A i \in Slots : i > f.n => Loaded(f)[i] = Empty
           /\ \A i \in Slots : i <= f.n /\ i <= Cardinality(Carded(f.house)) =>
                 /\ Nth(Carded(f.house), i) \in Carded(f.house)
                 /\ Loaded(f)[i] = f.house[Nth(Carded(f.house), i)]
<1>1. /\ Carded(f.house) \in SUBSET Slots /\ Cardinality(Carded(f.house)) \in Nat
      /\ f.n \in Int /\ f.house \in [Slots -> Card]
  <2>1. Carded(f.house) \in SUBSET Slots
    BY DEF Carded
  <2>2. QED
    BY <2>1, SlotsFinite DEF File
<1>2. Loaded(f) = [i \in Slots |->
            IF i > f.n THEN Empty
            ELSE IF i > Cardinality(Carded(f.house)) THEN Ghost
            ELSE f.house[Nth(Carded(f.house), i)]]
  BY DEF Loaded, Nth, Rank
<1>3. \A i \in 1..Cardinality(Carded(f.house)) : Nth(Carded(f.house), i) \in Carded(f.house)
  BY <1>1, NthIs
<1>4. ASSUME NEW i \in Slots, i <= Cardinality(Carded(f.house))
      PROVE  Nth(Carded(f.house), i) \in Carded(f.house) /\ f.house[Nth(Carded(f.house), i)] \in Card
  <2>1. i \in 1..Cardinality(Carded(f.house))
    BY <1>1, <1>4, SlotsAre
  <2>2. Nth(Carded(f.house), i) \in Slots
    BY <1>1, <1>3, <2>1
  <2>3. QED
    BY <1>1, <1>3, <2>1, <2>2
<1>5. ASSUME NEW i \in Slots
      PROVE  /\ Loaded(f)[i] \in Card
             /\ i > f.n => Loaded(f)[i] = Empty
             /\ i <= f.n /\ i <= Cardinality(Carded(f.house)) =>
                   Loaded(f)[i] = f.house[Nth(Carded(f.house), i)]
  <2>1. i \in Nat
    BY SlotsAre
  <2>2. Loaded(f)[i] = IF i > f.n THEN Empty
            ELSE IF i > Cardinality(Carded(f.house)) THEN Ghost
            ELSE f.house[Nth(Carded(f.house), i)]
    BY <1>2
  <2>3. /\ i > f.n => Loaded(f)[i] = Empty
        /\ i <= f.n /\ i > Cardinality(Carded(f.house)) => Loaded(f)[i] = Ghost
        /\ i <= f.n /\ i <= Cardinality(Carded(f.house)) =>
              Loaded(f)[i] = f.house[Nth(Carded(f.house), i)]
    BY <1>1, <2>1, <2>2
  <2>4. Empty \in Card /\ Ghost \in Card
    BY CardsAre
  <2>5. QED
    BY <1>1, <1>4, <2>1, <2>3, <2>4
<1>6. Loaded(f) \in [Slots -> Card]
  BY <1>2, <1>5
<1>7. QED
  BY <1>4, <1>5, <1>6

LEMMA StoredIs ==
    ASSUME NEW h, Good(h)
    PROVE  /\ Stored(h) \in File /\ Valid(Stored(h))
           /\ Stored(h).n = Number(h) /\ Stored(h).house = h
<1>1. h \in [Slots -> Card]
  BY CardsAre DEF Good
<1>2. Number(h) \in Int
  BY CardedFinite
<1>3. QED
  BY <1>1, <1>2 DEF Stored, FileOf, File, Valid

\* A sound table that is stored and loaded is sound, has as many users, and is, but for
\* the houses they live in, the same: to store and load it again changes nothing.
LEMMA LoadedGood ==
    ASSUME NEW h, Good(h)
    PROVE  /\ Good(Loaded(Stored(h)))
           /\ Number(Loaded(Stored(h))) = Number(h)
           /\ Loaded(Stored(Loaded(Stored(h)))) = Loaded(Stored(h))
<1> DEFINE l == Loaded(Stored(h))
           n == Number(h)
           S == Carded(h)
<1>1. /\ S \in SUBSET Slots /\ n \in 0..Houses /\ n = Cardinality(S)
  BY CardedFinite DEF Number
<1>2. /\ l \in [Slots -> Card]
      /\ \A i \in Slots : i > n => l[i] = Empty
      /\ \A i \in Slots : i <= n => Nth(S, i) \in S /\ l[i] = h[Nth(S, i)]
  <2>1. Stored(h) \in File /\ Stored(h).n = Number(h) /\ Stored(h).house = h
    BY StoredIs
  <2>2. QED
    BY <1>1, <2>1, LoadedIs
<1>3. \A j \in S : h[j] \in User /\ h[j] # Empty
  BY <1>1 DEF Good, Carded
<1> HIDE DEF l, n, S
<1>4. /\ Houses \in Nat /\ n \in Nat /\ n <= Houses /\ Slots \subseteq Nat
      /\ \A i : i \in 1..n <=> i \in Slots /\ i <= n
  BY <1>1, SlotsAre
<1>5. l \in [Slots -> User \cup {Empty}]
  <2>1. ASSUME NEW i \in Slots PROVE l[i] \in User \cup {Empty}
    BY <1>2, <1>3, <1>4
  <2>2. QED
    BY <1>2, <2>1
<1>6. Carded(l) = 1..n
  <2>1. ASSUME NEW i \in Slots PROVE l[i] # Empty <=> i <= n
    BY <1>2, <1>3, <1>4
  <2>2. QED
    BY <1>4, <2>1 DEF Carded
<1>7. Number(l) = n
  <2>1. Cardinality(1..n) = n
    BY <1>4, FS_Interval
  <2>2. QED
    BY <1>6, <2>1 DEF Number
<1>8. \A i \in 1..n : Rank(S, Nth(S, i)) = i
  BY <1>1, NthIs
<1>9. \A j \in S : Rank(S, j) \in 1..n /\ Nth(S, Rank(S, j)) = j
  BY <1>1, RankRises, NthIs
<1>10. Good(l)
  <2>1. PICK j \in Slots : h[j].admin = TRUE
    BY DEF Good
  <2>2. j \in S
    BY <2>1, CardsAre DEF Good, Carded, S
  <2>3. Rank(S, j) \in Slots /\ l[Rank(S, j)] = h[j]
    BY <1>2, <1>4, <1>9, <2>2
  <2>4. ASSUME NEW i \in Carded(l), NEW k \in Carded(l), l[i].name = l[k].name PROVE i = k
    <3>1. /\ i \in 1..n /\ k \in 1..n
          /\ Nth(S, i) \in S /\ Nth(S, k) \in S /\ l[i] = h[Nth(S, i)] /\ l[k] = h[Nth(S, k)]
      BY <1>2, <1>4, <1>6
    <3>2. \A a, b \in S : h[a].name = h[b].name => a = b
      BY DEF Good, S
    <3>3. Nth(S, i) = Nth(S, k)
      BY <2>4, <3>1, <3>2
    <3>4. QED
      BY <1>8, <3>1, <3>3
  <2>5. QED
    BY <1>5, <2>1, <2>3, <2>4 DEF Good
<1>11. Loaded(Stored(l)) = l
  <2>1. Stored(l) \in File /\ Stored(l).n = n /\ Stored(l).house = l
    BY <1>7, <1>10, StoredIs
  <2>2. Cardinality(Carded(Stored(l).house)) = n
    BY <1>7, <2>1 DEF Number
  <2>3. /\ Loaded(Stored(l)) \in [Slots -> Card]
        /\ \A i \in Slots : i > n => Loaded(Stored(l))[i] = Empty
        /\ \A i \in Slots : i <= n => Loaded(Stored(l))[i] = l[Nth(1..n, i)]
    BY <1>6, <2>1, <2>2, LoadedIs
  <2>4. ASSUME NEW i \in Slots PROVE Loaded(Stored(l))[i] = l[i]
    <3>1. CASE i > n
      BY <1>2, <2>3, <3>1
    <3>2. CASE ~(i > n)
      <4>1. i \in 1..n /\ i <= n
        BY <1>4, <3>2
      <4>2. Nth(1..n, i) = i
        BY <1>1, <4>1, NthOfFirst
      <4>3. QED
        BY <2>3, <4>1, <4>2
    <3>3. QED
      BY <3>1, <3>2
  <2>5. QED
    BY <1>2, <2>3, <2>4
<1>12. QED
  BY <1>7, <1>10, <1>11 DEF l, n

\* The table of the factory is sound, and a restart from it, or from a file that is not
\* valid, brings it back.
LEMMA FactoryGood ==
    /\ Good(Factory) /\ Number(Factory) = 1
    /\ Restarted(Stored(Factory)) = Factory
<1> DEFINE a == [name |-> Admin, password |-> NoPassword, admin |-> TRUE]
<1>1. a \in User /\ a # Empty /\ a.admin = TRUE
  BY NamesAre DEF User, Empty
<1> HIDE DEF a
<1>2. /\ Factory \in [Slots -> User \cup {Empty}] /\ Factory[1] = a /\ 1 \in Slots
      /\ \A i \in Slots \ {1} : Factory[i] = Empty
  <2>1. 1 \in Slots
    BY SlotsAre
  <2>2. Factory = [Free EXCEPT ![1] = a] /\ Free = [i \in Slots |-> Empty]
    BY DEF Factory, Free, a
  <2>3. QED
    BY <1>1, <2>1, <2>2
<1>3. Carded(Factory) = {1}
  BY <1>1, <1>2 DEF Carded
<1>4. Good(Factory)
  BY <1>1, <1>2, <1>3 DEF Good
<1>5. Number(Factory) = 1
  BY <1>3, FS_Singleton DEF Number
<1>6. 1 \in 0..Houses /\ 1..1 = {1}
  BY SlotsAre
<1>7. Nth({1}, 1) = 1
  BY <1>6, NthOfFirst
<1>8. Loaded(Stored(Factory)) = Factory
  <2>1. Stored(Factory) \in File /\ Stored(Factory).n = 1 /\ Stored(Factory).house = Factory
    BY <1>4, <1>5, StoredIs
  <2>2. Cardinality(Carded(Factory)) = 1
    BY <1>5 DEF Number
  <2>3. /\ Loaded(Stored(Factory)) \in [Slots -> Card]
        /\ \A i \in Slots : i > 1 => Loaded(Stored(Factory))[i] = Empty
        /\ \A i \in Slots : i <= 1 => Loaded(Stored(Factory))[i] = Factory[Nth({1}, i)]
    BY <1>3, <2>1, <2>2, LoadedIs
  <2>4. \A i \in Slots : Loaded(Stored(Factory))[i] = Factory[i]
    <3>1. \A i \in Slots : (i = 1 /\ i <= 1) \/ (i # 1 /\ i > 1)
      BY SlotsAre
    <3>2. QED
      BY <1>2, <1>7, <2>3, <3>1
  <2>5. QED
    BY <1>2, <2>3, <2>4
<1>9. QED
  BY <1>4, <1>5, <1>8, StoredIs DEF Restarted

----------------------------------------------------------------------------
(***************************************************************************)
(* What a change makes of a sound table.                                   *)
(***************************************************************************)
LEMMA CardEdits ==
    ASSUME NEW p \in Passwords, NEW a \in BOOLEAN
    PROVE  /\ \A u \in Card : [u EXCEPT !.password = p] \in Card /\ [u EXCEPT !.admin = a] \in Card
           /\ \A u \in User :
                 /\ [u EXCEPT !.password = p] \in User
                 /\ [u EXCEPT !.password = p].name = u.name
                 /\ [u EXCEPT !.password = p].admin = u.admin
                 /\ [u EXCEPT !.admin = a] \in User
                 /\ [u EXCEPT !.admin = a].name = u.name
BY DEF Card, User

\* A user is added to a house that was free, with a name that nobody had.
LEMMA AddedGood ==
    ASSUME NEW h, Good(h), NEW u \in User, NEW i \in Slots \ Carded(h),
           \A j \in Carded(h) : h[j].name # u.name
    PROVE  LET g == [h EXCEPT ![i] = u]
           IN  Good(g) /\ Number(g) = Number(h) + 1
<1> DEFINE g == [h EXCEPT ![i] = u]
<1>1. /\ h \in [Slots -> User \cup {Empty}] /\ h[i] = Empty /\ u # Empty
      /\ \A j \in Slots : j \in Carded(h) <=> h[j] # Empty
  BY CardsAre DEF Good, Carded
<1>2. g \in [Slots -> User \cup {Empty}] /\ g[i] = u /\ \A j \in Slots \ {i} : g[j] = h[j]
  BY <1>1
<1> HIDE DEF g
<1>3. Carded(g) = Carded(h) \cup {i}
  <2>1. Carded(g) = {j \in Slots : g[j] # Empty} /\ Carded(h) = {j \in Slots : h[j] # Empty}
    BY DEF Carded
  <2>2. QED
    BY <1>1, <1>2, <2>1
<1>4. Good(g)
  <2>1. \E j \in Slots : g[j].admin = TRUE
    <3>1. PICK j \in Slots : h[j].admin = TRUE
      BY DEF Good
    <3>2. j # i
      BY <1>1, <3>1, CardsAre
    <3>3. QED
      BY <1>2, <3>1, <3>2
  <2>2. ASSUME NEW j \in Carded(g), NEW k \in Carded(g), g[j].name = g[k].name PROVE j = k
    <3>1. \A a, b \in Carded(h) : h[a].name = h[b].name => a = b
      BY DEF Good
    <3>2. \A a \in Carded(h) : g[a] = h[a]
      BY <1>2 DEF Carded
    <3>3. QED
      BY <1>2, <1>3, <2>2, <3>1, <3>2
  <2>3. QED
    BY <1>2, <2>1, <2>2 DEF Good
<1>5. Number(g) = Number(h) + 1
  <2>1. IsFiniteSet(Carded(h))
    BY CardedFinite, SlotsFinite
  <2>2. QED
    BY <1>3, <2>1, FS_AddElement DEF Number
<1>6. QED
  BY <1>4, <1>5 DEF g

\* A user is deleted who has another name than some administrator.
LEMMA DeletedGood ==
    ASSUME NEW h, Good(h), NEW i \in Carded(h), NEW m \in Carded(h),
           h[m].admin = TRUE, h[i].name # h[m].name
    PROVE  LET g == [h EXCEPT ![i] = Empty]
           IN  Good(g) /\ Number(g) = Number(h) - 1
<1> DEFINE g == [h EXCEPT ![i] = Empty]
<1>1. /\ h \in [Slots -> User \cup {Empty}] /\ i \in Slots /\ m \in Slots /\ i # m
      /\ \A j \in Slots : j \in Carded(h) <=> h[j] # Empty
  BY DEF Good, Carded
<1>2. g \in [Slots -> User \cup {Empty}] /\ g[i] = Empty /\ \A j \in Slots \ {i} : g[j] = h[j]
  BY <1>1
<1> HIDE DEF g
<1>3. Carded(g) = Carded(h) \ {i}
  <2>1. Carded(g) = {j \in Slots : g[j] # Empty} /\ Carded(h) = {j \in Slots : h[j] # Empty}
    BY DEF Carded
  <2>2. QED
    BY <1>1, <1>2, <2>1
<1>4. Good(g)
  <2>1. m \in Slots /\ g[m].admin = TRUE
    BY <1>1, <1>2
  <2>2. ASSUME NEW j \in Carded(g), NEW k \in Carded(g), g[j].name = g[k].name PROVE j = k
    <3>1. \A a, b \in Carded(h) : h[a].name = h[b].name => a = b
      BY DEF Good
    <3>2. \A a \in Carded(g) : g[a] = h[a]
      BY <1>2, <1>3 DEF Carded
    <3>3. QED
      BY <1>3, <2>2, <3>1, <3>2
  <2>3. QED
    BY <1>2, <2>1, <2>2 DEF Good
<1>5. Number(g) = Number(h) - 1
  <2>1. IsFiniteSet(Carded(h))
    BY CardedFinite, SlotsFinite
  <2>2. QED
    BY <1>3, <2>1, FS_RemoveElement DEF Number
<1>6. QED
  BY <1>4, <1>5 DEF g

\* A user keeps house and name, and an administrator there remains.
LEMMA EditedGood ==
    ASSUME NEW h, Good(h), NEW i \in Carded(h), NEW u \in User, u.name = h[i].name,
           u.admin = h[i].admin \/ \E m \in Carded(h) \ {i} : h[m].admin = TRUE
    PROVE  LET g == [h EXCEPT ![i] = u]
           IN  Good(g) /\ Number(g) = Number(h)
<1> DEFINE g == [h EXCEPT ![i] = u]
<1>1. /\ h \in [Slots -> User \cup {Empty}] /\ i \in Slots /\ u # Empty
      /\ \A j \in Slots : j \in Carded(h) <=> h[j] # Empty
  BY CardsAre DEF Good, Carded
<1>2. g \in [Slots -> User \cup {Empty}] /\ g[i] = u /\ \A j \in Slots \ {i} : g[j] = h[j]
  BY <1>1
<1> HIDE DEF g
<1>3. Carded(g) = Carded(h)
  <2>1. Carded(g) = {j \in Slots : g[j] # Empty} /\ Carded(h) = {j \in Slots : h[j] # Empty}
    BY DEF Carded
  <2>2. QED
    BY <1>1, <1>2, <2>1
<1>4. Good(g)
  <2>1. \E j \in Slots : g[j].admin = TRUE
    <3>1. CASE u.admin = h[i].admin
      <4>1. PICK j \in Slots : h[j].admin = TRUE
        BY DEF Good
      <4>2. QED
        BY <1>1, <1>2, <3>1, <4>1
    <3>2. CASE \E m \in Carded(h) \ {i} : h[m].admin = TRUE
      BY <1>2, <3>2 DEF Carded
    <3>3. QED
      BY <3>1, <3>2
  <2>2. \A j \in Carded(g) : g[j].name = h[j].name
    BY <1>2 DEF Carded
  <2>3. \A a, b \in Carded(h) : h[a].name = h[b].name => a = b
    BY DEF Good
  <2>4. QED
    BY <1>2, <1>3, <2>1, <2>2, <2>3 DEF Good
<1>5. QED
  BY <1>3, <1>4 DEF g, Number

----------------------------------------------------------------------------
(***************************************************************************)
(* The inductive invariant.                                                *)
(***************************************************************************)
Spots == {"idle", "in", "checked", "exit"} \cup Calling \cup Storing

Types ==
    /\ house \in [Slots -> Card] /\ kept \in [Slots -> Card]
    /\ nUser \in Int
    /\ at \in [Clients -> Spots]
    /\ who \in [Clients -> Slots \cup {Super}]
    /\ what \in [Clients -> Names \cup {""}]
    /\ count \in [Clients -> Int]
    /\ temp \in File /\ flash \in File
    /\ buf \in [Clients -> File]
    /\ up \in BOOLEAN /\ clashed \in BOOLEAN

\* A client that has checked its password has a house, and until USRM_init has returned
\* there is nobody but it.
Places ==
    /\ \A c \in Clients : at[c] = "checked" => who[c] \in Slots
    /\ ~up => \A c \in Clients : at[c] = "idle" \/ (c = Main /\ at[c] \in Storing)

\* What a restart takes for a table is one that was stored whole.
FlashSound == Valid(flash) => Good(flash.house) /\ flash = Stored(flash.house)

Alone == \A c, d \in Clients : at[c] \in Storing /\ at[d] \in Storing => c = d

\* A store that nobody disturbs carries the table from step to step.
Carried ==
    \A c \in Clients :
        /\ at[c] = "collect" => count[c] = nUser
        /\ at[c] \in {"read", "write"} => temp = Stored(house)
        /\ at[c] = "write" => buf[c] = Stored(house)

\* Whoever reads the file reads the table.
Current(f) == Valid(f) /\ Loaded(f) = Loaded(Stored(house))

Quiet == up /\ \A c \in Clients : at[c] \notin Storing

\* A client that is about to delete or edit another lives there, as an administrator,
\* under a name that is not the other's.
Approved ==
    \A c \in Clients : at[c] \in Others =>
        who[c] \in Carded(house) /\ house[who[c]].admin = TRUE /\ house[who[c]].name # what[c]

Sound ==
    /\ Good(house) /\ nUser = Number(house) /\ Approved
    /\ Alone /\ Carried
    /\ Restarted(flash) = Restarted(Stored(kept))
    /\ Quiet => Current(flash) /\ Current(temp)

TableInv ==
    /\ Types /\ Places
    /\ ~clashed => FlashSound
    /\ ~clashed /\ Running => Sound

LEMMA BlankIs == Blank \in File /\ ~Valid(Blank) /\ Free \in [Slots -> Card]
<1>1. Free \in [Slots -> Card]
  BY CardsAre DEF Free
<1>2. QED
  BY <1>1 DEF Blank, File, Valid

LEMMA TornIs == ASSUME NEW f \in File PROVE Torn(f) \in File /\ ~Valid(Torn(f))
BY BlankIs DEF Torn, File, Valid

LEMMA RemainsAre == ASSUME Types PROVE Remains \subseteq File
<1>1. ASSUME NEW c \in Writers PROVE buf[c] \in File /\ Torn(buf[c]) \in File
  BY TornIs DEF Writers, Types
<1>2. flash \in File
  BY DEF Types
<1>3. QED
  BY <1>1, <1>2 DEF Remains

LEMMA FactoryIs == Factory \in [Slots -> Card] /\ Stored(Factory) \in File
<1>1. Good(Factory)
  BY FactoryGood
<1>2. Factory \in [Slots -> Card]
  BY <1>1, CardsAre DEF Good
<1>3. QED
  BY <1>1, <1>2, StoredIs

LEMMA SpotsAre ==
    /\ {"idle", "in", "checked", "exit", "reset", "add", "del", "edit"} \subseteq Spots
    /\ {"count", "collect", "read", "write"} \subseteq Spots
    /\ Others \subseteq Spots /\ Storing \subseteq Spots
BY DEF Spots, Calling, Others, Storing

LEMMA InitInv == Init => TableInv
<1> SUFFICES ASSUME Init PROVE TableInv
  OBVIOUS
<1>1. /\ house = Free /\ nUser = 0 /\ temp = Blank /\ flash = Blank /\ kept = Factory
      /\ at = [c \in Clients |-> "idle"] /\ who = [c \in Clients |-> Super]
      /\ what = [c \in Clients |-> ""]
      /\ count = [c \in Clients |-> 0] /\ buf = [c \in Clients |-> Blank]
      /\ up = FALSE /\ clashed = FALSE
  BY Zenon DEF Init
<1>2. Types
  <2>1. house \in [Slots -> Card] /\ kept \in [Slots -> Card]
    BY <1>1, BlankIs, FactoryIs
  <2>2. at \in [Clients -> Spots]
    <3>1. at = [c \in Clients |-> "idle"] /\ "idle" \in Spots
      BY <1>1, SpotsAre, Zenon
    <3>2. QED
      BY <3>1
  <2>a. what \in [Clients -> Names \cup {""}]
    <3>1. what = [c \in Clients |-> ""]
      BY <1>1, Zenon
    <3>2. QED
      BY <3>1
  <2>3. who \in [Clients -> Slots \cup {Super}]
    <3>1. who = [c \in Clients |-> Super]
      BY <1>1, Zenon
    <3>2. QED
      BY <3>1
  <2>b. count \in [Clients -> Int] /\ nUser \in Int
    <3>1. count = [c \in Clients |-> 0] /\ nUser = 0
      BY <1>1, Zenon
    <3>2. QED
      BY <3>1
  <2>4. temp \in File /\ flash \in File
    BY <1>1, BlankIs
  <2>5. buf \in [Clients -> File]
    <3>1. buf = [c \in Clients |-> Blank] /\ Blank \in File
      BY <1>1, BlankIs
    <3>2. QED
      BY <3>1
  <2>6. up \in BOOLEAN /\ clashed \in BOOLEAN
    BY <1>1
  <2>7. QED
    BY <2>1, <2>2, <2>3, <2>4, <2>5, <2>6, <2>a, <2>b, Zenon DEF Types
<1>3. Places /\ ~Running
  <2>1. \A c \in Clients : at[c] = "idle"
    BY <1>1
  <2>2. at[Main] = "idle"
    BY <2>1 DEF Clients
  <2>3. ~Running
    BY <1>1, <2>2, Zenon DEF Running
  <2>4. Places
    BY <2>1 DEF Places
  <2>5. QED
    BY <2>3, <2>4
<1>4. FlashSound
  BY <1>1, BlankIs DEF FlashSound
<1>5. QED
  BY <1>2, <1>3, <1>4 DEF TableInv

----------------------------------------------------------------------------
(***************************************************************************)
(* What every change does, besides what it does to the table.              *)
(***************************************************************************)
LEMMA ChangedIs ==
    ASSUME Types, Places, NEW c \in Clients, Changed(c), at[c] # "idle" \/ up
    PROVE  /\ at' \in [Clients -> Spots]
           /\ at'[c] = "count" /\ \A d \in Clients \ {c} : at'[d] = at[d]
           /\ UNCHANGED <<who, count, temp, buf, flash, up, kept>>
           /\ what' \in [Clients -> Names \cup {""}]
           /\ clashed' \in BOOLEAN
           /\ ~clashed' => ~clashed /\ Undisturbed(c)
           /\ Places'
<1>1. /\ at' = [at EXCEPT ![c] = "count"] /\ UNCHANGED <<who, count, temp, buf, flash, up, kept>>
      /\ clashed' = (clashed \/ ~Undisturbed(c))
  BY Zenon DEF Changed, Go, files
<1>2. at \in [Clients -> Spots] /\ "count" \in Spots /\ "count" \in Storing
  BY DEF Types, Storing, Spots
<1>3. /\ at' \in [Clients -> Spots]
      /\ at'[c] = "count" /\ \A d \in Clients \ {c} : at'[d] = at[d]
  BY <1>1, <1>2
<1>4. clashed' \in BOOLEAN /\ (~clashed' => ~clashed /\ Undisturbed(c))
  BY <1>1, Zenon
<1>5. ASSUME NEW d \in Clients, at'[d] = "checked" PROVE who'[d] \in Slots
  BY <1>1, <1>3, <1>5 DEF Places
<1>6. ASSUME ~up' PROVE \A d \in Clients : at'[d] = "idle" \/ (d = Main /\ at'[d] \in Storing)
  <2>1. up' = up
    BY <1>1
  <2>2. ~up
    BY <1>6, <2>1, Zenon
  <2>3. \A d \in Clients : at[d] = "idle" \/ (d = Main /\ at[d] \in Storing)
    BY <2>2, Zenon DEF Places
  <2>4. c = Main
    BY <2>2, <2>3, Zenon
  <2>5. QED
    BY <1>2, <1>3, <2>3, <2>4
<1>8. what' \in [Clients -> Names \cup {""}]
  BY DEF Changed, Name, Types
<1>7. QED
  BY <1>1, <1>3, <1>4, <1>5, <1>6, <1>8 DEF Places

\* The step of a client from one place to another that changes nothing else of note.
LEMMA MovedTo ==
    ASSUME Types, Places, NEW c \in Clients, NEW place \in Spots,
           Go(c, place), \A d \in Clients \ {c} : who'[d] = who[d],
           place = "checked" => who'[c] \in Slots,
           up' \in BOOLEAN, ~up' => ~up, ~up /\ ~up' => c = Main /\ place \in {"idle"} \cup Storing
    PROVE  /\ at' \in [Clients -> Spots]
           /\ at'[c] = place /\ \A d \in Clients \ {c} : at'[d] = at[d]
           /\ Places'
<1>1. at' = [at EXCEPT ![c] = place] /\ at \in [Clients -> Spots]
  BY DEF Go, Types
<1>2. /\ at' \in [Clients -> Spots]
      /\ at'[c] = place /\ \A d \in Clients \ {c} : at'[d] = at[d]
  BY <1>1
<1>3. \A d \in Clients : at'[d] = "checked" => who'[d] \in Slots
  BY <1>2 DEF Places
<1>4. ASSUME ~up' PROVE \A d \in Clients : at'[d] = "idle" \/ (d = Main /\ at'[d] \in Storing)
  <2>1. c = Main /\ place \in {"idle"} \cup Storing
    BY <1>4
  <2>2. \A d \in Clients \ {c} : at[d] = "idle"
    BY <1>4, <2>1 DEF Places
  <2>3. QED
    BY <1>2, <2>1, <2>2
<1>5. QED
  BY <1>2, <1>3, <1>4 DEF Places

\* A client that is not idle, or a step of a store, before USRM_init has returned is
\* that of USRM_init.
LEMMA OnlyMain ==
    ASSUME Places, NEW c \in Clients, ~up, at[c] # "idle"
    PROVE  c = Main /\ at[c] \in Storing
BY DEF Places, Clients

LEMMA ChangedTypes ==
    ASSUME Types, Places, NEW c \in Clients, Changed(c), at[c] # "idle" \/ up,
           house' \in [Slots -> Card], nUser' \in Int
    PROVE  Types' /\ Places'
<1>1. /\ at' \in [Clients -> Spots] /\ what' \in [Clients -> Names \cup {""}]
      /\ UNCHANGED <<who, count, temp, buf, flash, up, kept>>
      /\ clashed' \in BOOLEAN /\ Places'
  BY ChangedIs
<1>2. /\ who' \in [Clients -> Slots \cup {Super}] /\ count' \in [Clients -> Int]
      /\ temp' \in File /\ flash' \in File /\ buf' \in [Clients -> File]
      /\ kept' \in [Slots -> Card]
  BY <1>1 DEF Types
<1>3. up' \in BOOLEAN
  BY <1>1 DEF Types
<1>4. QED
  BY <1>1, <1>2, <1>3, Zenon DEF Types

\* Whatever a change does to n_user, it stays a number.
LEMMA NUserIs ==
    ASSUME Types
    PROVE  nUser \in Int /\ nUser + 1 \in Int /\ nUser - 1 \in Int
<1>1. nUser \in Int
  BY Zenon DEF Types
<1>2. QED
  BY <1>1

LEMMA RequestTypes ==
    ASSUME Types, Places, NEW c \in Clients, Request(c)
    PROVE  Types' /\ Places'
<1>0. up \in BOOLEAN
  BY DEF Types
<1>1. CASE Login(c)
  <2>1. /\ Go(c, "in") /\ UNCHANGED <<table, what, files, up, history>>
        /\ at[c] = "idle"
    BY <1>1, Zenon DEF Login
  <2>0. up
    BY <1>1, Zenon DEF Login
  <2>2. PICK i \in Carded(house) \cup (IF c \in Webs THEN {Super} ELSE {}) :
            who' = [who EXCEPT ![c] = i]
    BY <1>1 DEF Login
  <2>3. i \in Slots \cup {Super}
    BY <2>2 DEF Carded
  <2>4. who' \in [Clients -> Slots \cup {Super}] /\ \A d \in Clients \ {c} : who'[d] = who[d]
    BY <2>2, <2>3 DEF Types
  <2>5. up'
    BY <2>0, <2>1, Zenon
  <2>6. at' \in [Clients -> Spots] /\ Places'
    BY <1>0, <2>1, <2>0, <2>4, <2>5, MovedTo, SpotsAre
  <2>7. QED
    BY <2>1, <2>4, <2>6 DEF Types, table, files, history
<1>2. CASE Logout(c)
  <2>1. /\ Go(c, "idle") /\ UNCHANGED <<table, files, up, history>>
        /\ Name(c, "") /\ Forget(c)
    BY <1>2, Zenon DEF Logout
  <2>0. at[c] # "idle"
    BY <1>2 DEF Logout, Others
  <2>2. up' = up
    BY <2>1
  <2>3. ~up => c = Main
    BY <2>0, OnlyMain
  <2>4. /\ who' \in [Clients -> Slots \cup {Super}] /\ what' \in [Clients -> Names \cup {""}]
        /\ \A d \in Clients \ {c} : who'[d] = who[d]
    BY <2>1 DEF Types, Name, Forget
  <2>5. at' \in [Clients -> Spots] /\ Places'
    <3>1. "idle" \in Spots /\ ~("idle" = "checked") /\ up' \in BOOLEAN /\ (~up' => ~up)
      BY <1>0, <2>2, SpotsAre
    <3>2. QED
      BY <2>1, <2>3, <2>4, <3>1, MovedTo
  <2>6. QED
    BY <2>1, <2>4, <2>5 DEF Types, table, files, history
<1>3. CASE CheckPassword(c) \/ CheckAdmin(c) \/ StartReset(c)
  <2>1. UNCHANGED <<table, who, files, up, history>>
    BY <1>3 DEF CheckPassword, CheckAdmin, StartReset
  <2>2. \E place \in {"checked", "add", "reset"} \cup Others :
            Go(c, place) /\ (place = "checked" => CheckPassword(c))
    <3>1. CASE CheckPassword(c)
      BY <3>1, Zenon DEF CheckPassword
    <3>2. CASE CheckAdmin(c)
      <4>1. \E place \in {"add"} \cup Others : Go(c, place)
        BY <3>2, Zenon DEF CheckAdmin
      <4>2. QED
        BY <4>1 DEF Others
    <3>3. CASE StartReset(c)
      <4>1. Go(c, "reset")
        BY <3>3, Zenon DEF StartReset
      <4>2. QED
        BY <4>1
    <3>4. QED
      BY <1>3, <3>1, <3>2, <3>3
  <2>b. PICK place \in {"checked", "add", "reset"} \cup Others :
            Go(c, place) /\ (place = "checked" => CheckPassword(c))
    BY <2>2
  <2>3. what' \in [Clients -> Names \cup {""}]
    <3>1. CASE UNCHANGED what
      BY <3>1 DEF Types
    <3>2. CASE ~UNCHANGED what
      <4>1. PICK n \in Names : Name(c, n)
        BY <1>3, <3>2 DEF CheckPassword, CheckAdmin, StartReset
      <4>2. QED
        BY <4>1 DEF Name, Types
    <3>3. QED
      BY <3>1, <3>2
  <2>4. place = "checked" => who'[c] \in Slots
    BY <2>1, <2>b DEF CheckPassword, LoggedIn, Types
  <2>5. up
    <3>1. CASE StartReset(c) /\ at[c] # "in"
      BY <3>1, Zenon DEF StartReset
    <3>2. CASE ~(StartReset(c) /\ at[c] # "in")
      <4>1. at[c] = "in"
        BY <1>3, <3>2 DEF CheckPassword, CheckAdmin, LoggedIn
      <4>2. QED
        BY <4>1, OnlyMain DEF Storing
    <3>3. QED
      BY <3>1, <3>2
  <2>6. up' = up /\ who' = who
    BY <2>1
  <2>7. at' \in [Clients -> Spots] /\ Places'
    <3>1. place \in Spots /\ up'
      BY <2>5, <2>6, SpotsAre, Zenon
    <3>2. QED
      BY <1>0, <2>b, <2>4, <2>5, <2>6, <3>1, MovedTo
  <2>8. QED
    BY <2>1, <2>3, <2>7 DEF Types, table, files, history
<1>4. CASE SetPassword(c)
  <2>1. PasswordSet(c) /\ Changed(c) /\ nUser' = nUser /\ at[c] = "checked"
    BY <1>4 DEF SetPassword
  <2>2. house' \in [Slots -> Card]
    <3>1. PICK p \in Passwords :
            house' = IF Me(c) = Empty THEN house ELSE [house EXCEPT ![who[c]].password = p]
      BY <2>1 DEF PasswordSet
    <3>2. \A u \in Card : [u EXCEPT !.password = p] \in Card
      BY CardEdits
    <3>3. who[c] \in Slots /\ house \in [Slots -> Card]
      BY <2>1 DEF Places, Types
    <3>4. [house EXCEPT ![who[c]].password = p] \in [Slots -> Card]
      BY <3>2, <3>3
    <3>5. QED
      BY <3>1, <3>3, <3>4
  <2>a. nUser' \in Int
    BY <2>1, NUserIs
  <2>3. QED
    BY <2>1, <2>2, <2>a, ChangedTypes
<1>5. CASE AddUser(c)
  <2>1. Changed(c) /\ nUser' = nUser + 1 /\ at[c] = "add"
    BY <1>5 DEF AddUser
  <2>2. house' \in [Slots -> Card]
    <3>1. PICK u \in User, i \in Slots \ Carded(house) : house' = [house EXCEPT ![i] = u]
      BY <1>5 DEF AddUser
    <3>2. u \in Card /\ house \in [Slots -> Card]
      BY CardsAre DEF Types
    <3>3. QED
      BY <3>1, <3>2
  <2>a. nUser' \in Int
    BY <2>1, NUserIs
  <2>3. QED
    BY <2>1, <2>2, <2>a, ChangedTypes
<1>6. CASE DelUser(c)
  <2>1. Changed(c) /\ nUser' = nUser - 1 /\ at[c] = "del"
    BY <1>6 DEF DelUser
  <2>2. house' \in [Slots -> Card]
    <3>1. PICK i \in Carded(house) : house' = [house EXCEPT ![i] = Empty]
      BY <1>6 DEF DelUser
    <3>2. Empty \in Card /\ house \in [Slots -> Card]
      BY CardsAre DEF Types
    <3>3. QED
      BY <3>1, <3>2
  <2>a. nUser' \in Int
    BY <2>1, NUserIs
  <2>3. QED
    BY <2>1, <2>2, <2>a, ChangedTypes
<1>7. CASE EditUser(c)
  <2>1. Changed(c) /\ nUser' = nUser /\ at[c] = "edit"
    BY <1>7 DEF EditUser
  <2>2. house' \in [Slots -> Card]
    <3>1. PICK i \in Carded(house), a \in BOOLEAN : house' = [house EXCEPT ![i].admin = a]
      BY <1>7 DEF EditUser
    <3>2. NoPassword \in Passwords
      BY NamesAre
    <3>3. \A u \in Card : [u EXCEPT !.admin = a] \in Card
      BY <3>2, CardEdits
    <3>4. i \in Slots /\ house \in [Slots -> Card]
      BY DEF Carded, Types
    <3>5. QED
      BY <3>1, <3>3, <3>4
  <2>a. nUser' \in Int
    BY <2>1, NUserIs
  <2>3. QED
    BY <2>1, <2>2, <2>a, ChangedTypes
<1>8. CASE ResetTable(c)
  <2>1. Changed(c) /\ nUser' = 1 /\ house' = Factory /\ at[c] = "reset"
    BY <1>8 DEF ResetTable
  <2>2. house' \in [Slots -> Card]
    BY <2>1, FactoryIs, Zenon
  <2>3. nUser' \in Int
    BY <2>1
  <2>4. QED
    BY <2>1, <2>2, <2>3, ChangedTypes
<1>9. QED
  BY <1>1, <1>2, <1>3, <1>4, <1>5, <1>6, <1>7, <1>8, Zenon DEF Request

LEMMA StoreTypes ==
    ASSUME Types, Places, NEW c \in Clients, Store(c)
    PROVE  Types' /\ Places'
<1>0. up \in BOOLEAN /\ Houses \in Nat
  BY SlotsAre DEF Types
<1>1. CASE ClearTemp(c)
  <2>1. /\ Go(c, "collect") /\ UNCHANGED <<table, who, what, buf, flash, up, history>> /\ at[c] = "count"
        /\ temp' = Blank /\ count' = [count EXCEPT ![c] = nUser]
    BY <1>1, Zenon DEF ClearTemp
  <2>2. temp' \in File /\ count' \in [Clients -> Int]
    BY <2>1, BlankIs DEF Types
  <2>3. ~up => c = Main
    BY <2>1, OnlyMain
  <2>4. at' \in [Clients -> Spots] /\ Places'
    BY <1>0, <2>1, <2>3, MovedTo, SpotsAre DEF Storing
  <2>5. QED
    BY <2>1, <2>2, <2>4 DEF Types, table, history
<1>2. CASE WriteTemp(c)
  <2>1. /\ Go(c, "read") /\ UNCHANGED <<table, who, what, buf, flash, up, history>> /\ at[c] = "collect"
        /\ temp' = FileOf(count[c], house) /\ count' = [count EXCEPT ![c] = 0]
    BY <1>2, Zenon DEF WriteTemp
  <2>2. temp' \in File
    BY <2>1 DEF Types, File, FileOf
  <2>a. count' \in [Clients -> Int]
    <3>1. count' = [count EXCEPT ![c] = 0]
      BY <2>1, Zenon
    <3>2. count \in [Clients -> Int]
      BY Zenon DEF Types
    <3>3. QED
      BY <3>1, <3>2
  <2>3. ~up => c = Main
    BY <2>1, OnlyMain
  <2>4. at' \in [Clients -> Spots] /\ Places'
    BY <1>0, <2>1, <2>3, MovedTo, SpotsAre DEF Storing
  <2>5. QED
    BY <2>1, <2>2, <2>4, <2>a DEF Types, table, history
<1>3. CASE ReadTemp(c)
  <2>1. /\ Go(c, "write") /\ UNCHANGED <<table, who, what, count, temp, flash, up, history>> /\ at[c] = "read"
        /\ buf' = [buf EXCEPT ![c] = temp]
    BY <1>3, Zenon DEF ReadTemp
  <2>2. buf' \in [Clients -> File]
    BY <2>1 DEF Types
  <2>3. ~up => c = Main
    BY <2>1, OnlyMain
  <2>4. at' \in [Clients -> Spots] /\ Places'
    BY <1>0, <2>1, <2>3, MovedTo, SpotsAre DEF Storing
  <2>5. QED
    BY <2>1, <2>2, <2>4 DEF Types, table, history
<1>4. CASE WriteFlash(c)
  <2>1. /\ UNCHANGED <<table, what, count, temp, clashed, changes, crashes>> /\ at[c] = "write"
        /\ flash' = buf[c] /\ kept' = house /\ up' = TRUE /\ Forget(c)
        /\ buf' = [buf EXCEPT ![c] = Blank]
    BY <1>4, Zenon DEF WriteFlash
  <2>2. PICK place \in {"idle", "exit"} : Go(c, place)
    BY <1>4 DEF WriteFlash
  <2>3. flash' \in File /\ buf' \in [Clients -> File]
    BY <2>1, BlankIs DEF Types
  <2>4. /\ who' \in [Clients -> Slots \cup {Super}]
        /\ \A d \in Clients \ {c} : who'[d] = who[d]
    BY <2>1 DEF Types, Forget
  <2>5. at' \in [Clients -> Spots] /\ Places'
    BY <2>1, <2>2, <2>4, MovedTo, SpotsAre
  <2>6. QED
    BY <2>1, <2>3, <2>4, <2>5 DEF Types, table
<1>5. QED
  BY <1>1, <1>2, <1>3, <1>4, Zenon DEF Store

LEMMA StopTypes ==
    ASSUME Types, Stop
    PROVE  Types' /\ Places' /\ ~Running'
<1>1. /\ flash' \in Remains /\ up' = FALSE /\ temp' = Blank /\ house' = Free /\ nUser' = 0
      /\ at' = [c \in Clients |-> "idle"] /\ who' = [c \in Clients |-> Super]
      /\ what' = [c \in Clients |-> ""]
      /\ count' = [c \in Clients |-> 0] /\ buf' = [c \in Clients |-> Blank]
      /\ UNCHANGED <<kept, clashed>>
  BY Zenon DEF Stop
<1>2. Types'
  <2>1. house' \in [Slots -> Card] /\ kept' \in [Slots -> Card]
    BY <1>1, BlankIs DEF Types
  <2>2. at' \in [Clients -> Spots]
    <3>1. at' = [c \in Clients |-> "idle"] /\ "idle" \in Spots
      BY <1>1, SpotsAre, Zenon
    <3>2. QED
      BY <3>1
  <2>a. what' \in [Clients -> Names \cup {""}]
    <3>1. what' = [c \in Clients |-> ""]
      BY <1>1, Zenon
    <3>2. QED
      BY <3>1
  <2>3. who' \in [Clients -> Slots \cup {Super}]
    <3>1. who' = [c \in Clients |-> Super]
      BY <1>1, Zenon
    <3>2. QED
      BY <3>1
  <2>b. count' \in [Clients -> Int] /\ nUser' \in Int
    <3>1. count' = [c \in Clients |-> 0] /\ nUser' = 0
      BY <1>1, Zenon
    <3>2. QED
      BY <3>1
  <2>4. temp' \in File /\ flash' \in File
    BY <1>1, BlankIs, RemainsAre
  <2>5. buf' \in [Clients -> File]
    <3>1. buf' = [c \in Clients |-> Blank] /\ Blank \in File
      BY <1>1, BlankIs
    <3>2. QED
      BY <3>1
  <2>6. up' \in BOOLEAN /\ clashed' \in BOOLEAN
    BY <1>1 DEF Types
  <2>7. QED
    BY <2>1, <2>2, <2>3, <2>4, <2>5, <2>6, <2>a, <2>b, Zenon DEF Types
<1>3. Places' /\ ~Running'
  <2>1. \A c \in Clients : at'[c] = "idle"
    BY <1>1
  <2>2. at'[Main] = "idle"
    BY <2>1 DEF Clients
  <2>3. ~Running'
    BY <1>1, <2>2, Zenon DEF Running
  <2>4. Places'
    BY <2>1 DEF Places
  <2>5. QED
    BY <2>3, <2>4
<1>4. QED
  BY <1>2, <1>3

LEMMA BootTypes ==
    ASSUME Types, Places, Boot
    PROVE  Types' /\ Places'
<1>1. /\ at[Main] = "idle" /\ temp' = flash /\ kept' = house'
      /\ UNCHANGED <<who, what, count, buf, flash, changes, crashes>>
  BY Zenon DEF Boot
<1>2. ~up
  BY Zenon DEF Boot
<1>3. CASE Valid(flash)
  <2>1. house' = Loaded(flash) /\ nUser' = flash.n /\ up' = TRUE /\ UNCHANGED <<at, clashed>>
    BY <1>3, Zenon DEF Boot
  <2>2. house' \in [Slots -> Card] /\ nUser' \in Int
    <3>1. flash \in File
      BY DEF Types
    <3>2. Loaded(flash) \in [Slots -> Card]
      BY <3>1, LoadedIs
    <3>3. flash.n \in Int
      BY <3>1 DEF File
    <3>4. QED
      BY <2>1, <3>2, <3>3
  <2>3. Types'
    BY <1>1, <2>1, <2>2 DEF Types
  <2>4. Places'
    BY <1>1, <2>1 DEF Places
  <2>5. QED
    BY <2>3, <2>4
<1>4. CASE ~Valid(flash)
  <2>1. house' = Factory /\ nUser' = 1 /\ Go(Main, "count") /\ clashed' = FALSE /\ up' = up
    BY <1>4, Zenon DEF Boot
  <2>2. up' \in BOOLEAN /\ Main \in Clients
    BY <2>1 DEF Types, Clients
  <2>3. at' \in [Clients -> Spots] /\ Places'
    BY <1>1, <1>2, <2>1, <2>2, MovedTo, SpotsAre DEF Storing
  <2>4. Types'
    <3>1. house' \in [Slots -> Card] /\ kept' \in [Slots -> Card]
      BY <1>1, <2>1, FactoryIs
    <3>2. nUser' \in Int /\ clashed' \in BOOLEAN
      <4>1. nUser' \in Int
        BY <2>1
      <4>2. clashed' \in {TRUE, FALSE}
        BY <2>1, Zenon
      <4>3. QED
        BY <4>1, <4>2
    <3>3. temp' \in File /\ flash' \in File /\ buf' \in [Clients -> File]
      BY <1>1 DEF Types
    <3>4. /\ who' \in [Clients -> Slots \cup {Super}] /\ count' \in [Clients -> Int]
          /\ what' \in [Clients -> Names \cup {""}]
      BY <1>1 DEF Types
    <3>5. QED
      BY <2>2, <2>3, <3>1, <3>2, <3>3, <3>4, Zenon DEF Types
  <2>5. QED
    BY <2>3, <2>4
<1>5. QED
  BY <1>3, <1>4

LEMMA TypesStep == Types /\ Places /\ [Next]_vars => Types' /\ Places'
<1>1. ASSUME Types, Places, Next PROVE Types' /\ Places'
  <2>1. CASE \E c \in Clients : Request(c) \/ Store(c)
    BY <1>1, <2>1, RequestTypes, StoreTypes
  <2>2. CASE Crash \/ \E c \in Clients : Exit(c)
    <3>1. Stop
      BY <2>2 DEF Crash, Exit
    <3>2. QED
      BY <1>1, <3>1, StopTypes
  <2>3. CASE Boot
    BY <1>1, <2>3, BootTypes
  <2>4. QED
    BY <1>1, <2>1, <2>2, <2>3, Zenon DEF Next
<1>2. ASSUME Types, Places, UNCHANGED vars PROVE Types' /\ Places'
  BY <1>2 DEF vars, Types, Places
<1>3. QED
  BY <1>1, <1>2

----------------------------------------------------------------------------
(***************************************************************************)
(* Every step keeps the table, the stores and the flash sound, as long as  *)
(* no two calls overlap.                                                   *)
(***************************************************************************)
LEMMA IsRunning ==
    ASSUME Places, NEW c \in Clients, at[c] # "idle" \/ up
    PROVE  Running
<1>1. CASE up
  BY <1>1, Zenon DEF Running
<1>2. CASE ~up
  <2>1. c = Main /\ at[c] # "idle"
    BY <1>2, OnlyMain
  <2>2. QED
    BY <2>1, Zenon DEF Running
<1>3. QED
  BY <1>1, <1>2

\* A change that leaves a sound table with the right count, and that nobody disturbs.
LEMMA ChangedSound ==
    ASSUME Types, Places, FlashSound, Sound, NEW c \in Clients, Changed(c), at[c] # "idle" \/ up,
           ~clashed', Good(house'), nUser' = Number(house')
    PROVE  FlashSound' /\ Sound'
<1>1. /\ at'[c] = "count" /\ \A d \in Clients \ {c} : at'[d] = at[d]
      /\ UNCHANGED <<who, count, temp, buf, flash, up, kept>>
      /\ Undisturbed(c)
  BY ChangedIs
<1>2. \A d \in Clients \ {c} : at'[d] \notin Storing /\ at'[d] \notin Others
  BY <1>1 DEF Undisturbed, Calling
<1>3. "count" \in Storing /\ "count" \notin Others
  BY DEF Storing, Others
<1>a. Approved'
  BY <1>1, <1>2, <1>3 DEF Approved
<1>4. Alone'
  BY <1>2 DEF Alone
<1>5. Carried'
  <2>1. ASSUME NEW d \in Clients PROVE at'[d] \notin {"collect", "read", "write"}
    BY <1>1, <1>2 DEF Storing
  <2>2. QED
    BY <2>1 DEF Carried
<1>6. ~Quiet'
  BY <1>1, <1>3 DEF Quiet
<1>7. Restarted(flash)' = Restarted(Stored(kept))'
  BY <1>1 DEF Sound, Restarted, Valid
<1>8. FlashSound'
  BY <1>1 DEF FlashSound
<1>9. QED
  BY <1>4, <1>5, <1>6, <1>7, <1>8, <1>a DEF Sound

LEMMA AddSound ==
    ASSUME Types, Places, FlashSound, Sound, NEW c \in Clients, AddUser(c), ~clashed'
    PROVE  FlashSound' /\ Sound'
<1>1. PICK u \in User, i \in Slots \ Carded(house) :
            /\ \A j \in Carded(house) : house[j].name # u.name
            /\ house' = [house EXCEPT ![i] = u]
  BY DEF AddUser
<1>2. Good(house) /\ nUser = Number(house)
  BY DEF Sound
<1>3. Good(house') /\ Number(house') = Number(house) + 1
  BY <1>1, <1>2, AddedGood
<1>4. Changed(c) /\ nUser' = nUser + 1 /\ at[c] # "idle"
  BY DEF AddUser
<1>5. QED
  BY <1>2, <1>3, <1>4, ChangedSound

LEMMA DelSound ==
    ASSUME Types, Places, FlashSound, Sound, NEW c \in Clients, DelUser(c), ~clashed'
    PROVE  FlashSound' /\ Sound'
<1>1. PICK i \in Carded(house) :
            house[i].name = what[c] /\ house' = [house EXCEPT ![i] = Empty]
  BY DEF DelUser
<1>2. Good(house) /\ nUser = Number(house)
  BY DEF Sound
<1>3. at[c] \in Others
  BY DEF DelUser, Others
<1>4. who[c] \in Carded(house) /\ house[who[c]].admin = TRUE /\ house[who[c]].name # what[c]
  BY <1>3 DEF Sound, Approved
<1>5. Good(house') /\ Number(house') = Number(house) - 1
  BY <1>1, <1>2, <1>4, DeletedGood
<1>6. Changed(c) /\ nUser' = nUser - 1 /\ at[c] # "idle"
  BY DEF DelUser
<1>7. QED
  BY <1>2, <1>5, <1>6, ChangedSound

LEMMA EditSound ==
    ASSUME Types, Places, FlashSound, Sound, NEW c \in Clients, EditUser(c), ~clashed'
    PROVE  FlashSound' /\ Sound'
<1>1. PICK i \in Carded(house), a \in BOOLEAN :
            house[i].name = what[c] /\ house' = [house EXCEPT ![i].admin = a]
  BY DEF EditUser
<1>2. Good(house) /\ nUser = Number(house)
  BY DEF Sound
<1>3. at[c] \in Others
  BY DEF EditUser, Others
<1>4. who[c] \in Carded(house) /\ house[who[c]].admin = TRUE /\ house[who[c]].name # what[c]
  BY <1>3 DEF Sound, Approved
<1>5. house[i] \in User
  BY <1>2 DEF Good, Carded
<1>6. PICK u : u = [house[i] EXCEPT !.admin = a]
  OBVIOUS
<1>7. u \in User /\ u.name = house[i].name /\ house' = [house EXCEPT ![i] = u]
  <2>1. NoPassword \in Passwords
    BY NamesAre
  <2>2. \A v \in User : [v EXCEPT !.admin = a] \in User /\ [v EXCEPT !.admin = a].name = v.name
    BY <2>1, CardEdits
  <2>3. house' = [house EXCEPT ![i] = [house[i] EXCEPT !.admin = a]]
    BY <1>1
  <2>4. QED
    BY <1>5, <1>6, <2>2, <2>3
<1>8. who[c] \in Carded(house) \ {i}
  BY <1>1, <1>4
<1>9. Good(house') /\ Number(house') = Number(house)
  BY <1>2, <1>4, <1>7, <1>8, EditedGood
<1>10. Changed(c) /\ nUser' = nUser /\ at[c] # "idle"
  BY DEF EditUser
<1>11. QED
  BY <1>2, <1>9, <1>10, ChangedSound

LEMMA PasswordSound ==
    ASSUME Types, Places, FlashSound, Sound, NEW c \in Clients, SetPassword(c), ~clashed'
    PROVE  FlashSound' /\ Sound'
<1>1. PICK p \in Passwords :
            house' = IF Me(c) = Empty THEN house ELSE [house EXCEPT ![who[c]].password = p]
  BY DEF SetPassword, PasswordSet
<1>2. Good(house) /\ nUser = Number(house)
  BY DEF Sound
<1>3. Changed(c) /\ nUser' = nUser /\ at[c] = "checked"
  BY DEF SetPassword
<1>4. Good(house') /\ Number(house') = Number(house)
  <2>1. CASE Me(c) = Empty
    BY <1>1, <1>2, <2>1
  <2>2. CASE Me(c) # Empty
    <3>1. who[c] \in Slots
      BY <1>3 DEF Places
    <3>2. who[c] \in Carded(house) /\ house[who[c]] \in User
      BY <1>2, <2>2, <3>1 DEF Me, Carded, Good
    <3>3. PICK u : u = [house[who[c]] EXCEPT !.password = p]
      OBVIOUS
    <3>4. /\ u \in User /\ u.name = house[who[c]].name /\ u.admin = house[who[c]].admin
          /\ house' = [house EXCEPT ![who[c]] = u]
      <4>1. \A v \in User : /\ [v EXCEPT !.password = p] \in User
                            /\ [v EXCEPT !.password = p].name = v.name
                            /\ [v EXCEPT !.password = p].admin = v.admin
        BY CardEdits
      <4>2. house' = [house EXCEPT ![who[c]] = [house[who[c]] EXCEPT !.password = p]]
        BY <1>1, <2>2
      <4>3. QED
        BY <3>2, <3>3, <4>1, <4>2
    <3>5. QED
      BY <1>2, <3>2, <3>4, EditedGood
  <2>3. QED
    BY <2>1, <2>2
<1>5. QED
  BY <1>2, <1>3, <1>4, ChangedSound

\* A step that is neither a change nor a step of a store.
LEMMA ElsewhereSound ==
    ASSUME FlashSound, Sound, NEW c \in Clients,
           UNCHANGED <<house, nUser, count, temp, buf, flash, up, kept>>,
           at[c] \notin Storing, at'[c] \notin Storing,
           \A d \in Clients \ {c} : at'[d] = at[d] /\ who'[d] = who[d] /\ what'[d] = what[d],
           at'[c] \in Others => /\ who'[c] \in Carded(house) /\ house[who'[c]].admin = TRUE
                               /\ house[who'[c]].name # what'[c]
    PROVE  FlashSound' /\ Sound'
<1>a. Approved'
  BY DEF Sound, Approved
<1>1. Alone'
  BY DEF Sound, Alone
<1>2. Carried'
  <2>1. ASSUME NEW d \in Clients
        PROVE  /\ at'[d] = "collect" => count'[d] = nUser'
               /\ at'[d] \in {"read", "write"} => temp' = Stored(house')
               /\ at'[d] = "write" => buf'[d] = Stored(house')
    BY DEF Sound, Carried, Storing
  <2>2. QED
    BY <2>1 DEF Carried
<1>3. Quiet' => Current(flash)' /\ Current(temp)'
  <2>1. ASSUME Quiet'
        PROVE  Quiet
    <3>1. up' /\ \A d \in Clients : at'[d] \notin Storing
      BY <2>1, Zenon DEF Quiet
    <3>2. up = up'
      OBVIOUS
    <3>3. up
      BY <3>1, <3>2, Zenon
    <3>4. \A d \in Clients : at[d] \notin Storing
      BY <3>1
    <3>5. QED
      BY <3>3, <3>4, Zenon DEF Quiet
  <2>2. QED
    BY <2>1 DEF Sound, Current, Valid
<1>4. Good(house') /\ nUser' = Number(house') /\ FlashSound'
  BY DEF Sound, FlashSound
<1>5. Restarted(flash)' = Restarted(Stored(kept))'
  BY DEF Sound, Restarted, Valid
<1>6. QED
  BY <1>1, <1>2, <1>3, <1>4, <1>5, <1>a DEF Sound

LEMMA RequestSound ==
    ASSUME Types, Places, FlashSound, Sound, NEW c \in Clients, Request(c), ~clashed'
    PROVE  FlashSound' /\ Sound'
<1>1. CASE Login(c) \/ Logout(c) \/ CheckPassword(c) \/ CheckAdmin(c) \/ StartReset(c)
  <2>1. /\ UNCHANGED <<house, nUser, count, temp, buf, flash, up, kept>>
        /\ at[c] \in {"idle", "in", "checked", "add"} \cup Others
    BY <1>1 DEF Login, Logout, CheckPassword, CheckAdmin, StartReset, LoggedIn, table, files, history
  <2>a. \E place \in {"idle", "in", "checked", "add", "reset"} \cup Others :
            Go(c, place) /\ (place \in Others => CheckAdmin(c))
    <3>1. CASE Login(c) \/ Logout(c) \/ CheckPassword(c) \/ StartReset(c)
      <4>1. \E place \in {"idle", "in", "checked", "reset"} : Go(c, place)
        BY <3>1, Zenon DEF Login, Logout, CheckPassword, StartReset
      <4>2. QED
        BY <4>1 DEF Others
    <3>2. CASE CheckAdmin(c)
      <4>1. \E place \in {"add"} \cup Others : Go(c, place)
        BY <3>2, Zenon DEF CheckAdmin
      <4>2. QED
        BY <3>2, <4>1, Zenon
    <3>3. QED
      BY <1>1, <3>1, <3>2
  <2>2. PICK place \in {"idle", "in", "checked", "add", "reset"} \cup Others :
            Go(c, place) /\ (place \in Others => CheckAdmin(c))
    BY <2>a
  <2>3. place \in Spots
    BY SpotsAre
  <2>4. at'[c] = place /\ \A d \in Clients \ {c} : at'[d] = at[d]
    BY <2>2, <2>3 DEF Go, Types
  <2>5. at[c] \notin Storing /\ at'[c] \notin Storing
    BY <2>1, <2>4 DEF Storing, Others
  <2>6. \A d \in Clients \ {c} : who'[d] = who[d]
    <3>1. UNCHANGED who \/ \E i : who' = [who EXCEPT ![c] = i]
      BY <1>1 DEF Login, Logout, CheckPassword, CheckAdmin, StartReset, Forget
    <3>2. QED
      BY <3>1 DEF Types
  <2>7. \A d \in Clients \ {c} : what'[d] = what[d]
    <3>1. UNCHANGED what \/ \E n : what' = [what EXCEPT ![c] = n]
      BY <1>1 DEF Login, Logout, CheckPassword, CheckAdmin, StartReset, Name
    <3>2. QED
      BY <3>1 DEF Types
  <2>8. ASSUME at'[c] \in Others
        PROVE  /\ who'[c] \in Carded(house) /\ house[who'[c]].admin = TRUE
               /\ house[who'[c]].name # what'[c]
    <3>1. CheckAdmin(c)
      BY <2>2, <2>4, <2>8
    <3>2. who' = who /\ who[c] \in Slots /\ Me(c) # Empty
      BY <3>1 DEF CheckAdmin, LoggedIn, Types
    <3>3. who[c] \in Carded(house) /\ Me(c) = house[who[c]] /\ house[who[c]] \in User
      BY <3>2 DEF Me, Carded, Sound, Good
    <3>4. Me(c).admin
      BY <3>1, Zenon DEF CheckAdmin
    <3>5. house[who[c]].admin = TRUE
      BY <3>3, <3>4, CardsAre
    <3>6. PICK n \in Names \ {Me(c).name} : Name(c, n)
      <4>1. ~Go(c, "add")
        BY <2>4, <2>8 DEF Go, Types, Others, Spots, Calling
      <4>2. QED
        BY <3>1, <4>1, Zenon DEF CheckAdmin
    <3>7. what'[c] = n
      BY <3>6 DEF Name, Types
    <3>8. QED
      BY <3>2, <3>3, <3>5, <3>6, <3>7
  <2>9. QED
    BY <2>1, <2>4, <2>5, <2>6, <2>7, <2>8, ElsewhereSound
<1>2. CASE ResetTable(c)
  <2>1. Changed(c) /\ nUser' = 1 /\ house' = Factory /\ at[c] = "reset"
    BY <1>2 DEF ResetTable
  <2>2. Good(house') /\ nUser' = Number(house')
    BY <2>1, FactoryGood
  <2>3. QED
    BY <2>1, <2>2, ChangedSound
<1>3. CASE SetPassword(c)
  BY <1>3, PasswordSound
<1>4. CASE AddUser(c) \/ DelUser(c) \/ EditUser(c)
  BY <1>4, AddSound, DelSound, EditSound
<1>5. QED
  BY <1>1, <1>2, <1>3, <1>4, Zenon DEF Request

LEMMA StoreSound ==
    ASSUME Types, Places, FlashSound, Sound, NEW c \in Clients, Store(c)
    PROVE  FlashSound' /\ Sound'
<1>0. /\ at \in [Clients -> Spots]
      /\ buf \in [Clients -> File] /\ count \in [Clients -> Int]
  BY DEF Types
<1>a. /\ Good(house) /\ nUser = Number(house) /\ Alone /\ Carried /\ Approved
      /\ Restarted(flash) = Restarted(Stored(kept))
  BY DEF Sound
<1>b. ASSUME at[c] \in Storing PROVE \A d \in Clients \ {c} : at[d] \notin Storing
  BY <1>a, <1>b DEF Alone
<1>c. ASSUME at[c] \in Storing, \A d \in Clients \ {c} : at'[d] = at[d] PROVE Alone'
  BY <1>b, <1>c DEF Alone
<1>d. ASSUME at[c] \in Storing, at'[c] \in Storing,
             \A d \in Clients \ {c} : at'[d] = at[d],
             UNCHANGED <<house, nUser, flash, up, kept, who, what>>,
             /\ at'[c] = "collect" => count'[c] = nUser'
             /\ at'[c] \in {"read", "write"} => temp' = Stored(house')
             /\ at'[c] = "write" => buf'[c] = Stored(house')
      PROVE  FlashSound' /\ Sound'
  <2>1. \A d \in Clients \ {c} : at'[d] \notin Storing
    BY <1>b, <1>d
  <2>2. Carried'
    <3>1. ASSUME NEW d \in Clients
          PROVE  /\ at'[d] = "collect" => count'[d] = nUser'
                 /\ at'[d] \in {"read", "write"} => temp' = Stored(house')
                 /\ at'[d] = "write" => buf'[d] = Stored(house')
      <4>1. CASE d = c
        BY <1>d, <4>1
      <4>2. CASE d # c
        BY <2>1, <4>2 DEF Storing
      <4>3. QED
        BY <4>1, <4>2
    <3>2. QED
      BY <3>1 DEF Carried
  <2>3. ~Quiet'
    BY <1>d DEF Quiet
  <2>4. Good(house') /\ nUser' = Number(house') /\ FlashSound'
    BY <1>a, <1>d DEF FlashSound
  <2>5. Restarted(flash)' = Restarted(Stored(kept))'
    BY <1>a, <1>d DEF Restarted, Valid
  <2>6. Approved'
    BY <1>a, <1>d DEF Approved, Storing, Others
  <2>7. QED
    BY <1>c, <1>d, <2>2, <2>3, <2>4, <2>5, <2>6 DEF Sound
<1>1. CASE ClearTemp(c)
  <2>1. /\ at' = [at EXCEPT ![c] = "collect"] /\ at[c] = "count"
        /\ UNCHANGED <<house, nUser, flash, up, kept, who, what>> /\ count' = [count EXCEPT ![c] = nUser]
    BY <1>1, Zenon DEF ClearTemp, Go, table, history
  <2>2. /\ at'[c] = "collect" /\ \A d \in Clients \ {c} : at'[d] = at[d]
        /\ count'[c] = nUser
    BY <1>0, <2>1, SpotsAre DEF Storing
  <2>3. at[c] \in Storing /\ at'[c] \in Storing /\ at'[c] \notin {"read", "write"}
    BY <2>1, <2>2 DEF Storing
  <2>4. QED
    BY <1>d, <2>1, <2>2, <2>3
<1>2. CASE WriteTemp(c)
  <2>1. /\ at' = [at EXCEPT ![c] = "read"] /\ at[c] = "collect"
        /\ UNCHANGED <<house, nUser, flash, up, kept, who, what>> /\ temp' = FileOf(count[c], house)
    BY <1>2, Zenon DEF WriteTemp, Go, table, history
  <2>2. at'[c] = "read" /\ \A d \in Clients \ {c} : at'[d] = at[d]
    BY <1>0, <2>1, SpotsAre DEF Storing
  <2>3. at[c] \in Storing /\ at'[c] \in Storing
    BY <2>1, <2>2 DEF Storing
  <2>4. temp' = Stored(house')
    BY <1>a, <2>1 DEF Carried, Stored
  <2>5. QED
    BY <1>d, <2>1, <2>2, <2>3, <2>4
<1>3. CASE ReadTemp(c)
  <2>1. /\ at' = [at EXCEPT ![c] = "write"] /\ at[c] = "read"
        /\ UNCHANGED <<house, nUser, flash, up, kept, temp, who, what>> /\ buf' = [buf EXCEPT ![c] = temp]
    BY <1>3, Zenon DEF ReadTemp, Go, table, history
  <2>2. /\ at'[c] = "write" /\ \A d \in Clients \ {c} : at'[d] = at[d]
        /\ buf'[c] = temp
    BY <1>0, <2>1, SpotsAre DEF Storing
  <2>3. at[c] \in Storing /\ at'[c] \in Storing
    BY <2>1, <2>2 DEF Storing
  <2>4. temp = Stored(house)
    BY <1>a, <2>1 DEF Carried
  <2>5. QED
    BY <1>d, <2>1, <2>2, <2>3, <2>4
<1>4. CASE WriteFlash(c)
  <2>1. /\ UNCHANGED <<house, nUser, temp, what>> /\ at[c] = "write"
        /\ flash' = buf[c] /\ kept' = house /\ who' = [who EXCEPT ![c] = Super]
    BY <1>4, Zenon DEF WriteFlash, table, Forget
  <2>2. \E place \in {"idle", "exit"} : Go(c, place)
    BY <1>4 DEF WriteFlash
  <2>3. at'[c] \in {"idle", "exit"} /\ \A d \in Clients \ {c} : at'[d] = at[d]
    BY <1>0, <2>2, SpotsAre DEF Go
  <2>4. at[c] \in Storing /\ at'[c] \notin Storing
    BY <2>1, <2>3 DEF Storing
  <2>5. temp = Stored(house) /\ flash' = Stored(house)
    BY <1>a, <2>1 DEF Carried
  <2>6. /\ Stored(house).house = house /\ Valid(Stored(house))
    BY <1>a, StoredIs
  <2>7. FlashSound'
    BY <1>a, <2>5, <2>6 DEF FlashSound
  <2>8. \A d \in Clients : at'[d] \notin Storing
    BY <1>b, <2>3, <2>4
  <2>9. Alone' /\ Carried'
    BY <2>8 DEF Alone, Carried, Storing
  <2>10. Current(flash)' /\ Current(temp)'
    BY <2>1, <2>5, <2>6 DEF Current, Valid
  <2>11. Restarted(flash') = Restarted(Stored(kept'))
    BY <2>1, <2>5
  <2>12. Restarted(flash)' = Restarted(flash') /\ Restarted(Stored(kept))' = Restarted(Stored(kept'))
    BY DEF Restarted, Valid
  <2>14. Approved'
    <3>1. \A d \in Clients \ {c} : who'[d] = who[d]
      BY <2>1 DEF Types
    <3>2. QED
      BY <1>a, <2>1, <2>3, <3>1 DEF Approved, Others
  <2>13. QED
    BY <1>a, <2>14, <2>1, <2>7, <2>9, <2>10, <2>11, <2>12 DEF Sound
<1>5. QED
  BY <1>1, <1>2, <1>3, <1>4, Zenon DEF Store

\* The power fails: what a restart finds is an old table, the new one, or no table.
LEMMA StopSound ==
    ASSUME Types, Places, ~clashed => FlashSound, ~clashed /\ Running => Sound, Stop, ~clashed'
    PROVE  FlashSound'
<1>1. flash' \in Remains /\ clashed' = clashed
  BY Zenon DEF Stop
<1>2. ~clashed
  BY <1>1, Zenon
<1>3. FlashSound
  BY <1>2
<1>4. CASE flash' = flash
  BY <1>3, <1>4 DEF FlashSound
<1>5. CASE flash' # flash
  <2>1. PICK c \in Writers : flash' \in {buf[c], Torn(buf[c])}
    BY <1>1, <1>5 DEF Remains
  <2>2. c \in Clients /\ at[c] = "write"
    BY DEF Writers
  <2>3. Running
    BY <2>2, IsRunning
  <2>4. Sound
    BY <1>2, <2>3
  <2>5. Good(house) /\ buf[c] = Stored(house)
    BY <2>2, <2>4 DEF Sound, Carried
  <2>6. CASE flash' = buf[c]
    <3>1. Stored(house).house = house
      BY <2>5, StoredIs
    <3>2. QED
      BY <2>5, <2>6, <3>1 DEF FlashSound
  <2>7. CASE flash' = Torn(buf[c])
    <3>1. buf[c] \in File
      BY <2>2 DEF Types
    <3>2. ~Valid(Torn(buf[c]))
      BY <3>1, TornIs
    <3>3. ~Valid(flash')
      BY <2>7, <3>2
    <3>4. QED
      BY <3>3 DEF FlashSound, Valid
  <2>8. QED
    BY <2>1, <2>6, <2>7
<1>6. QED
  BY <1>4, <1>5

LEMMA BootSound ==
    ASSUME Types, Places, ~clashed => FlashSound, Boot, ~clashed'
    PROVE  FlashSound' /\ Sound'
<1>1. /\ temp' = flash /\ kept' = house' /\ flash' = flash
  BY Zenon DEF Boot
<1>2. \A c \in Clients : at[c] = "idle"
  <2>1. ~up /\ at[Main] = "idle"
    BY Zenon DEF Boot
  <2>2. \A c \in Clients : at[c] = "idle" \/ (c = Main /\ at[c] \in Storing)
    BY <2>1, Zenon DEF Places
  <2>3. QED
    BY <2>1, <2>2, Zenon
<1>3. CASE Valid(flash)
  <2>1. house' = Loaded(flash) /\ nUser' = flash.n /\ UNCHANGED <<at, clashed>>
    BY <1>3, Zenon DEF Boot
  <2>2. FlashSound
    <3>1. ~clashed
      BY <2>1, Zenon
    <3>2. QED
      BY <3>1
  <2>3. Good(flash.house) /\ flash = Stored(flash.house)
    BY <1>3, <2>2 DEF FlashSound
  <2>4. Stored(flash.house).n = Number(flash.house)
    BY <2>3, StoredIs
  <2>5. /\ Good(house') /\ Number(house') = Number(flash.house)
        /\ Loaded(Stored(house')) = house'
    BY <2>1, <2>3, LoadedGood
  <2>6. nUser' = Number(house')
    BY <2>1, <2>3, <2>4, <2>5
  <2>7. FlashSound'
    BY <1>1, <2>2 DEF FlashSound
  <2>8. Alone' /\ Carried' /\ Approved'
    BY <1>2, <2>1 DEF Alone, Carried, Storing, Approved, Others
  <2>9. Restarted(flash') = Restarted(Stored(kept'))
    <3>1. Valid(Stored(house'))
      BY <2>5, StoredIs
    <3>2. QED
      BY <1>1, <1>3, <2>1, <2>5, <3>1 DEF Restarted
  <2>10. Restarted(flash)' = Restarted(flash') /\ Restarted(Stored(kept))' = Restarted(Stored(kept'))
    BY DEF Restarted, Valid
  <2>11. Current(flash)' /\ Current(temp)'
    BY <1>1, <1>3, <2>1, <2>5 DEF Current, Valid
  <2>12. QED
    BY <2>5, <2>6, <2>7, <2>8, <2>9, <2>10, <2>11 DEF Sound
<1>4. CASE ~Valid(flash)
  <2>1. house' = Factory /\ nUser' = 1 /\ at' = [at EXCEPT ![Main] = "count"]
    BY <1>4, Zenon DEF Boot, Go
  <2>2. Main \in Clients /\ at \in [Clients -> Spots]
    BY DEF Clients, Types
  <2>3. at'[Main] = "count" /\ \A c \in Clients \ {Main} : at'[c] = "idle"
    BY <1>2, <2>1, <2>2, SpotsAre DEF Storing
  <2>a. Approved'
    BY <2>3 DEF Approved, Others
  <2>4. Good(house') /\ nUser' = Number(house')
    BY <2>1, FactoryGood
  <2>5. FlashSound'
    BY <1>1, <1>4 DEF FlashSound, Valid
  <2>6. \A c \in Clients : at'[c] \in Storing => c = Main
    BY <2>3 DEF Storing
  <2>7. \A c \in Clients : at'[c] \notin {"collect", "read", "write"}
    BY <2>3
  <2>8. Alone' /\ Carried' /\ ~Quiet'
    <3>1. Alone'
      BY <2>6 DEF Alone
    <3>2. Carried'
      BY <2>7 DEF Carried
    <3>3. ~Quiet'
      BY <2>2, <2>3 DEF Quiet, Storing
    <3>4. QED
      BY <3>1, <3>2, <3>3
  <2>9. Restarted(flash') = Restarted(Stored(kept'))
    BY <1>1, <1>4, <2>1, FactoryGood DEF Restarted
  <2>10. Restarted(flash)' = Restarted(flash') /\ Restarted(Stored(kept))' = Restarted(Stored(kept'))
    BY DEF Restarted, Valid
  <2>11. QED
    BY <2>4, <2>5, <2>8, <2>9, <2>10, <2>a DEF Sound
<1>5. QED
  BY <1>3, <1>4

LEMMA InvStep == TableInv /\ [Next]_vars => TableInv'
<1>1. ASSUME TableInv, Next PROVE TableInv'
  <2>1. Types /\ Places /\ (~clashed => FlashSound) /\ (~clashed /\ Running => Sound)
    BY <1>1 DEF TableInv
  <2>2. Types' /\ Places'
    BY <1>1, <2>1, TypesStep
  <2>3. CASE \E c \in Clients : Request(c)
    <3>1. PICK c \in Clients : Request(c)
      BY <2>3
    <3>2. at[c] # "idle" \/ up
      <4>1. CASE at[c] # "idle"
        BY <4>1
      <4>2. CASE at[c] = "idle"
        <5>1. Login(c) \/ StartReset(c)
          BY <3>1, <4>2 DEF Request, Logout, CheckPassword, CheckAdmin, SetPassword, AddUser,
             DelUser, EditUser, ResetTable, LoggedIn, Others
        <5>2. CASE Login(c)
          BY <5>2, Zenon DEF Login
        <5>3. CASE StartReset(c)
          <6>1. at[c] # "in"
            BY <4>2
          <6>2. QED
            BY <5>3, <6>1, Zenon DEF StartReset
        <5>4. QED
          BY <5>1, <5>2, <5>3
      <4>3. QED
        BY <4>1, <4>2
    <3>3. Running
      BY <2>1, <3>2, IsRunning
    <3>4. ASSUME ~clashed' PROVE ~clashed
      <4>1. clashed' = clashed \/ clashed' = (clashed \/ ~Undisturbed(c))
        <5>1. CASE Login(c) \/ Logout(c) \/ CheckPassword(c) \/ CheckAdmin(c) \/ StartReset(c)
          BY <5>1, Zenon DEF Login, Logout, CheckPassword, CheckAdmin, StartReset, history
        <5>2. CASE Changed(c)
          BY <5>2, Zenon DEF Changed
        <5>3. QED
          BY <3>1, <5>1, <5>2, Zenon DEF Request, SetPassword, AddUser, DelUser, EditUser, ResetTable
      <4>2. QED
        BY <3>4, <4>1, Zenon
    <3>5. ASSUME ~clashed' PROVE FlashSound' /\ Sound'
      BY <2>1, <3>1, <3>3, <3>4, <3>5, RequestSound
    <3>6. QED
      BY <2>2, <3>5 DEF TableInv
  <2>4. CASE \E c \in Clients : Store(c)
    <3>1. PICK c \in Clients : Store(c)
      BY <2>4
    <3>2. clashed' = clashed
      BY <3>1, Zenon DEF Store, ClearTemp, WriteTemp, ReadTemp, WriteFlash, history
    <3>3. at[c] # "idle"
      BY <3>1 DEF Store, ClearTemp, WriteTemp, ReadTemp, WriteFlash
    <3>4. Running
      BY <2>1, <3>3, IsRunning
    <3>5. ASSUME ~clashed' PROVE ~clashed
      BY <3>2, <3>5, Zenon
    <3>6. ASSUME ~clashed' PROVE FlashSound' /\ Sound'
      BY <2>1, <3>1, <3>4, <3>5, <3>6, StoreSound
    <3>7. QED
      BY <2>2, <3>6 DEF TableInv
  <2>5. CASE Crash \/ \E c \in Clients : Exit(c)
    <3>1. Stop
      BY <2>5 DEF Crash, Exit
    <3>2. ~Running'
      BY <2>1, <3>1, StopTypes
    <3>3. ASSUME ~clashed' PROVE FlashSound'
      BY <2>1, <3>1, <3>3, StopSound
    <3>4. QED
      BY <2>2, <3>2, <3>3 DEF TableInv
  <2>6. CASE Boot
    <3>1. ASSUME ~clashed' PROVE FlashSound' /\ Sound'
      BY <2>1, <2>6, <3>1, BootSound
    <3>2. QED
      BY <2>2, <3>1 DEF TableInv
  <2>7. QED
    BY <1>1, <2>3, <2>4, <2>5, <2>6, Zenon DEF Next
<1>2. ASSUME TableInv, UNCHANGED vars PROVE TableInv'
  <2>1. UNCHANGED <<house, nUser, at, who, what, count, temp, buf, flash, kept>>
    BY <1>2 DEF vars
  <2>2. up' = up /\ clashed' = clashed
    BY <1>2 DEF vars
  <2>3. Types' /\ Places'
    BY <1>2, TypesStep DEF TableInv
  <2>4. Main \in Clients /\ at' = at /\ \A c \in Clients \ {Main} : at'[c] = at[c]
    BY <2>1 DEF Clients
  <2>5. FlashSound' <=> FlashSound
    BY <2>1, Zenon DEF FlashSound, Valid
  <2>6. Quiet' <=> Quiet
    BY <2>1, <2>2, Zenon DEF Quiet
  <2>7. Alone' /\ Carried' /\ Approved' <=> Alone /\ Carried /\ Approved
    BY <2>1, Zenon DEF Alone, Carried, Approved
  <2>8. Sound => Sound'
    BY <2>1, <2>6, <2>7 DEF Sound, Restarted, Valid, Current
  <2>9. Running' <=> Running
    BY <2>1, <2>2, Zenon DEF Running
  <2>10. clashed' <=> clashed
    BY <2>2, Zenon
  <2>11. QED
    BY <1>2, <2>3, <2>5, <2>8, <2>9, <2>10 DEF TableInv
<1>3. QED
  BY <1>1, <1>2

LEMMA AlwaysInv == Spec => []TableInv
<1>1. QED
  BY InitInv, InvStep, PTL DEF Spec

\* Whatever is deleted, edited, reset, cut off by the power or restored, as long as no two
\* calls that change or store the table overlap somebody can manage the camera, no two users have one
\* name, and n_user counts the users.
THEOREM TableIsSound == Spec => []TableSound
<1>1. TableInv => TableSound
  <2> SUFFICES ASSUME TableInv, Running, ~clashed
               PROVE  /\ \E i \in Slots : house[i].admin
                      /\ \A i, j \in Carded(house) : house[i].name = house[j].name => i = j
                      /\ nUser = Cardinality(Carded(house))
    BY Zenon DEF TableSound
  <2>1. Good(house) /\ nUser = Number(house)
    BY DEF TableInv, Sound
  <2>2. QED
    BY <2>1 DEF Good, Number
<1>2. QED
  BY <1>1, AlwaysInv, PTL

\* As long as no two such calls overlap, a power failure brings back the table
\* that was stored last, the one that is being stored, or the factory's, whole.
THEOREM OldOrNew == Spec => []AllOrNothing
<1>1. TableInv => AllOrNothing
  <2> SUFFICES ASSUME TableInv, Running, ~clashed, NEW f \in Remains
               PROVE  Restarted(f) \in {Restarted(FileOf(Cardinality(Carded(h)), h)) :
                            h \in {kept} \cup (IF Writers = {} THEN {} ELSE {house, Factory})}
    BY Zenon DEF AllOrNothing
  <2>1. Sound
    BY DEF TableInv
  <2>2. \A h : FileOf(Cardinality(Carded(h)), h) = Stored(h)
    BY DEF Stored, Number
  <2>3. CASE f = flash
    <3>1. Restarted(f) = Restarted(Stored(kept))
      BY <2>1, <2>3 DEF Sound
    <3>2. QED
      BY <2>2, <3>1
  <2>4. CASE f # flash
    <3>1. PICK c \in Writers : f \in {buf[c], Torn(buf[c])}
      BY <2>4 DEF Remains
    <3>2. c \in Clients /\ at[c] = "write" /\ Writers # {}
      BY DEF Writers
    <3>3. buf[c] = Stored(house) /\ buf[c] \in File
      BY <2>1, <3>2 DEF Sound, Carried, TableInv, Types
    <3>4. ~Valid(Torn(buf[c]))
      BY <3>3, TornIs
    <3>5. Restarted(f) \in {Restarted(Stored(house)), Restarted(Stored(Factory))}
      BY <3>1, <3>3, <3>4, FactoryGood DEF Restarted
    <3>6. QED
      BY <2>2, <3>2, <3>5
  <2>5. QED
    BY <2>3, <2>4
<1>2. QED
  BY <1>1, AlwaysInv, PTL

\* As long as no two such calls overlap, whoever reads the file when nobody is
\* storing, the next start or the page with the list of users, reads the table.
THEOREM FilesCurrent == Spec => []UpToDate
<1>1. TableInv => UpToDate
  <2> SUFFICES ASSUME TableInv, up, ~clashed, \A c \in Clients : at[c] \notin Storing,
                      NEW f \in {flash, temp}
               PROVE  /\ Valid(f)
                      /\ Loaded(f) = Loaded(FileOf(Cardinality(Carded(house)), house))
    BY Zenon DEF UpToDate
  <2>1. Running /\ Quiet
    BY Zenon DEF Running, Quiet
  <2>2. Sound
    BY <2>1 DEF TableInv
  <2>3. Current(f)
    BY <2>1, <2>2 DEF Sound
  <2>4. QED
    BY <2>3 DEF Current, Stored, Number
<1>2. QED
  BY <1>1, AlwaysInv, PTL
============================================================================
