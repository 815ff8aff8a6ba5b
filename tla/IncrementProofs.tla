---------------------------- MODULE IncrementProofs ----------------------------
(***************************************************************************)
(* Increments are all counted, whoever gives up, fails or is sent again,   *)
(* for any number of callers, boards and faults.                           *)
(***************************************************************************)
EXTENDS RequestProofs

-----------------------------------------------------------------------------
(* Sums over finite sets.  What holds of a set if it holds of all that have *)
(* one element less is in K, a set that stands for a predicate.            *)

LEMMA NaturalsInduct ==
    ASSUME NEW K, 0 \in K, \A n \in Nat : n \in K => n + 1 \in K
    PROVE  Nat \subseteq K
  <1> DEFINE T == Nat \ K
             R == OpToRel(<, Nat)
  <1>1. SUFFICES ASSUME T # {} PROVE FALSE
    OBVIOUS
  <1>2. IsWellFoundedOn(R, Nat)
    BY NatLessThanWellFounded
  <1>3. T \subseteq Nat
    OBVIOUS
  <1> HIDE DEF T, R
  <1>4. PICK n \in T : \A k \in T : ~(<<k, n>> \in R)
    BY <1>1, <1>2, <1>3, WFMin
  <1>5. n \in Nat /\ n # 0 /\ n - 1 \in Nat
    BY <1>3, <1>4 DEF T
  <1>6. n - 1 \in T
    <2>1. n - 1 \in K => (n - 1) + 1 \in K
      BY <1>5
    <2> QED BY <1>4, <1>5, <2>1 DEF T
  <1>7. <<n - 1, n>> \in R
    BY <1>5 DEF R, OpToRel
  <1> QED BY <1>4, <1>6, <1>7

LEMMA SubsetsInduct ==
    ASSUME NEW S, IsFiniteSet(S), NEW K,
           \A s \in SUBSET S : (\A x \in s : s \ {x} \in K) => s \in K
    PROVE  \A s \in SUBSET S : s \in K
  <1> DEFINE N == {n \in Nat : \A s \in SUBSET S : Cardinality(s) = n => s \in K}
  <1>1. \A s \in SUBSET S : IsFiniteSet(s) /\ Cardinality(s) \in Nat
    BY FS_Subset, FS_CardinalityType
  <1>2. 0 \in N
    <2>1. ASSUME NEW s \in SUBSET S, Cardinality(s) = 0 PROVE s \in K
      <3>1. s = {}
        BY <1>1, <2>1, FS_EmptySet
      <3> QED BY <3>1
    <2> QED BY <2>1
  <1>3. ASSUME NEW n \in Nat, n \in N PROVE n + 1 \in N
    <2>1. ASSUME NEW s \in SUBSET S, Cardinality(s) = n + 1, NEW x \in s PROVE s \ {x} \in K
      <3>1. Cardinality(s \ {x}) = n
        BY <1>1, <2>1, FS_RemoveElement
      <3> QED BY <1>3, <3>1
    <2> QED BY <2>1
  <1>4. Nat \subseteq N
    <2> HIDE DEF N
    <2> QED BY <1>2, <1>3, NaturalsInduct
  <1> QED BY <1>1, <1>4

First(s) == CHOOSE x \in s : TRUE

\* What defines SumFunctionOnSet: the sum so far of each part of S.
Sums(f, S, g) ==
    g = [s \in SUBSET S |->
            IF s = {} THEN 0 ELSE LET x == CHOOSE y \in s : TRUE IN f[x] + g[s \ {x}]]

LEMMA SumIsChosen ==
    ASSUME NEW f, NEW S
    PROVE  SumFunctionOnSet(f, S) = (CHOOSE g : Sums(f, S, g))[S]
  BY Zenon DEF SumFunctionOnSet, FoldFunctionOnSet, MapThenFoldSet, Sums

Adds(f, S, g, s) == g[s] = IF s = {} THEN 0 ELSE f[First(s)] + g[s \ {First(s)}]

LEMMA SumsAdd ==
    ASSUME NEW f, NEW S, NEW g
    PROVE  Sums(f, S, g) <=> /\ g = [s \in SUBSET S |-> g[s]]
                             /\ \A s \in SUBSET S : Adds(f, S, g, s)
  BY DEF Sums, Adds, First

\* There are such sums, of parts of at most n elements first.
LEMMA SumsExist ==
    ASSUME NEW f, NEW S, IsFiniteSet(S)
    PROVE  \E g : Sums(f, S, g)
  <1> DEFINE Small(n) == {s \in SUBSET S : Cardinality(s) <= n}
             N == {n \in Nat : \E g : /\ g = [s \in SUBSET S |-> g[s]]
                                      /\ \A s \in Small(n) : Adds(f, S, g, s)}
  <1>1. \A s \in SUBSET S : /\ IsFiniteSet(s) /\ Cardinality(s) \in Nat
                            /\ s # {} => /\ First(s) \in s /\ Cardinality(s) # 0
                                         /\ s \ {First(s)} \in SUBSET S
                                         /\ Cardinality(s \ {First(s)}) = Cardinality(s) - 1
    <2>1. ASSUME NEW s \in SUBSET S
          PROVE  /\ IsFiniteSet(s) /\ Cardinality(s) \in Nat
                 /\ s # {} => Cardinality(s) # 0
      BY FS_Subset, FS_CardinalityType, FS_EmptySet
    <2>2. ASSUME NEW s \in SUBSET S, s # {}
          PROVE  /\ First(s) \in s /\ Cardinality(s \ {First(s)}) = Cardinality(s) - 1
                 /\ s \ {First(s)} \in SUBSET S
      <3>1. First(s) \in s
        BY <2>2 DEF First
      <3> QED BY <2>1, <3>1, FS_RemoveElement
    <2> QED BY <2>1, <2>2
  <1>2. 0 \in N
    <2> DEFINE g == [s \in SUBSET S |-> 0]
    <2>1. ASSUME NEW s \in Small(0) PROVE s = {}
      <3>1. s \in SUBSET S /\ Cardinality(s) <= 0
        OBVIOUS
      <3>2. Cardinality(s) \in Nat /\ (s # {} => Cardinality(s) # 0)
        BY <1>1, <3>1
      <3> HIDE DEF Small
      <3> QED BY <3>1, <3>2
    <2>2. \A s \in Small(0) : Adds(f, S, g, s)
      BY <2>1 DEF Adds
    <2>3. g = [s \in SUBSET S |-> g[s]]
      OBVIOUS
    <2> QED BY <2>2, <2>3
  <1>3. ASSUME NEW n \in Nat, n \in N PROVE n + 1 \in N
    <2>1. PICK g : g = [s \in SUBSET S |-> g[s]] /\ \A s \in Small(n) : Adds(f, S, g, s)
      BY <1>3
    <2> DEFINE h == [s \in SUBSET S |->
                       IF Cardinality(s) <= n THEN g[s] ELSE f[First(s)] + g[s \ {First(s)}]]
    <2>2. ASSUME NEW s \in Small(n + 1) PROVE Adds(f, S, h, s)
      <3>1. CASE s = {}
        <4>1. h[s] = g[s] /\ s \in Small(n)
          BY <1>1, <3>1, FS_EmptySet
        <4> QED BY <2>1, <3>1, <4>1 DEF Adds
      <3>2. CASE s # {} /\ Cardinality(s) <= n
        <4>1. h[s] = g[s] /\ h[s \ {First(s)}] = g[s \ {First(s)}] /\ s \in Small(n)
          BY <1>1, <3>2
        <4> QED BY <2>1, <3>2, <4>1 DEF Adds
      <3>3. CASE s # {} /\ ~(Cardinality(s) <= n)
        <4>1. /\ h[s] = f[First(s)] + g[s \ {First(s)}]
              /\ h[s \ {First(s)}] = g[s \ {First(s)}]
          BY <1>1, <3>3
        <4> HIDE DEF h
        <4> QED BY <3>3, <4>1 DEF Adds
      <3> QED BY <3>1, <3>2, <3>3
    <2>3. h = [s \in SUBSET S |-> h[s]]
      OBVIOUS
    <2> HIDE DEF h
    <2>4. \E k : /\ k = [s \in SUBSET S |-> k[s]]
                /\ \A s \in Small(n + 1) : Adds(f, S, k, s)
      <3> HIDE DEF Small
      <3> QED BY <2>2, <2>3
    <2>5. n + 1 \in Nat
      OBVIOUS
    <2> HIDE DEF Small
    <2> QED BY <2>4, <2>5, Zenon
  <1>4. Cardinality(S) \in N
    <2>1. Nat \subseteq N
      <3> HIDE DEF N
      <3> QED BY <1>2, <1>3, NaturalsInduct
    <2> QED BY <1>1, <2>1
  <1>5. \A s \in SUBSET S : s \in Small(Cardinality(S))
    BY FS_Subset, FS_CardinalityType
  <1>6. PICK g : /\ g = [s \in SUBSET S |-> g[s]]
                 /\ \A s \in Small(Cardinality(S)) : Adds(f, S, g, s)
    BY <1>4
  <1> QED BY <1>5, <1>6, SumsAdd

\* Two of them agree on every part they share, if what they add up does.
LEMMA SumsAgree ==
    ASSUME NEW e, NEW f, NEW S, NEW T, IsFiniteSet(S), T \subseteq S, NEW g, NEW h,
           Sums(e, S, g), Sums(f, T, h), \A x \in T : e[x] = f[x]
    PROVE  g[T] = h[T]
  <1> DEFINE K == {s \in SUBSET T : g[s] = h[s]}
  <1>1. ASSUME NEW s \in SUBSET T, \A x \in s : s \ {x} \in K PROVE s \in K
    <2>1. Adds(e, S, g, s) /\ Adds(f, T, h, s)
      BY SumsAdd
    <2>2. CASE s = {}
      BY <2>1, <2>2 DEF Adds
    <2>3. CASE s # {}
      <3>1. First(s) \in s /\ e[First(s)] = f[First(s)]
        BY <2>3 DEF First
      <3>2. g[s \ {First(s)}] = h[s \ {First(s)}]
        BY <1>1, <3>1
      <3> QED BY <2>1, <2>3, <3>1, <3>2 DEF Adds
    <2> QED BY <2>2, <2>3
  <1>2. IsFiniteSet(T)
    BY FS_Subset
  <1>3. \A s \in SUBSET T : s \in K
    <2> HIDE DEF K
    <2> QED BY <1>1, <1>2, SubsetsInduct
  <1> QED BY <1>3

LEMMA SumOfAgreeing ==
    ASSUME NEW e, NEW f, NEW S, IsFiniteSet(S), \A x \in S : e[x] = f[x]
    PROVE  SumFunctionOnSet(e, S) = SumFunctionOnSet(f, S)
  <1>1. Sums(e, S, CHOOSE g : Sums(e, S, g)) /\ Sums(f, S, CHOOSE g : Sums(f, S, g))
    BY SumsExist
  <1> QED BY <1>1, SumsAgree, SumIsChosen

LEMMA SumByFirst ==
    ASSUME NEW f, NEW S, IsFiniteSet(S)
    PROVE  SumFunctionOnSet(f, S) =
             IF S = {} THEN 0 ELSE f[First(S)] + SumFunctionOnSet(f, S \ {First(S)})
  <1> DEFINE T == S \ {First(S)}
             g == CHOOSE gg : Sums(f, S, gg)
             h == CHOOSE hh : Sums(f, T, hh)
  <1>1. Sums(f, S, g) /\ SumFunctionOnSet(f, S) = g[S]
    BY SumsExist, SumIsChosen
  <1>2. IsFiniteSet(T) /\ T \subseteq S
    BY FS_Subset
  <1>3. Sums(f, T, h) /\ SumFunctionOnSet(f, T) = h[T]
    <2> HIDE DEF T
    <2> QED BY <1>2, SumsExist, SumIsChosen
  <1>4. Adds(f, S, g, S)
    <2> HIDE DEF g
    <2> QED BY <1>1, SumsAdd
  <1> HIDE DEF g, h
  <1>5. g[T] = h[T]
    <2> HIDE DEF T
    <2> QED BY <1>1, <1>2, <1>3, SumsAgree
  <1> QED BY <1>1, <1>3, <1>4, <1>5 DEF Adds

LEMMA SumOfIntegers ==
    ASSUME NEW S, IsFiniteSet(S), NEW f, \A x \in S : f[x] \in Int
    PROVE  \A s \in SUBSET S : SumFunctionOnSet(f, s) \in Int
  <1> DEFINE K == {s \in SUBSET S : SumFunctionOnSet(f, s) \in Int}
  <1>1. ASSUME NEW s \in SUBSET S, \A x \in s : s \ {x} \in K PROVE s \in K
    <2>1. IsFiniteSet(s)
      BY FS_Subset
    <2>2. CASE s = {}
      <3>1. SumFunctionOnSet(f, s) = 0
        BY <2>1, <2>2, SumByFirst
      <3> QED BY <3>1
    <2>3. CASE s # {}
      <3>1. First(s) \in s
        BY <2>3 DEF First
      <3>2. f[First(s)] \in Int /\ SumFunctionOnSet(f, s \ {First(s)}) \in Int
        BY <1>1, <3>1
      <3> QED BY <2>1, <2>3, <3>2, SumByFirst
    <2> QED BY <2>2, <2>3
  <1>2. \A s \in SUBSET S : s \in K
    <2> HIDE DEF K
    <2> QED BY <1>1, SubsetsInduct
  <1> QED BY <1>2

\* A sum takes its summands in any order.
LEMMA SumByAny ==
    ASSUME NEW S, IsFiniteSet(S), NEW f, \A x \in S : f[x] \in Int, NEW a \in S
    PROVE  SumFunctionOnSet(f, S) = f[a] + SumFunctionOnSet(f, S \ {a})
  <1> DEFINE sum(s) == SumFunctionOnSet(f, s)
             K == {s \in SUBSET S : \A x \in s : sum(s) = f[x] + sum(s \ {x})}
  <1>1. ASSUME NEW s \in SUBSET S, \A x \in s : s \ {x} \in K PROVE s \in K
    <2> SUFFICES ASSUME NEW x \in s PROVE sum(s) = f[x] + sum(s \ {x})
      OBVIOUS
    <2> DEFINE y == First(s)
    <2>1. y \in s
      BY DEF First
    <2>2. sum(s) = f[y] + sum(s \ {y})
      <3>1. IsFiniteSet(s)
        BY FS_Subset
      <3> QED BY <3>1, SumByFirst
    <2> HIDE DEF y
    <2>3. CASE x = y
      BY <2>2, <2>3
    <2>4. CASE x # y
      <3>1. sum(s \ {y}) = f[x] + sum((s \ {y}) \ {x})
        BY <1>1, <2>1, <2>4
      <3>2. sum(s \ {x}) = f[y] + sum((s \ {x}) \ {y})
        BY <1>1, <2>1, <2>4
      <3>3. (s \ {x}) \ {y} = (s \ {y}) \ {x}
        OBVIOUS
      <3>4. f[x] \in Int /\ f[y] \in Int /\ sum((s \ {y}) \ {x}) \in Int
        BY <2>1, SumOfIntegers
      <3>5. sum(s) = f[y] + (f[x] + sum((s \ {y}) \ {x}))
        BY <2>2, <3>1
      <3>6. sum(s \ {x}) = f[y] + sum((s \ {y}) \ {x})
        BY <3>2, <3>3
      <3> HIDE DEF sum
      <3>7. \A i, j, k \in Int : i + (j + k) = j + (i + k)
        OBVIOUS
      <3> QED BY <3>4, <3>5, <3>6, <3>7
    <2> QED BY <2>3, <2>4
  <1>2. \A s \in SUBSET S : s \in K
    <2> HIDE DEF K
    <2> QED BY <1>1, SubsetsInduct
  <1> QED BY <1>2

LEMMA SumOfNothing ==
    ASSUME NEW S, IsFiniteSet(S), NEW f, \A x \in S : f[x] = 0
    PROVE  SumFunctionOnSet(f, S) = 0
  <1> DEFINE K == {s \in SUBSET S : SumFunctionOnSet(f, s) = 0}
  <1>1. ASSUME NEW s \in SUBSET S, \A x \in s : s \ {x} \in K PROVE s \in K
    <2>1. IsFiniteSet(s)
      BY FS_Subset
    <2>2. CASE s = {}
      BY <2>1, <2>2, SumByFirst
    <2>3. CASE s # {}
      <3>1. First(s) \in s
        BY <2>3 DEF First
      <3>2. f[First(s)] = 0 /\ SumFunctionOnSet(f, s \ {First(s)}) = 0
        BY <1>1, <3>1
      <3> QED BY <2>1, <2>3, <3>2, SumByFirst
    <2> QED BY <2>2, <2>3
  <1>2. \A s \in SUBSET S : s \in K
    <2> HIDE DEF K
    <2> QED BY <1>1, SubsetsInduct
  <1> QED BY <1>2

-----------------------------------------------------------------------------
(* Sums of what is added several times                                     *)

\* All of S, each as often as times says.
Summands(S, times, amount) == [x \in S |-> times[x] * amount[x]]
Total(S, times, amount) == SumFunction(Summands(S, times, amount))

LEMMA Products ==
    ASSUME NEW n \in Nat, NEW k \in Int
    PROVE  n * k \in Int /\ (n + 1) * k = k + n * k /\ 0 * k = 0
  OBVIOUS

LEMMA TotalByAny ==
    ASSUME NEW S, IsFiniteSet(S), NEW times \in [S -> Nat], NEW amount \in [S -> Int], NEW a \in S
    PROVE  /\ Total(S, times, amount) =
                times[a] * amount[a] + SumFunctionOnSet(Summands(S, times, amount), S \ {a})
           /\ SumFunctionOnSet(Summands(S, times, amount), S \ {a}) \in Int
  <1> DEFINE f == Summands(S, times, amount)
  <1>1. \A x \in S : f[x] \in Int
    BY Products DEF Summands
  <1>2. Total(S, times, amount) = SumFunctionOnSet(f, S) /\ f[a] = times[a] * amount[a]
    BY DEF Total, SumFunction, Summands
  <1> HIDE DEF f
  <1>3. /\ SumFunctionOnSet(f, S) = f[a] + SumFunctionOnSet(f, S \ {a})
        /\ SumFunctionOnSet(f, S \ {a}) \in Int
    BY <1>1, SumByAny, SumOfIntegers
  <1> QED BY <1>2, <1>3 DEF f

\* One of them once more.
LEMMA TotalOfOneMore ==
    ASSUME NEW S, IsFiniteSet(S), NEW times \in [S -> Nat], NEW amount \in [S -> Int],
           NEW a \in S, NEW more, more = [times EXCEPT ![a] = @ + 1]
    PROVE  /\ Total(S, times, amount) \in Int
           /\ Total(S, more, amount) = Total(S, times, amount) + amount[a]
  <1> DEFINE f == Summands(S, times, amount)
             g == Summands(S, more, amount)
  <1>1. more \in [S -> Nat] /\ more[a] = times[a] + 1 /\ \A x \in S \ {a} : more[x] = times[x]
    OBVIOUS
  <1>2. \A x \in S \ {a} : f[x] = g[x]
    BY <1>1 DEF Summands
  <1>3. /\ Total(S, times, amount) = times[a] * amount[a] + SumFunctionOnSet(f, S \ {a})
        /\ SumFunctionOnSet(f, S \ {a}) \in Int
    BY TotalByAny
  <1>4. Total(S, more, amount) = more[a] * amount[a] + SumFunctionOnSet(g, S \ {a})
    <2>1. ASSUME NEW m \in [S -> Nat]
          PROVE  Total(S, m, amount) =
                   m[a] * amount[a] + SumFunctionOnSet(Summands(S, m, amount), S \ {a})
      BY ONLY TotalByAny, IsFiniteSet(S), amount \in [S -> Int], a \in S
    <2> QED BY <1>1, <2>1
  <1> HIDE DEF f, g
  <1>5. SumFunctionOnSet(f, S \ {a}) = SumFunctionOnSet(g, S \ {a})
    <2>1. IsFiniteSet(S \ {a})
      BY FS_Subset
    <2> QED BY <1>2, <2>1, SumOfAgreeing
  <1>6. /\ times[a] * amount[a] \in Int /\ amount[a] \in Int
        /\ more[a] * amount[a] = amount[a] + times[a] * amount[a]
    BY <1>1, Products
  <1>7. \A i, j, k \in Int : (i + j) + k = (j + k) + i
    OBVIOUS
  <1> QED BY <1>3, <1>4, <1>5, <1>6, <1>7

LEMMA TotalOfNothing ==
    ASSUME NEW S, IsFiniteSet(S), NEW times, NEW amount \in [S -> Int], \A x \in S : times[x] = 0
    PROVE  Total(S, times, amount) = 0
  <1> DEFINE f == Summands(S, times, amount)
  <1>1. \A x \in S : f[x] = 0
    BY Products DEF Summands
  <1>2. Total(S, times, amount) = SumFunctionOnSet(f, S)
    BY DEF Total, SumFunction, Summands
  <1> HIDE DEF f
  <1> QED BY <1>1, <1>2, SumOfNothing

\* One more who has added nothing.
LEMMA TotalWithAnother ==
    ASSUME NEW S, IsFiniteSet(S), NEW times \in [S -> Nat], NEW amount \in [S -> Int],
           NEW a, a \notin S, NEW T, T = S \cup {a},
           NEW more \in [T -> Nat], NEW amounts \in [T -> Int], more[a] = 0,
           \A x \in S : more[x] = times[x] /\ amounts[x] = amount[x]
    PROVE  Total(T, more, amounts) = Total(S, times, amount)
  <1> DEFINE f == Summands(S, times, amount)
             g == Summands(T, more, amounts)
  <1>1. IsFiniteSet(T) /\ T \ {a} = S /\ a \in T
    BY FS_AddElement
  <1>2. \A x \in S : f[x] = g[x]
    BY DEF Summands
  <1>3. /\ Total(T, more, amounts) = more[a] * amounts[a] + SumFunctionOnSet(g, T \ {a})
        /\ SumFunctionOnSet(g, T \ {a}) \in Int
    BY <1>1, TotalByAny
  <1>4. Total(S, times, amount) = SumFunctionOnSet(f, S)
    BY DEF Total, SumFunction, Summands
  <1> HIDE DEF f, g
  <1>5. SumFunctionOnSet(f, S) = SumFunctionOnSet(g, S)
    BY <1>2, SumOfAgreeing
  <1>6. more[a] * amounts[a] = 0
    BY <1>1, Products
  <1>7. Total(T, more, amounts) = 0 + SumFunctionOnSet(g, S) /\ SumFunctionOnSet(g, S) \in Int
    BY <1>1, <1>3, <1>6
  <1> QED BY <1>4, <1>5, <1>7

-----------------------------------------------------------------------------
(* What an increment's request is for                                      *)

LEMMA NamedIncrement ==
    ASSUME NEW w, OfLibrary(w), w.fn = "IncrementScore"
    PROVE  /\ Build(w).verb = "PATCH"
           /\ ~Empty(w.leaderboard) /\ ~Empty(w.member) =>
                LET p == Build(w).path
                IN  /\ IsClean(p) /\ p \notin Pages
                    /\ MethodsFor("PATCH", RemoveTrailingSlash(p)) = {"IncrementScore"}
  <1>1. /\ Build(w).verb = "PATCH"
        /\ Build(w).path = <<"l", w.leaderboard, "members", w.member, "score">>
    BY DEF Build, BuildIncrementScore, Send
  <1>2. ASSUME ~Empty(w.leaderboard), ~Empty(w.member) PROVE IsClean(Build(w).path)
    <2>1. ~Empty("l") /\ ~Empty(w.leaderboard) /\ ~Empty("members") /\ ~Empty(w.member)
      BY <1>2 DEF Empty
    <2> QED BY <1>1, <2>1, FiveAreClean
  <1>3. Meant(w) /\ HandlerOf[w.fn] = "IncrementScore"
    BY IncrementScoreMeant DEF HandlerOf
  <1> QED BY <1>1, <1>2, <1>3 DEF Meant

Removers == {"RemoveLeaderboard", "RemoveMember", "RemoveMembers"}

LEMMA OnlyRemoversRemove ==
    ASSUME NEW m \in Methods, NEW x \in RequestOf[m], ~LacksBody(m, x),
           NEW s \in CallsFor(m, x), s.service \in {"RemoveMembers", "RemoveLeaderboard"}
    PROVE  m \in Removers
  <1>1. m \notin WriteMethods
    BY CallsOfMessage DEF WriteServices
  <1>2. CASE m = "GetRankMultiLeaderboards"
    <2>1. ServiceCalls(m, x) = MultiRanks(x)
      BY <1>2 DEF ServiceCalls
    <2>2. \A i \in DOMAIN MultiRanks(x) : MultiRanks(x)[i].service = "GetMember"
      BY DEF MultiRanks, Lookup
    <2> QED BY <2>1, <2>2 DEF CallsFor
  <1>3. CASE m \in {"TotalMembers", "GetMember", "GetMembers", "GetRank"}
    <2>1. \E r : ServiceCalls(m, x) = <<r>> /\ r.service = m
      BY <1>3 DEF ServiceCalls, Lookup
    <2> QED BY <1>3, <2>1 DEF CallsFor
  <1>4. CASE m \in {"GetAroundMember", "GetAroundScore", "GetTopMembers", "GetTopPercentage"}
    <2>1. \E r : /\ ServiceCalls(m, x) = <<r>>
                 /\ r.service \in {"GetAroundMe", "GetAroundScore", "GetLeaders",
                                   "GetTopPercentage"}
      BY <1>4 DEF ServiceCalls, AroundMember, AroundScore, Page, Percentage
    <2> QED BY <2>1 DEF CallsFor
  <1> QED BY <1>1, <1>2, <1>3, <1>4, EachMethod DEF WriteMethods, Removers

CallsIncrement(c) == call[c] # Nil /\ call[c].fn = "IncrementScore"

\* The answer is a success.
Succeeds(a) == a.status = 200 /\ a.json.Success

\* With both names an increment is not redirected, and its handler is called;
\* a success is answered when it is written.
Counting(c) ==
    CallsIncrement(c) =>
        /\ http[c].verb \in {"PATCH", "GET"}
        /\ method[c] \notin Removers
        /\ ~Empty(call[c].leaderboard) /\ ~Empty(call[c].member) =>
              /\ server[c] = "received" => http[c] = Build(call[c])
              /\ server[c] \in InService \cup {"routed"} => method[c] = "IncrementScore"
              /\ answer[c].status # 301
              /\ Succeeds(answer[c]) => carried[c] # <<>>

IncrementInv == CallInv /\ ReachInv /\ FollowInv /\ \A c \in Callers : Counting(c)

LEMMA IncrementsAreCalls ==
    ASSUME IncrementInv, NEW c \in Callers, CallsIncrement(c)
    PROVE  /\ server[c] # "idle" /\ CallsLibrary(c) /\ Kept(c) /\ Holds(c)
           /\ OfLibrary(call[c]) /\ call[c].fn = "IncrementScore" /\ call[c].increment \in Int
  <1>1. call[c] # Nil /\ call[c].fn = "IncrementScore"
    BY DEF CallsIncrement
  <1>2. Kept(c) /\ Holds(c) /\ server[c] # "idle"
    BY <1>1 DEF IncrementInv, FollowInv, CallInv, Kept, Unrouted
  <1>3. CallsLibrary(c) /\ OfLibrary(call[c])
    BY <1>1, <1>2, LibraryCalls DEF CallsLibrary, IncrementInv
  <1>4. call[c].increment \in Int
    BY <1>1, <1>3 DEF OfLibrary, CallOf
  <1> QED BY <1>1, <1>2, <1>3, <1>4

\* What is written of an increment is what its caller asked for.
LEMMA IncrementsNext ==
    ASSUME IncrementInv, NEW c \in Callers, CallsIncrement(c), server[c] \in InService, todo[c] # <<>>,
           method[c] \in WriteMethods
    PROVE  LET s == NextCall(c)
           IN  /\ s.service = "IncrementMemberScore" /\ s.leaderboard = call[c].leaderboard
               /\ s.scores = <<[PublicID |-> call[c].member, Score |-> call[c].increment]>>
  <1> DEFINE w == call[c]
             x == msg[c]
             s == Increment(x.LeaderboardId, x.MemberPublicId, Int64(x.Body.Increment))
  <1>1. /\ CallsLibrary(c) /\ Kept(c) /\ Holds(c)
        /\ w.fn = "IncrementScore"
    BY IncrementsAreCalls
  <1>2. method[c] = "IncrementScore" /\ Means(w, method[c], x)
    <2>1. Means(w, method[c], x)
      BY <1>1, WritersMean DEF IncrementInv
    <2> QED BY <1>1, <2>1 DEF Means, HandlerOf
  <1>3. ServiceCalls(method[c], x) = <<s>>
    BY <1>2 DEF ServiceCalls
  <1>4. todo[c] = <<s>> /\ NextCall(c) = s
    <2>1. todo[c] = ServiceCalls(method[c], x)
      BY <1>1, <1>2 DEF Holds, WrittenSoFar, SeasonMethods
    <2> HIDE DEF s
    <2> QED BY <1>3, <2>1 DEF NextCall
  <1>5. ScoresOf(s) = <<Score(w.leaderboard, w.member, w.increment)>>
    <2>1. ScoresOf(<<s>>[1]) = Wanted(w)
      BY <1>2, <1>3 DEF Means, SeasonMethods
    <2> HIDE DEF s
    <2> QED BY <1>1, <2>1 DEF Wanted
  <1>6. ScoresOf(s) = <<Score(x.LeaderboardId, x.MemberPublicId, Int64(x.Body.Increment))>>
    <2>1. /\ s.leaderboard = x.LeaderboardId
          /\ s.scores = <<[PublicID |-> x.MemberPublicId, Score |-> Int64(x.Body.Increment)]>>
      BY DEF Increment
    <2> QED BY <2>1, OneScore
  <1>7. /\ x.LeaderboardId = w.leaderboard /\ x.MemberPublicId = w.member
        /\ Int64(x.Body.Increment) = w.increment
    <2> DEFINE a == Score(w.leaderboard, w.member, w.increment)
               b == Score(x.LeaderboardId, x.MemberPublicId, Int64(x.Body.Increment))
    <2>1. <<a>> = <<b>>
      BY <1>5, <1>6
    <2>2. a = b
      <3> HIDE DEF a, b
      <3> QED BY <2>1
    <2> QED BY <2>2 DEF Score
  <1> QED BY <1>4, <1>7 DEF Increment

LEMMA LikeCounts ==
    ASSUME NEW c \in Callers, Counting(c), Untouched(c), call'[c] = call[c], http'[c] = http[c]
    PROVE  Counting(c)'
  BY DEF Counting, CallsIncrement, Untouched

LEMMA OthersCount ==
    ASSUME IncrementInv, NEW c \in Callers, Ask(c) \/ GiveUp(c) \/ ServerStep(c) \/ Receive(c)
    PROVE  \A d \in Callers \ {c} : Counting(d)'
  <1>1. \A d \in Callers \ {c} : call'[d] = call[d] /\ http'[d] = http[d]
    <2>1. CASE Ask(c) \/ FollowRedirection(c)
      BY <2>1 DEF Ask, FollowRedirection, IncrementInv, ReachInv, ReachDomains
    <2>2. CASE GiveUp(c) \/ ServerStep(c) \/ Deliver(c)
      BY <2>2, OnlyCallersAsk
    <2> QED BY <2>1, <2>2 DEF Receive
  <1>2. \A d \in Callers \ {c} : Untouched(d)
    BY OthersUntouched DEF IncrementInv, CallInv
  <1> QED BY <1>1, <1>2 DEF IncrementInv, Counting, CallsIncrement, Untouched

\* An answer that is no redirection, and no success if nothing was written.
LEMMA RepliesCount ==
    ASSUME IncrementInv, NEW c \in Callers, NEW status, status # 301, NEW json,
           Reply(c, status, json), UNCHANGED <<callerVars, method, carried>>,
           CallsIncrement(c) /\ ~Empty(call[c].leaderboard) /\ ~Empty(call[c].member) =>
              carried[c] # <<>> \/ ~Succeeds([status |-> status, json |-> json])
    PROVE  Counting(c)'
  <1>1. /\ server'[c] = "replied" /\ answer'[c].status = status
        /\ answer'[c] = [status |-> status, json |-> json]
        /\ UNCHANGED <<call, http, method, carried>>
    BY DEF Reply, IncrementInv, CallInv, Domains, callerVars
  <1>2. Counting(c)
    BY DEF IncrementInv
  <1> QED BY <1>1, <1>2 DEF Counting, CallsIncrement, InService

\* The handler goes on, or it is reached.
LEMMA ErrorsCount ==
    ASSUME IncrementInv, NEW c \in Callers, NEW status \in {400, 401, 404, 405, 500}, NEW json,
           Reply(c, status, json), UNCHANGED <<callerVars, method, carried>>
    PROVE  Counting(c)'
  <1>1. ~Succeeds([status |-> status, json |-> json]) /\ status # 301
    BY DEF Succeeds
  <1> QED BY <1>1, RepliesCount

LEMMA PanicIsNoSuccess ==
    ~Succeeds([status |-> 200, json |-> EmptyResponse["IncrementScore"]])
  <1>1. ~EmptyResponse["IncrementScore"].Success
    BY Zenon DEF EmptyResponse
  <1> QED BY <1>1 DEF Succeeds

LEMMA StepsCount ==
    ASSUME IncrementInv, NEW c \in Callers, server[c] \in InService \cup {"routed"},
           server'[c] \in InService, UNCHANGED <<callerVars, method, answer>>
    PROVE  Counting(c)'
  <1>1. UNCHANGED <<call, http, method, answer>> /\ answer[c].status = 0
    BY DEF callerVars, IncrementInv, CallInv, Holds, AnswerFits, InService
  <1>2. Counting(c)
    BY DEF IncrementInv
  <1> QED BY <1>1, <1>2 DEF Counting, CallsIncrement, Succeeds, InService

LEMMA CallersCount ==
    ASSUME IncrementInv, NEW c \in Callers,
           Ask(c) \/ GiveUp(c) \/ Deliver(c) \/ FollowRedirection(c)
    PROVE  Counting(c)'
  <1> USE DEF handlerVars, worldVars
  <1>1. Counting(c) /\ Holds(c) /\ Kept(c)
    BY DEF IncrementInv, CallInv, FollowInv
  <1>2. CASE Ask(c)
    <2>1. PICK w \in Wishes[c] : call' = [call EXCEPT ![c] = w]
                                 /\ http' = [http EXCEPT ![c] = RequestOfCall(w)]
      BY <1>2 DEF Ask
    <2>2. /\ server[c] = "idle" /\ server'[c] = "received"
          /\ call'[c] = w /\ http'[c] = RequestOfCall(w) /\ UNCHANGED <<method, answer, carried>>
      BY <1>1, <1>2, <2>1
      DEF Ask, Holds, WrittenSoFar, IncrementInv, CallInv, Domains, ReachInv, ReachDomains
    <2>3. answer[c].status = 0 /\ method[c] = "none"
      BY <1>1, <2>2 DEF Holds, AnswerFits, Kept, Unrouted
    <2>4. ASSUME w.fn = "IncrementScore" PROVE http'[c] = Build(w) /\ Build(w).verb = "PATCH"
      BY <2>2, <2>4, NamedIncrement, WishesAssumption DEF RequestOfCall, OfLibrary
    <2> QED BY <2>2, <2>3, <2>4 DEF Counting, CallsIncrement, Succeeds, InService, Removers
  <1>3. CASE GiveUp(c) \/ Deliver(c)
    <2>1. UNCHANGED <<call, http, server, method, answer, carried>>
      BY <1>3 DEF GiveUp, Deliver
    <2> QED BY <1>1, <2>1 DEF Counting, CallsIncrement
  <1>4. CASE FollowRedirection(c)
    <2>1. /\ answer[c].status = 301 /\ server'[c] = "received"
          /\ http'[c] = Redirected(http[c]) /\ UNCHANGED <<call, method, carried>>
          /\ answer'[c].status = 0
      BY <1>4
      DEF FollowRedirection, NoAnswer, IncrementInv, CallInv, Domains, ReachInv, ReachDomains
    <2>2. ASSUME CallsIncrement(c) PROVE http'[c].verb = "GET"
      <3>1. Sent(c)
        BY <2>2, IncrementsAreCalls DEF Kept
      <3>2. DOMAIN http[c] = {"verb", "path", "query", "body"}
        <4>1. CASE http[c] = Build(call[c])
          BY <2>2, <4>1, IncrementsAreCalls DEF Build, BuildIncrementScore, Send
        <4>2. CASE Harmless(call[c], http[c])
          BY <4>2, Zenon DEF Harmless
        <4> QED BY <2>1, <3>1, <4>1, <4>2 DEF Sent
      <3> QED BY <2>1, <3>2 DEF Redirected
    <2> QED BY <1>1, <2>1, <2>2 DEF Counting, CallsIncrement
  <1> QED BY <1>2, <1>3, <1>4

LEMMA FrontCounts ==
    ASSUME IncrementInv, NEW c \in Callers,
           Redirect(c) \/ ServePage(c) \/ EnterGateway(c) \/ PingFails(c)
    PROVE  Counting(c)'
  <1> USE DEF handlerVars, worldVars
  <1>1. Counting(c) /\ server[c] = "received"
    BY DEF IncrementInv, Redirect, ServePage, EnterGateway, PingFails
  <1>2. ASSUME CallsIncrement(c), ~Empty(call[c].leaderboard), ~Empty(call[c].member)
        PROVE  /\ http[c].verb = "PATCH" /\ IsClean(http[c].path) /\ http[c].path \notin Pages
               /\ MethodsFor("PATCH", RemoveTrailingSlash(http[c].path)) = {"IncrementScore"}
    <2>1. http[c] = Build(call[c])
      BY <1>1, <1>2 DEF Counting
    <2> QED BY <1>2, <2>1, IncrementsAreCalls, NamedIncrement
  <1>3. CASE Redirect(c)
    <2>1. /\ server'[c] = "replied" /\ ~IsClean(http[c].path)
          /\ UNCHANGED <<call, http, method, carried>>
      BY <1>3 DEF Redirect, Reply, IncrementInv, CallInv, Domains, callerVars
    <2> QED BY <1>1, <1>2, <2>1 DEF Counting, CallsIncrement
  <1>4. CASE ServePage(c)
    <2> DEFINE json == [Text |-> "WORKING"]
    <2>1. /\ Reply(c, 200, json) /\ UNCHANGED <<callerVars, method, carried>>
          /\ http[c].path \in Pages
      BY <1>4 DEF ServePage
    <2>2. ~(CallsIncrement(c) /\ ~Empty(call[c].leaderboard) /\ ~Empty(call[c].member))
      BY <1>2, <2>1
    <2> HIDE DEF json
    <2>3. CallsIncrement(c) /\ ~Empty(call[c].leaderboard) /\ ~Empty(call[c].member) =>
            carried[c] # <<>> \/ ~Succeeds([status |-> 200, json |-> json])
      BY <2>1, <2>2
    <2> QED BY <2>1, <2>2, <2>3, RepliesCount
  <1>5. CASE PingFails(c)
    BY <1>5, ErrorsCount DEF PingFails
  <1>6. CASE EnterGateway(c)
    <2> DEFINE p == RemoveTrailingSlash(http[c].path)
               decoded(m) == Decode(m, p, http[c].query, http[c].body)
    <2>1. UNCHANGED <<callerVars, carried>>
      BY <1>6 DEF EnterGateway
    <2>2. ASSUME NEW status \in {400, 404, 405}, Reply(c, status, Nil), UNCHANGED <<method, msg>>
          PROVE  Counting(c)'
      BY <2>1, <2>2, ErrorsCount
    <2>3. CASE Reply(c, UnroutedStatus(p), Nil) /\ UNCHANGED <<method, msg>>
      BY <2>2, <2>3 DEF UnroutedStatus
    <2>4. CASE Reply(c, 400, Nil) /\ UNCHANGED <<method, msg>>
      BY <2>2, <2>4
    <2>5. ASSUME NEW m \in MethodsFor(http[c].verb, p), method' = [method EXCEPT ![c] = m],
                 server' = [server EXCEPT ![c] = "routed"], UNCHANGED answer
          PROVE  Counting(c)'
      <3>1. server'[c] = "routed" /\ method'[c] = m /\ UNCHANGED <<call, http, answer, carried>>
        BY <2>1, <2>5 DEF IncrementInv, CallInv, Domains, callerVars
      <3>2. answer[c].status = 0
        BY <1>1 DEF IncrementInv, CallInv, Holds, AnswerFits
      <3>3. ASSUME CallsIncrement(c) PROVE m \notin Removers
        <4>1. http[c].verb \in {"PATCH", "GET"}
          BY <1>1, <3>3 DEF Counting
        <4>2. MethodsFor("PATCH", p) \cap Removers = {} /\ MethodsFor("GET", p) \cap Removers = {}
          BY MethodsOfVerb DEF Removers
        <4> QED BY <2>5, <4>1, <4>2
      <3> QED BY <1>1, <1>2, <2>5, <3>1, <3>2, <3>3 DEF Counting, CallsIncrement, Succeeds, InService
    <2> QED BY <1>6, <2>3, <2>4, <2>5 DEF EnterGateway
  <1> QED BY <1>3, <1>4, <1>5, <1>6

LEMMA HandlersCount ==
    ASSUME IncrementInv, NEW c \in Callers,
           \/ Unauthorized(c) \/ PanicWithoutBody(c) \/ Refuse(c) \/ Begin(c) \/ Respond(c)
           \/ Read(c) \/ RemoveScores(c) \/ ReadPreviousRanks(c) \/ WriteScores(c)
           \/ ReadWritten(c) \/ CommandFails(c) \/ WriteAgain(c)
    PROVE  Counting(c)'
  <1> USE DEF handlerVars, worldVars, IncrementInv, CallInv, Domains
  <1>1. server[c] \in InService \cup {"routed"}
    BY DEF Unauthorized, PanicWithoutBody, Refuse, Begin, Respond, Read, RemoveScores,
           ReadPreviousRanks, WriteScores, ReadyToWrite, ReadWritten, CommandFails, AtRedis,
           WriteAgain, AtCall, InService
  <1>2. ASSUME NEW status \in {400, 401, 404, 500}, NEW json, Reply(c, status, json),
               UNCHANGED <<callerVars, handlerVars, carried>>
        PROVE  Counting(c)'
    BY <1>2, ErrorsCount
  <1>3. ASSUME NEW error, Fails(c, error), UNCHANGED carried PROVE Counting(c)'
    <2>1. HTTPStatusFromCode[CodeOf(method[c], error)] \in {400, 404, 500}
      BY StatusOfError
    <2> QED BY <1>2, <1>3, <2>1 DEF Fails
  <1>4. ASSUME Recover(c), UNCHANGED carried PROVE Counting(c)'
    <2>1. ASSUME CallsIncrement(c), ~Empty(call[c].leaderboard), ~Empty(call[c].member)
          PROVE  ~Succeeds([status |-> 200, json |-> EmptyResponse[method[c]]])
      <3>1. method[c] = "IncrementScore"
        BY <1>1, <2>1 DEF Counting
      <3> QED BY <3>1, PanicIsNoSuccess
    <2>2. Reply(c, 200, EmptyResponse[method[c]])
      BY <1>4 DEF Recover, HTTPStatusFromCode
    <2> QED BY <1>4, <2>1, <2>2, RepliesCount DEF Recover
  <1>5. ASSUME NEW value, Gives(c, value), UNCHANGED <<callerVars, method, answer>>
        PROVE  Counting(c)'
    <2>1. server'[c] \in InService
      BY <1>5 DEF Gives, InService
    <2> QED BY <1>1, <1>5, <2>1, StepsCount
  <1>6. CASE Unauthorized(c) \/ Refuse(c)
    BY <1>2, <1>6 DEF Unauthorized, Refuse, HTTPStatusFromCode
  <1>7. CASE PanicWithoutBody(c)
    BY <1>4, <1>7 DEF PanicWithoutBody
  <1>8. CASE Respond(c)
    <2>1. ASSUME CallsIncrement(c), ~Empty(call[c].leaderboard), ~Empty(call[c].member)
          PROVE  carried[c] # <<>>
      <3>1. method[c] = "IncrementScore"
        BY <1>1, <2>1 DEF Counting
      <3>2. carried[c] = Wanted(call[c])
        BY <1>8, <2>1, <3>1, IncrementsAreCalls
        DEF Respond, Kept, Follows, InService, SeasonMethods
      <3> QED BY <2>1, <3>2, IncrementsAreCalls DEF Wanted
    <2> DEFINE json == Response(method[c], msg[c], results[c])
    <2>2. Reply(c, 200, json) /\ UNCHANGED <<callerVars, method, carried>>
      BY <1>8 DEF Respond, HTTPStatusFromCode
    <2> HIDE DEF json
    <2>3. CallsIncrement(c) /\ ~Empty(call[c].leaderboard) /\ ~Empty(call[c].member) =>
            carried[c] # <<>> \/ ~Succeeds([status |-> 200, json |-> json])
      BY <2>1, <2>2
    <2> QED BY <2>1, <2>2, <2>3, RepliesCount
  <1>9. CASE Begin(c) \/ ReadPreviousRanks(c) \/ WriteScores(c)
    <2>1. server'[c] \in InService /\ UNCHANGED <<callerVars, method, answer>>
      BY <1>9 DEF Begin, ReadPreviousRanks, WriteScores, InService
    <2> QED BY <1>1, <2>1, StepsCount
  <1>10. CASE Read(c)
    BY <1>3, <1>5, <1>10 DEF Read
  <1>11. CASE RemoveScores(c)
    BY <1>5, <1>11 DEF RemoveScores
  <1>12. CASE ReadWritten(c)
    BY <1>3, <1>4, <1>5, <1>12 DEF ReadWritten
  <1>13. CASE CommandFails(c)
    BY <1>3, <1>13 DEF CommandFails
  <1>14. CASE WriteAgain(c)
    <2>1. server'[c] \in InService /\ UNCHANGED <<callerVars, method, answer>>
      BY <1>14 DEF WriteAgain, InService
    <2> QED BY <1>1, <2>1, StepsCount
  <1> QED BY <1>6, <1>7, <1>8, <1>9, <1>10, <1>11, <1>12, <1>13, <1>14

LEMMA IncrementInvNext == IncrementInv /\ [Next]_vars => IncrementInv'
  <1> SUFFICES ASSUME IncrementInv, [Next]_vars PROVE IncrementInv'
    OBVIOUS
  <1>1. CallInv' /\ ReachInv' /\ FollowInv'
    BY CallInvNext, ReachInvNext, FollowInvNext DEF IncrementInv
  <1>2. ASSUME NEW c \in Callers, Ask(c) \/ GiveUp(c) \/ ServerStep(c) \/ Receive(c)
        PROVE  \A d \in Callers : Counting(d)'
    <2>1. Counting(c)'
      BY <1>2, CallersCount, FrontCounts, HandlersCount DEF ServerStep, Receive
    <2> QED BY <1>2, <2>1, OthersCount
  <1>3. ASSUME UNCHANGED vars, NEW c \in Callers PROVE Counting(c)'
    <2>1. Untouched(c) /\ call'[c] = call[c] /\ http'[c] = http[c]
      BY <1>3 DEF vars, callerVars, handlerVars, worldVars, Untouched
    <2> QED BY <2>1, LikeCounts DEF IncrementInv
  <1> QED BY <1>1, <1>2, <1>3 DEF Next, Rest, IncrementInv

-----------------------------------------------------------------------------
(* The tally                                                               *)

OnlyIncrements == \A c \in Callers : call[c] # Nil => CallsIncrement(c)

OnIt(l, m) ==
    {c \in Callers : CallsIncrement(c) /\ call[c].leaderboard = l /\ call[c].member = m}

Amounts(l, m) == [c \in OnIt(l, m) |-> call[c].increment]

\* The score is the sum of what was written, each as often as times says.
IsTally(l, m, times) ==
    /\ \A c \in OnIt(l, m) : times[c] > 0 <=> carried[c] # <<>>
    /\ board[l][m] = IF \A c \in OnIt(l, m) : times[c] = 0 THEN None
                     ELSE Total(OnIt(l, m), times, Amounts(l, m))

Tally(l, m) == \E times \in [OnIt(l, m) -> 0 .. 1 + faults] : IsTally(l, m, times)

Counted ==
    /\ board \in [Boards -> [PublicIDs -> Int \cup {None}]]
    /\ \A l \in Boards, m \in PublicIDs :
          (\A f \in Scoreboards : f[l][m] = None) => Tally(l, m)

Finite == IsFiniteSet({c \in Callers : call[c] # Nil})

AddInv ==
    /\ IncrementInv /\ faults \in Nat /\ Finite
    /\ OnlyIncrements => Counted

LEMMA TallyStays ==
    ASSUME NEW l, NEW m, Tally(l, m), OnIt(l, m)' = OnIt(l, m),
           \A c \in OnIt(l, m) : call'[c] = call[c], board'[l][m] = board[l][m],
           faults \in Nat, faults' \in {faults, faults + 1},
           \A c \in OnIt(l, m) : carried'[c] = carried[c]
    PROVE  Tally(l, m)'
  <1>1. OnIt(l, m)' = OnIt(l, m) /\ Amounts(l, m)' = Amounts(l, m)
    BY DEF OnIt, Amounts, CallsIncrement
  <1>2. PICK times \in [OnIt(l, m) -> 0 .. 1 + faults] : IsTally(l, m, times)
    BY DEF Tally
  <1>3. times \in [OnIt(l, m)' -> 0 .. 1 + faults']
    BY <1>1
  <1>4. IsTally(l, m, times)'
    BY <1>1, <1>2 DEF IsTally
  <1> QED BY <1>3, <1>4 DEF Tally

\* One of the increments is written, for the first time or once more.
LEMMA TallyGrows ==
    ASSUME NEW l, NEW m, Tally(l, m), UNCHANGED call, IsFiniteSet(OnIt(l, m)),
           Amounts(l, m) \in [OnIt(l, m) -> Int], NEW c \in OnIt(l, m),
           board[l][m] \in Int \cup {None},
           board'[l][m] = IF board[l][m] = None THEN call[c].increment
                          ELSE board[l][m] + call[c].increment,
           faults \in Nat,
           (carried[c] = <<>> /\ faults' = faults) \/ faults' = faults + 1,
           carried'[c] # <<>>, \A d \in OnIt(l, m) \ {c} : carried'[d] = carried[d]
    PROVE  Tally(l, m)'
  <1> DEFINE S == OnIt(l, m)
             a == Amounts(l, m)
  <1>1. S' = S /\ a' = a /\ a[c] = call[c].increment /\ a[c] \in Int
    BY DEF OnIt, Amounts, CallsIncrement
  <1>2. PICK times \in [S -> 0 .. 1 + faults] : IsTally(l, m, times)
    BY DEF Tally
  <1> DEFINE more == [times EXCEPT ![c] = @ + 1]
  <1>3. /\ times \in [S -> Nat] /\ more[c] = times[c] + 1 /\ times[c] \in 0 .. 1 + faults
        /\ \A d \in S \ {c} : more[d] = times[d] /\ times[d] \in 0 .. 1 + faults
        /\ DOMAIN more = S /\ more = [d \in S |-> more[d]]
        /\ IsFiniteSet(S) /\ a \in [S -> Int] /\ c \in S
    <2>1. IsFiniteSet(S) /\ a \in [S -> Int] /\ c \in S
      OBVIOUS
    <2> HIDE DEF S, a
    <2>2. times \in [S -> Nat] /\ \A d \in S : times[d] \in 0 .. 1 + faults
      BY <1>2
    <2>3. /\ more[c] = times[c] + 1 /\ \A d \in S \ {c} : more[d] = times[d]
          /\ DOMAIN more = S /\ more = [d \in S |-> more[d]]
      BY <1>2, <2>1
    <2> QED BY <2>1, <2>2, <2>3
  <1>4. times[c] > 0 <=> carried[c] # <<>>
    BY <1>2 DEF IsTally
  <1>5. more \in [S' -> 0 .. 1 + faults']
    <2>1. more[c] \in 0 .. 1 + faults'
      BY <1>3, <1>4
    <2>2. \A d \in S \ {c} : more[d] \in 0 .. 1 + faults'
      BY <1>3
    <2> HIDE DEF more, S
    <2> QED BY <1>1, <1>3, <2>1, <2>2
  <1>6. Total(S, times, a) \in Int /\ Total(S, more, a) = Total(S, times, a) + a[c]
    <2> HIDE DEF S, a
    <2>1. more = [times EXCEPT ![c] = @ + 1]
      OBVIOUS
    <2> HIDE DEF more
    <2> QED BY ONLY <1>3, <2>1, TotalOfOneMore
  <1>7. board'[l][m] = Total(S, more, a)
    <2>1. CASE \A d \in S : times[d] = 0
      <3>1. Total(S, times, a) = 0
        <4> HIDE DEF S, a
        <4> QED BY ONLY <1>3, <2>1, TotalOfNothing
      <3>2. board[l][m] = None
        BY <1>2, <2>1 DEF IsTally
      <3> HIDE DEF S, a, more
      <3> QED BY <1>1, <1>6, <3>1, <3>2
    <2>2. CASE ~\A d \in S : times[d] = 0
      <3>1. board[l][m] = Total(S, times, a)
        BY <1>2, <2>2 DEF IsTally
      <3>2. board[l][m] # None
        BY <1>6, <3>1, MemberNamesAssumption
      <3> HIDE DEF S, a, more
      <3> QED BY <1>1, <1>6, <3>1, <3>2
    <2> QED BY <2>1, <2>2
  <1>8. more[c] > 0 /\ ~\A d \in S : more[d] = 0
    BY <1>3
  <1>9. \A d \in S : more[d] > 0 <=> carried'[d] # <<>>
    <2>1. \A d \in S \ {c} : times[d] > 0 <=> carried[d] # <<>>
      BY <1>2 DEF IsTally
    <2> HIDE DEF more, S
    <2> QED BY <1>3, <1>8, <2>1 DEF S
  <1> HIDE DEF more
  <1>10. IsTally(l, m, more)'
    BY <1>1, <1>7, <1>8, <1>9 DEF IsTally
  <1> QED BY <1>5, <1>10 DEF Tally

\* One more calls, and nothing is written of it yet.
LEMMA TallyWithAnother ==
    ASSUME NEW l, NEW m, Tally(l, m), IsFiniteSet(OnIt(l, m)),
           Amounts(l, m) \in [OnIt(l, m) -> Int], NEW c, c \notin OnIt(l, m),
           OnIt(l, m)' = OnIt(l, m) \cup {c}, \A d \in OnIt(l, m) : call'[d] = call[d],
           Amounts(l, m)' \in [OnIt(l, m)' -> Int],
           UNCHANGED <<board, carried, faults>>, carried[c] = <<>>, faults \in Nat
    PROVE  Tally(l, m)'
  <1> DEFINE S == OnIt(l, m)
             T == S \cup {c}
             a == Amounts(l, m)
  <1>1. PICK times \in [S -> 0 .. 1 + faults] : IsTally(l, m, times)
    BY DEF Tally
  <1>2. PICK more : more = [d \in T |-> IF d = c THEN 0 ELSE times[d]]
    OBVIOUS
  <1>3. S' = T /\ more \in [S' -> 0 .. 1 + faults'] /\ more \in [T -> Nat] /\ more[c] = 0
    BY <1>2
  <1>4. \A d \in S : more[d] = times[d] /\ a'[d] = a[d]
    BY <1>2 DEF Amounts
  <1>5. /\ times \in [S -> Nat] /\ a' \in [T -> Int] /\ a \in [S -> Int]
        /\ IsFiniteSet(S) /\ c \notin S
    OBVIOUS
  <1>6. Total(T, more, a') = Total(S, times, a)
    <2> DEFINE b == a'
    <2>1. b \in [T -> Int] /\ \A d \in S : more[d] = times[d] /\ b[d] = a[d]
      BY <1>4, <1>5
    <2>2. T = S \cup {c}
      OBVIOUS
    <2> HIDE DEF a, b, S, T
    <2>3. Total(T, more, b) = Total(S, times, a)
      BY ONLY <1>3, <1>5, <2>1, <2>2, TotalWithAnother
    <2> QED BY <2>3 DEF b
  <1>7. (\A d \in T : more[d] = 0) <=> \A d \in S : times[d] = 0
    BY <1>3, <1>4
  <1>8. \A d \in T : more[d] > 0 <=> carried'[d] # <<>>
    <2>1. \A d \in S : times[d] > 0 <=> carried[d] # <<>>
      BY <1>1 DEF IsTally
    <2> QED BY <1>3, <1>4, <2>1
  <1>9. IsTally(l, m, more)'
    <2>1. \A d \in S' : more[d] > 0 <=> carried'[d] # <<>>
      BY <1>3, <1>8
    <2>2. board'[l][m] = IF \A d \in S' : more[d] = 0 THEN None ELSE Total(S', more, a')
      <3>1. board'[l][m] = IF \A d \in S : times[d] = 0 THEN None ELSE Total(S, times, a)
        BY <1>1 DEF IsTally
      <3>2. S' = T
        BY <1>3
      <3> HIDE DEF S, T, a
      <3> QED BY <1>6, <1>7, <3>1, <3>2
    <2> QED BY <2>1, <2>2 DEF IsTally
  <1> QED BY <1>3, <1>9 DEF Tally

LEMMA TallyTyped ==
    ASSUME AddInv, NEW l, NEW m
    PROVE  IsFiniteSet(OnIt(l, m)) /\ Amounts(l, m) \in [OnIt(l, m) -> Int]
  <1>1. OnIt(l, m) \subseteq {c \in Callers : call[c] # Nil}
    BY DEF OnIt, CallsIncrement
  <1>2. IsFiniteSet(OnIt(l, m))
    BY <1>1, FS_Subset DEF AddInv, Finite
  <1>3. \A c \in OnIt(l, m) : call[c].increment \in Int
    BY IncrementsAreCalls DEF OnIt, AddInv
  <1> QED BY <1>2, <1>3 DEF Amounts

\* An increment is written, for the first time or once more.
LEMMA WriteCounts ==
    ASSUME AddInv, OnlyIncrements, UNCHANGED call, NEW c \in Callers, CallsIncrement(c), NEW s,
           s.service = "IncrementMemberScore", s.leaderboard = call[c].leaderboard,
           s.scores = <<[PublicID |-> call[c].member, Score |-> call[c].increment]>>,
           board' = [board EXCEPT ![s.leaderboard] = Written(@, s)],
           (carried[c] = <<>> /\ faults' = faults) \/ faults' = faults + 1,
           carried'[c] # <<>>, \A d \in Callers \ {c} : carried'[d] = carried[d]
    PROVE  Counted'
  <1> DEFINE n == call[c].increment
             k == call[c].member
             on == call[c].leaderboard
             new(b) == [b EXCEPT ![k] = IF @ = None THEN n ELSE @ + n]
  <1>1. n \in Int /\ Counted /\ faults \in Nat
    BY IncrementsAreCalls DEF AddInv
  <1>2. board \in [Boards -> [PublicIDs -> Int \cup {None}]]
    BY <1>1 DEF Counted
  <1>3. board' = [board EXCEPT ![on] = new(@)]
    <2>1. s.scores[1].PublicID = k /\ s.scores[1].Score = n
      OBVIOUS
    <2>2. ASSUME NEW b PROVE Written(b, s) = new(b)
      <3> HIDE DEF n, k
      <3> QED BY <2>1 DEF Written, Incremented
    <2> HIDE DEF new
    <2> QED BY <2>2
  <1>4. ASSUME NEW b \in [PublicIDs -> Int \cup {None}]
        PROVE  /\ new(b) \in [PublicIDs -> Int \cup {None}]
               /\ \A m \in PublicIDs :
                    new(b)[m] = IF m # k THEN b[m] ELSE IF b[m] = None THEN n ELSE b[m] + n
    <2>1. \A m \in PublicIDs : b[m] \in Int \cup {None}
      BY <1>4
    <2> HIDE DEF n, k
    <2>2. \A m \in PublicIDs :
             new(b)[m] = IF m # k THEN b[m] ELSE IF b[m] = None THEN n ELSE b[m] + n
      BY <1>4
    <2>3. new(b) = [m \in PublicIDs |-> new(b)[m]]
      BY <1>4
    <2>4. \A m \in PublicIDs : new(b)[m] \in Int \cup {None}
      <3> HIDE DEF new
      <3> QED BY <1>1, <2>1, <2>2
    <2> HIDE DEF new
    <2> QED BY <2>2, <2>3, <2>4
  <1> HIDE DEF n, k, on, new
  <1>5. /\ board' \in [Boards -> [PublicIDs -> Int \cup {None}]]
        /\ \A l \in Boards : board'[l] = IF l = on THEN new(board[l]) ELSE board[l]
    <2>1. \A l \in Boards : board[l] \in [PublicIDs -> Int \cup {None}]
      BY <1>2
    <2>2. \A l \in Boards : new(board[l]) \in [PublicIDs -> Int \cup {None}]
      BY <1>4, <2>1
    <2>3. DOMAIN board = Boards /\ board' = [l \in Boards |-> board'[l]]
      BY <1>2, <1>3
    <2>4. \A l \in Boards : board'[l] = IF l = on THEN new(board[l]) ELSE board[l]
      BY <1>3, <2>3
    <2>5. \A l \in Boards : board'[l] \in [PublicIDs -> Int \cup {None}]
      BY <2>1, <2>2, <2>4
    <2> QED BY <2>3, <2>4, <2>5
  <1>6. ASSUME NEW l \in Boards, NEW m \in PublicIDs, \A f \in Scoreboards : f[l][m] = None
        PROVE  Tally(l, m)'
    <2>1. Tally(l, m) /\ board[l] \in [PublicIDs -> Int \cup {None}]
      BY <1>1, <1>2, <1>6 DEF Counted
    <2>2. board[l][m] \in Int \cup {None}
      BY <2>1
    <2>3. OnIt(l, m)' = OnIt(l, m)
      BY DEF OnIt, CallsIncrement
    <2>4. CASE c \in OnIt(l, m)
      <3>1. l = on /\ m = k
        BY <2>4 DEF OnIt, on, k
      <3>2. board'[l][m] = IF board[l][m] = None THEN n ELSE board[l][m] + n
        BY <1>4, <1>5, <2>1, <3>1
      <3>3. \A d \in OnIt(l, m) \ {c} : carried'[d] = carried[d]
        BY DEF OnIt
      <3> QED BY <1>1, <2>1, <2>2, <2>4, <3>2, <3>3, TallyTyped, TallyGrows DEF n
    <2>5. CASE c \notin OnIt(l, m)
      <3>1. l # on \/ m # k
        BY <2>5 DEF OnIt, on, k
      <3>2. board'[l][m] = board[l][m]
        BY <1>4, <1>5, <2>1, <3>1
      <3>3. \A d \in OnIt(l, m) : carried'[d] = carried[d] /\ call'[d] = call[d]
        BY <2>5 DEF OnIt
      <3>4. faults' \in {faults, faults + 1}
        OBVIOUS
      <3> QED BY <1>1, <2>1, <2>3, <3>2, <3>3, <3>4, TallyStays
    <2> QED BY <2>4, <2>5
  <1> QED BY <1>5, <1>6 DEF Counted

LEMMA AskCounts ==
    ASSUME AddInv, NEW c \in Callers, Ask(c)
    PROVE  Finite' /\ (OnlyIncrements' => Counted')
  <1>1. PICK w \in Wishes[c] : call' = [call EXCEPT ![c] = w]
    BY DEF Ask
  <1>2. /\ call[c] = Nil /\ carried[c] = <<>> /\ w # Nil
        /\ call'[c] = w /\ \A d \in Callers \ {c} : call'[d] = call[d]
        /\ UNCHANGED <<board, carried, faults>> /\ faults \in Nat
    <2>1. Holds(c) /\ Kept(c) /\ DOMAIN call = Callers
      BY DEF AddInv, IncrementInv, CallInv, FollowInv, ReachInv, ReachDomains
    <2>2. server[c] = "idle" /\ UNCHANGED <<board, carried, faults>>
      BY <2>1 DEF Ask, Holds, WrittenSoFar, worldVars
    <2>3. call[c] = Nil /\ carried[c] = <<>> /\ w # Nil
      BY <2>1, <2>2, WishesAssumption DEF Holds, WrittenSoFar, Kept, Unrouted
    <2> QED BY <1>1, <2>1, <2>2, <2>3 DEF AddInv
  <1>3. Finite'
    <2>1. {d \in Callers : call'[d] # Nil} = {d \in Callers : call[d] # Nil} \cup {c}
      BY <1>2
    <2> QED BY <2>1, FS_AddElement DEF AddInv, Finite
  <1>4. ASSUME OnlyIncrements', NEW l \in Boards, NEW m \in PublicIDs,
               \A f \in Scoreboards : f[l][m] = None
        PROVE  Tally(l, m)'
    <2>1. \A d \in Callers \ {c} : CallsIncrement(d)' <=> CallsIncrement(d)
      BY <1>2 DEF CallsIncrement
    <2>2. OnlyIncrements
      BY <1>2, <1>4, <2>1 DEF OnlyIncrements, CallsIncrement
    <2>3. Tally(l, m)
      BY <1>4, <2>2 DEF AddInv, Counted
    <2>4. w.increment \in Int
      <3>1. w.fn = "IncrementScore"
        BY <1>2, <1>4 DEF OnlyIncrements, CallsIncrement
      <3>2. OfLibrary(w)
        BY <3>1, WishesAssumption DEF OfLibrary
      <3> QED BY <3>1, <3>2 DEF OfLibrary, CallOf
    <2>5. c \notin OnIt(l, m) /\ \A d \in OnIt(l, m) : call'[d] = call[d]
      BY <1>2 DEF OnIt, CallsIncrement
    <2>6. CASE c \in OnIt(l, m)'
      <3>1. OnIt(l, m)' = OnIt(l, m) \cup {c}
        BY <1>2, <2>1, <2>5, <2>6 DEF OnIt
      <3>2. \A d \in OnIt(l, m)' : call'[d].increment \in Int
        <4>1. \A d \in OnIt(l, m) : call[d].increment \in Int
          BY IncrementsAreCalls DEF OnIt, AddInv
        <4> QED BY <1>2, <2>4, <2>5, <3>1, <4>1
      <3>3. Amounts(l, m)' \in [OnIt(l, m)' -> Int]
        BY <3>2 DEF Amounts
      <3>4. IsFiniteSet(OnIt(l, m)) /\ Amounts(l, m) \in [OnIt(l, m) -> Int]
        BY TallyTyped
      <3> QED BY <1>2, <2>3, <2>5, <3>1, <3>3, <3>4, TallyWithAnother
    <2>7. CASE c \notin OnIt(l, m)'
      <3>1. OnIt(l, m)' = OnIt(l, m)
        BY <1>2, <2>1, <2>5, <2>7 DEF OnIt
      <3>2. /\ board'[l][m] = board[l][m] /\ faults' \in {faults, faults + 1}
            /\ \A d \in OnIt(l, m) : carried'[d] = carried[d]
        BY <1>2
      <3> QED BY <1>2, <2>3, <2>5, <3>1, <3>2, TallyStays
    <2> QED BY <2>6, <2>7
  <1>5. OnlyIncrements' => board' \in [Boards -> [PublicIDs -> Int \cup {None}]]
    <2>1. OnlyIncrements' => OnlyIncrements
      BY <1>2 DEF OnlyIncrements, CallsIncrement
    <2> QED BY <1>2, <2>1 DEF AddInv, Counted
  <1> QED BY <1>3, <1>4, <1>5 DEF Counted

\* What neither calls nor writes or removes.
LEMMA OthersCountToo ==
    ASSUME AddInv, UNCHANGED <<call, board, carried>>, faults' \in {faults, faults + 1}
    PROVE  Finite' /\ faults' \in Nat /\ (OnlyIncrements' => Counted')
  <1>1. Finite' /\ faults \in Nat /\ faults' \in Nat
    BY DEF AddInv, Finite
  <1>2. OnlyIncrements' <=> OnlyIncrements
    BY DEF OnlyIncrements, CallsIncrement
  <1>3. ASSUME OnlyIncrements, NEW l \in Boards, NEW m \in PublicIDs,
               \A f \in Scoreboards : f[l][m] = None
        PROVE  Tally(l, m)'
    <2>1. Tally(l, m)
      BY <1>3 DEF AddInv, Counted
    <2>2. OnIt(l, m)' = OnIt(l, m)
      BY DEF OnIt, CallsIncrement
    <2>3. \A c \in OnIt(l, m) : call'[c] = call[c] /\ carried'[c] = carried[c]
      OBVIOUS
    <2>4. board'[l][m] = board[l][m]
      OBVIOUS
    <2> QED BY <1>1, <2>1, <2>2, <2>3, <2>4, TallyStays
  <1> QED BY <1>1, <1>2, <1>3 DEF AddInv, Counted

LEMMA BesideTheBoard ==
    ASSUME NEW c \in Callers,
           \/ GiveUp(c) \/ Receive(c) \/ Redirect(c) \/ ServePage(c) \/ EnterGateway(c)
           \/ Unauthorized(c) \/ PanicWithoutBody(c) \/ Refuse(c) \/ Begin(c) \/ Respond(c)
           \/ Read(c) \/ ReadPreviousRanks(c) \/ ReadWritten(c) \/ CommandFails(c)
           \/ PingFails(c)
    PROVE  UNCHANGED <<call, board, carried>> /\ faults' \in {faults, faults + 1}
  <1> USE DEF callerVars, worldVars, handlerVars
  <1>1. CASE GiveUp(c) \/ Receive(c)
    BY <1>1 DEF GiveUp, Receive, Deliver, FollowRedirection
  <1>2. CASE Redirect(c) \/ ServePage(c) \/ EnterGateway(c)
    BY <1>2 DEF Redirect, ServePage, EnterGateway
  <1>3. CASE Unauthorized(c) \/ PanicWithoutBody(c) \/ Refuse(c) \/ Begin(c) \/ Respond(c)
    BY <1>3 DEF Unauthorized, PanicWithoutBody, Recover, Refuse, Begin, Respond
  <1>4. CASE Read(c) \/ ReadPreviousRanks(c)
    BY <1>4 DEF Read, Fails, ReadPreviousRanks
  <1>5. CASE ReadWritten(c)
    BY <1>5 DEF ReadWritten, Recover, Fails
  <1>6. CASE CommandFails(c) \/ PingFails(c)
    BY <1>6 DEF CommandFails, Fails, PingFails
  <1> QED BY <1>1, <1>2, <1>3, <1>4, <1>5, <1>6

\* While nobody does anything but increment, a handler that is at a service call
\* is about to write an increment, and only such a handler is.
LEMMA HandlersIncrement ==
    ASSUME AddInv, OnlyIncrements, NEW c \in Callers,
           RemoveScores(c) \/ WriteScores(c) \/ WriteAgain(c)
    PROVE  LET s == NextCall(c)
           IN  /\ CallsIncrement(c) /\ method[c] \in SeasonMethods /\ ~RemoveScores(c)
               /\ s.service = "IncrementMemberScore" /\ s.leaderboard = call[c].leaderboard
               /\ s.scores = <<[PublicID |-> call[c].member, Score |-> call[c].increment]>>
  <1>1. server[c] \in InService /\ todo[c] # <<>>
    BY DEF RemoveScores, WriteScores, WriteAgain, ReadyToWrite, AtCall, InService, AddInv,
           IncrementInv, CallInv, Holds, FollowsMessage
  <1>2. CallsIncrement(c)
    <2>1. call[c] \in Wishes[c] /\ Nil \notin Wishes[c]
      BY <1>1, WishesAssumption
      DEF InService, AddInv, IncrementInv, ReachInv, Reached
    <2> QED BY <2>1 DEF OnlyIncrements
  <1>3. /\ method[c] \in Methods /\ msg[c] \in RequestOf[method[c]]
        /\ ~LacksBody(method[c], msg[c])
        /\ NextCall(c) \in CallsFor(method[c], msg[c])
    BY <1>1 DEF AddInv, IncrementInv, CallInv, Holds, FollowsMessage, InService, NextCall
  <1>4. method[c] \notin Removers
    BY <1>2 DEF AddInv, IncrementInv, Counting
  <1>5. ~RemoveScores(c)
    BY <1>3, <1>4, OnlyRemoversRemove DEF RemoveScores, AtCall
  <1>6. method[c] \in WriteMethods
    <2>1. CASE server[c] \in {"ranked", "written"}
      BY <2>1 DEF AddInv, IncrementInv, CallInv, Holds, FollowsMessage
    <2>2. CASE server[c] \notin {"ranked", "written"}
      <3>1. NextCall(c).service \in WriteServices
        BY <1>5, <2>2 DEF WriteScores, WriteAgain, ReadyToWrite, AtCall, WriteServices
      <3> QED BY <1>3, <3>1, CallsOfMessage
    <2> QED BY <2>1, <2>2
  <1>7. LET s == NextCall(c)
        IN  /\ s.service = "IncrementMemberScore" /\ s.leaderboard = call[c].leaderboard
            /\ s.scores = <<[PublicID |-> call[c].member, Score |-> call[c].increment]>>
    BY <1>1, <1>2, <1>6, IncrementsNext DEF AddInv
  <1>8. method[c] \in SeasonMethods
    <2>1. CallsLibrary(c) /\ Kept(c) /\ call[c].fn = "IncrementScore"
      BY <1>2, IncrementsAreCalls DEF AddInv
    <2>2. Means(call[c], method[c], msg[c])
      BY <1>1, <1>6, <2>1, WritersMean DEF AddInv, IncrementInv
    <2> QED BY <2>1, <2>2 DEF Means, HandlerOf, SeasonMethods
  <1> QED BY <1>2, <1>5, <1>7, <1>8

LEMMA AddInvNext == AddInv /\ [Next]_vars => AddInv'
  <1> SUFFICES ASSUME AddInv, [Next]_vars PROVE AddInv'
    OBVIOUS
  <1>1. IncrementInv'
    BY IncrementInvNext DEF AddInv
  <1>2. ASSUME NEW c \in Callers, Ask(c) PROVE AddInv'
    <2>1. faults' \in Nat
      BY <1>2 DEF Ask, worldVars, AddInv
    <2> QED BY <1>1, <1>2, <2>1, AskCounts DEF AddInv
  <1>3. ASSUME UNCHANGED <<call, board, carried>>, faults' \in {faults, faults + 1} PROVE AddInv'
    BY <1>1, <1>3, OthersCountToo DEF AddInv
  <1>4. ASSUME NEW c \in Callers, RemoveScores(c) \/ WriteScores(c) \/ WriteAgain(c) PROVE AddInv'
    <2>1. UNCHANGED call /\ faults' \in Nat /\ faults \in Nat
      BY <1>4 DEF RemoveScores, WriteScores, WriteAgain, callerVars, AddInv
    <2>2. Finite' /\ (OnlyIncrements' <=> OnlyIncrements)
      BY <2>1 DEF AddInv, Finite, OnlyIncrements, CallsIncrement
    <2>3. ASSUME OnlyIncrements PROVE Counted'
      <3> DEFINE s == NextCall(c)
      <3>1. /\ CallsIncrement(c) /\ method[c] \in SeasonMethods /\ ~RemoveScores(c)
            /\ s.service = "IncrementMemberScore" /\ s.leaderboard = call[c].leaderboard
            /\ s.scores = <<[PublicID |-> call[c].member, Score |-> call[c].increment]>>
        BY <1>4, <2>3, HandlersIncrement
      <3>2. /\ CallsLibrary(c) /\ Kept(c) /\ Holds(c) /\ Kept(c)'
            /\ call[c].fn = "IncrementScore"
        BY <1>1, <3>1, IncrementsAreCalls DEF AddInv, IncrementInv, FollowInv
      <3>3. Wanted(call[c]) # <<>>
        BY <3>2 DEF Wanted
      <3>4. DOMAIN server = Callers /\ DOMAIN carried = Callers
        BY DEF AddInv, IncrementInv, CallInv, Domains
      <3>5. CASE WriteScores(c)
        <4>1. carried[c] = <<>>
          BY <3>1, <3>2, <3>5 DEF WriteScores, ReadyToWrite, AtCall, Holds, FollowsMessage, WrittenSoFar, InService
        <4>2. server'[c] = "written" /\ method'[c] = method[c]
          BY <3>4, <3>5 DEF WriteScores
        <4>3. carried'[c] = Wanted(call'[c])
          BY <2>1, <3>1, <3>2, <4>2 DEF Kept, Follows, InService, CallsLibrary
        <4>4. /\ board' = [board EXCEPT ![s.leaderboard] = Written(@, s)]
              /\ faults' = faults /\ \A d \in Callers \ {c} : carried'[d] = carried[d]
          BY <3>4, <3>5 DEF WriteScores
        <4>5. carried'[c] # <<>>
          BY <2>1, <3>3, <4>3
        <4> HIDE DEF s
        <4> QED BY <2>1, <2>3, <3>1, <4>1, <4>4, <4>5, WriteCounts
      <3>6. CASE WriteAgain(c)
        <4>1. carried[c] = Wanted(call[c])
          BY <3>1, <3>2, <3>6 DEF WriteAgain, Kept, Follows, InService
        <4>2. /\ board' = [board EXCEPT ![s.leaderboard] = Written(@, s)]
              /\ faults' = faults + 1 /\ carried' = carried
          BY <3>6 DEF WriteAgain
        <4> HIDE DEF s
        <4> QED BY <2>1, <2>3, <3>1, <3>3, <4>1, <4>2, WriteCounts
      <3> QED BY <1>4, <3>1, <3>5, <3>6
    <2> QED BY <1>1, <2>1, <2>2, <2>3 DEF AddInv
  <1>5. CASE UNCHANGED vars
    BY <1>3, <1>5 DEF vars, callerVars, worldVars
  <1>6. ASSUME NEW c \in Callers, GiveUp(c) \/ Receive(c) PROVE AddInv'
    BY <1>3, <1>6, BesideTheBoard
  <1>7. ASSUME NEW c \in Callers, ServerStep(c) PROVE AddInv'
    BY <1>3, <1>4, <1>7, BesideTheBoard DEF ServerStep
  <1> QED BY <1>2, <1>5, <1>6, <1>7 DEF Next, Rest

LEMMA AddInvInit == Init => AddInv
  <1> SUFFICES ASSUME Init PROVE AddInv
    OBVIOUS
  <1>1. /\ \A c \in Callers : call[c] = Nil /\ server[c] = "idle" /\ answer[c].status = 0
        /\ board \in Scoreboards /\ faults = 0
    BY DEF Init, NoAnswer
  <1>2. IncrementInv
    BY <1>1, CallInvInit, ReachInvInit, FollowInvInit DEF IncrementInv, Counting, CallsIncrement
  <1>3. Finite
    <2>1. {c \in Callers : call[c] # Nil} = {}
      BY <1>1
    <2> QED BY <2>1, FS_EmptySet DEF Finite
  <1>4. board \in [Boards -> [PublicIDs -> Int \cup {None}]]
    BY <1>1, CallsAssumption
  <1>5. ASSUME NEW l \in Boards, NEW m \in PublicIDs, \A f \in Scoreboards : f[l][m] = None
        PROVE  Tally(l, m)
    <2>1. OnIt(l, m) = {}
      BY <1>1 DEF OnIt, CallsIncrement
    <2>2. board[l][m] = None
      BY <1>1, <1>5
    <2>3. PICK times : times = [c \in {} |-> 0]
      OBVIOUS
    <2>4. IsTally(l, m, times) /\ times \in [OnIt(l, m) -> 0 .. 1 + faults]
      BY <2>1, <2>2, <2>3 DEF IsTally
    <2> QED BY <2>4 DEF Tally
  <1> QED BY <1>1, <1>2, <1>3, <1>4, <1>5 DEF AddInv, Counted

LEMMA AddInvIsEnough == AddInv => IncrementsAddUp
  <1> SUFFICES ASSUME AddInv PROVE IncrementsAddUp
    OBVIOUS
  <1>1. ASSUME NEW l \in Boards \ {""}, NEW m \in PublicIDs \ {""}
        PROVE  LET onIt == {c \in Increments : call[c].leaderboard = l /\ call[c].member = m}
                   succeeded == {c \in onIt : answer[c].status = 200 /\ answer[c].json.Success}
                   sum(times) == SumFunction([c \in onIt |-> times[c] * call[c].increment])
               IN  /\ \A c \in Callers : call[c] # Nil => c \in Increments
                   /\ \A f \in Scoreboards : f[l][m] = None
                   => \E times \in [onIt -> 0 .. 1 + faults] :
                         /\ \A c \in succeeded : times[c] > 0
                         /\ board[l][m] = IF \A c \in onIt : times[c] = 0 THEN None
                                          ELSE sum(times)
    <2> DEFINE onIt == {c \in Increments : call[c].leaderboard = l /\ call[c].member = m}
               succeeded == {c \in onIt : answer[c].status = 200 /\ answer[c].json.Success}
    <2> SUFFICES ASSUME \A c \in Callers : call[c] # Nil => c \in Increments,
                        \A f \in Scoreboards : f[l][m] = None
                 PROVE  \E times \in [onIt -> 0 .. 1 + faults] :
                          /\ \A c \in succeeded : times[c] > 0
                          /\ board[l][m] =
                               IF \A c \in onIt : times[c] = 0 THEN None
                               ELSE SumFunction([c \in onIt |-> times[c] * call[c].increment])
      BY Zenon
    <2>1. OnlyIncrements /\ onIt = OnIt(l, m)
      BY <1>1 DEF OnlyIncrements, OnIt, CallsIncrement, Increments
    <2>2. ~Empty(l) /\ ~Empty(m)
      BY Zenon DEF Empty
    <2>3. l \in Boards /\ m \in PublicIDs
      BY Zenon
    <2>4. PICK times \in [OnIt(l, m) -> 0 .. 1 + faults] : IsTally(l, m, times)
      BY <1>1, <2>1, <2>3 DEF AddInv, Counted, Tally
    <2>5. ASSUME NEW c \in succeeded PROVE times[c] > 0
      <3>1. /\ c \in OnIt(l, m) /\ c \in Callers /\ CallsIncrement(c) /\ Succeeds(answer[c])
            /\ call[c].leaderboard = l /\ call[c].member = m
        BY <1>1, <2>1, <2>5 DEF OnIt, Succeeds
      <3>2. Counting(c)
        BY <3>1 DEF AddInv, IncrementInv
      <3>3. carried[c] # <<>>
        BY ONLY <2>2, <3>1, <3>2 DEF Counting
      <3> QED BY <2>4, <3>1, <3>3 DEF IsTally
    <2>6. Total(onIt, times, Amounts(l, m)) =
            SumFunction([c \in onIt |-> times[c] * call[c].increment])
      <3>1. Summands(onIt, times, Amounts(l, m)) = [c \in onIt |-> times[c] * call[c].increment]
        BY <2>1 DEF Summands, Amounts
      <3> QED BY <3>1 DEF Total
    <2> QED BY <2>1, <2>4, <2>5, <2>6 DEF IsTally
  <1> QED BY <1>1, Zenon DEF IncrementsAddUp

\* Whatever the callers' number and increments: while nobody does anything else, a
\* member's score is the sum of the increments that were written, each as often as
\* it was sent to Redis, and of those answered with success none is missing.
THEOREM IncrementsAddUpAlways == Spec => []IncrementsAddUp
  <1>1. Init => AddInv
    BY AddInvInit
  <1>2. AddInv /\ [Next]_vars => AddInv'
    BY AddInvNext
  <1>3. AddInv => IncrementsAddUp
    BY AddInvIsEnough
  <1> QED BY <1>1, <1>2, <1>3, PTL DEF Spec

=============================================================================
