--------------------------- MODULE DecisionProofs ---------------------------
(***************************************************************************)
(* The decisions of an investigation for inputs of any size: which         *)
(* proposal is selected, what history and the automatic level do to a      *)
(* decision, which changes are collected, and which of them are promoted   *)
(* to causes.                                                              *)
(*                                                                         *)
(* Each is shown for every input first, then for the states of the         *)
(* specification, whose outputs are what the nodes make of their inputs.   *)
(***************************************************************************)
EXTENDS MCDecisions, RemediationPolicyProofs, FiniteSetTheorems

(***************************************************************************)
(* The selection                                                           *)
(***************************************************************************)
DistinctlyNamed(proposals) ==
    \A i, k \in DOMAIN proposals : proposals[i].id = proposals[k].id => i = k

\* The decision is about the head of the candidates, whatever the limits say.
LEMMA DecisionNamesHead ==
    ASSUME NEW proposals \in Seq(Proposals), NEW settings, NEW cause, NEW prior,
           Candidates(proposals, settings) # {}
    PROVE  \E i \in Candidates(proposals, settings) :
              /\ IsFirst(i, Candidates(proposals, settings), proposals, cause)
              /\ Decide(proposals, settings, cause, prior).proposal_id = proposals[i].id
<1> DEFINE C == Candidates(proposals, settings)
           First(i) == IsFirst(i, C, proposals, cause)
           head == CHOOSE i \in C : First(i)
           s == EvaluateAndRank(proposals, settings, cause)
<1>1. \E i \in C : First(i)
  BY RankingHasHead
<1>2. head \in C /\ First(head)
  <2> HIDE DEF C, First
  <2> QED
    BY <1>1
<1>3. head \in DOMAIN proposals
  BY <1>2 DEF Candidates
<1>4. s = AllResults(proposals, settings)[head]
  BY <1>3 DEF EvaluateAndRank
<1> HIDE DEF head, s
<1>5. s = EvaluatePolicy(proposals[head], settings)
  BY <1>3, <1>4 DEF AllResults
<1>6. PICK d \in Decisions : s = Result(d, proposals[head])
  BY <1>5 DEF EvaluatePolicy, Decisions
<1>7. /\ s.proposal_id = proposals[head].id
      /\ [s EXCEPT !.decision = "REJECTED"].proposal_id = proposals[head].id
  BY <1>6 DEF Result
<1>8. Decide(proposals, settings, cause, prior) \in {s, [s EXCEPT !.decision = "REJECTED"]}
  BY DEF Decide, EnforceLimits, s
<1>9. Decide(proposals, settings, cause, prior).proposal_id = proposals[head].id
  BY <1>7, <1>8
<1> QED
  BY <1>2, <1>9

\* A head whose name differs from the others' comes before each of them by the
\* criteria in their order.
LEMMA HeadIsLeast ==
    ASSUME NEW proposals \in Seq(Proposals), DistinctlyNamed(proposals), NEW cause,
           NEW C, C \subseteq DOMAIN proposals,
           NEW i, IsFirst(i, C, proposals, cause), NEW k \in C, k # i
    PROVE  LET suit(x) == ActionSuitability(x.action_type, cause)
               level(x) == PolicyLevel[x.action_type]
               p == proposals[i]
               q == proposals[k]
           IN  /\ suit(p) <= suit(q)
               /\ suit(p) = suit(q) => level(p) <= level(q)
               /\ suit(p) = suit(q) /\ level(p) = level(q) => p.id <= q.id
<1> DEFINE p == proposals[i]
           q == proposals[k]
           l == RankingKey(p, cause)
           m == RankingKey(q, cause)
<1>1. i \in DOMAIN proposals /\ k \in DOMAIN proposals /\ p \in Proposals /\ q \in Proposals
  BY DEF IsFirst
<1>2. /\ l[1] = ActionSuitability(p.action_type, cause) /\ l[2] = PolicyLevel[p.action_type]
      /\ m[1] = ActionSuitability(q.action_type, cause) /\ m[2] = PolicyLevel[q.action_type]
      /\ l[4] = p.id /\ m[4] = q.id
  BY DEF RankingKey
<1>3. /\ l[1] \in 0 .. 1 /\ l[2] \in 1 .. 2 /\ l[3] \in 0 .. 1 /\ l[4] \in Nat
      /\ m[1] \in 0 .. 1 /\ m[2] \in 1 .. 2 /\ m[3] \in 0 .. 1 /\ m[4] \in Nat
      /\ l[2] = l[3] + 1 /\ m[2] = m[3] + 1
  BY <1>1 DEF RankingKey, ActionSuitability, PolicyLevel, ActionTypes, RESET, RESTART, Proposals
<1>4. l[4] # m[4]
  BY <1>1, <1>2 DEF DistinctlyNamed
<1>5. KeyLess(l, m)
  BY <1>4 DEF IsFirst
<1> HIDE DEF p, q, l, m
<1>6. PICK x \in 1 .. 4 : l[x] < m[x] /\ \A h \in 1 .. x - 1 : l[h] = m[h]
  BY <1>5 DEF KeyLess
<1>7. /\ l[1] <= m[1]
      /\ l[1] = m[1] => l[2] <= m[2]
      /\ l[1] = m[1] /\ l[2] = m[2] => l[4] <= m[4]
  <2>1. CASE x = 1
    BY <1>3, <1>6, <2>1
  <2>2. CASE x = 2
    BY <1>3, <1>6, <2>2
  <2>3. CASE x = 3
    BY <1>3, <1>6, <2>3
  <2>4. CASE x = 4
    BY <1>3, <1>6, <2>4
  <2> QED
    BY <1>6, <2>1, <2>2, <2>3, <2>4
<1> QED
  BY <1>2, <1>7 DEF p, q

\* Sorting by the composite key and taking the head selects what filtering
\* criterion by criterion leaves over, over lists of any length and in any order
\* (evaluate_and_rank_proposals).
THEOREM HeadIsBest ==
    ASSUME NEW in, in.proposals \in Seq(Proposals), DistinctlyNamed(in.proposals),
           Acceptable(in) # {}
    PROVE  Best(in) = {Selected(in, DecideOn(in))}
<1> DEFINE ps == in.proposals
           C == Candidates(ps, in.settings)
           Suit(p) == ActionSuitability(p.action_type, in.cause)
           Level(p) == PolicyLevel[p.action_type]
<1>1. /\ Range(ps) = {ps[i] : i \in DOMAIN ps}
      /\ Acceptable(in) = {ps[i] : i \in C}
  BY DEF Range, Acceptable, Evaluated, Candidates
<1>2. C # {}
  BY <1>1
<1>3. PICK h \in C : IsFirst(h, C, ps, in.cause) /\ DecideOn(in).proposal_id = ps[h].id
  BY <1>2, DecisionNamesHead DEF DecideOn
<1>4. h \in DOMAIN ps /\ C \subseteq DOMAIN ps
  BY <1>3 DEF Candidates
<1> DEFINE p == ps[h]
<1>5. p \in Acceptable(in) /\ \A q \in Acceptable(in) : q \in Proposals
  BY <1>1, <1>3, <1>4
<1>6. Selected(in, DecideOn(in)) = p
  <2>1. p \in Range(ps) /\ p.id = DecideOn(in).proposal_id
    BY <1>1, <1>3, <1>4
  <2>2. \A q \in Range(ps) : q.id = DecideOn(in).proposal_id => q = p
    BY <1>1, <1>3, <1>4 DEF DistinctlyNamed
  <2> HIDE DEF ps, p
  <2> QED
    BY <2>1, <2>2 DEF Selected, ps
<1>7. ASSUME NEW q \in Acceptable(in)
      PROVE  /\ Suit(p) <= Suit(q)
             /\ Suit(p) = Suit(q) => Level(p) <= Level(q)
             /\ Suit(p) = Suit(q) /\ Level(p) = Level(q) => p.id <= q.id
  <2>1. PICK k \in C : q = ps[k]
    BY <1>1, <1>7
  <2>2. CASE k = h
    BY <1>5, <2>1, <2>2 DEF Proposals, ActionSuitability, PolicyLevel
  <2>3. CASE k # h
    BY <1>3, <1>4, <2>1, <2>3, HeadIsLeast
  <2> QED
    BY <2>2, <2>3
<1>8. \A q \in Acceptable(in) : Suit(q) \in Int /\ Level(q) \in Int /\ q.id \in Int
  BY <1>5 DEF Proposals, ActionSuitability, PolicyLevel
<1>9. ASSUME NEW q \in Acceptable(in), q.id = p.id PROVE q = p
  BY <1>1, <1>4, <1>9 DEF DistinctlyNamed
<1> DEFINE A == Acceptable(in)
           suitable == {x \in A : \A y \in A : Suit(x) <= Suit(y)}
           safest == {x \in suitable : \A y \in suitable : Level(x) <= Level(y)}
<1>10. Best(in) = {x \in safest : \A y \in safest : x.id <= y.id}
  BY DEF Best, LeastBy
<1> HIDE DEF p, Suit, Level, A
<1>11. p \in suitable /\ \A q \in suitable : q \in A /\ Suit(q) = Suit(p)
  BY <1>5, <1>7, <1>8 DEF A
<1>12. p \in safest /\ \A q \in safest : q \in A /\ Suit(q) = Suit(p) /\ Level(q) = Level(p)
  <2>1. p \in safest
    BY <1>7, <1>11 DEF A
  <2>2. ASSUME NEW q \in safest PROVE Level(q) = Level(p)
    BY <1>7, <1>8, <1>11, <2>2 DEF A
  <2> QED
    BY <1>11, <2>1, <2>2
<1> HIDE DEF safest
<1>13. p \in Best(in)
  BY <1>7, <1>10, <1>12 DEF A
<1>14. ASSUME NEW q \in Best(in) PROVE q = p
  <2>1. q \in A /\ q.id <= p.id /\ p.id <= q.id
    BY <1>7, <1>10, <1>12, <1>14 DEF A
  <2> QED
    BY <1>8, <1>9, <2>1, <1>5 DEF A
<1> QED
  BY <1>6, <1>13, <1>14

(***************************************************************************)
(* The collection                                                          *)
(***************************************************************************)
\* order is a strict total order of S.
Orders(order, S) ==
    /\ \A k \in S : <<k, k>> \notin order
    /\ \A k, l, m \in S : <<k, l>> \in order /\ <<l, m>> \in order => <<k, m>> \in order
    /\ \A k, m \in S : k = m \/ <<k, m>> \in order \/ <<m, k>> \in order

\* Ranks are numbers below the size of the set, and follow the order.
LEMMA RanksFollow ==
    ASSUME NEW S, NEW order, IsFiniteSet(S), Orders(order, S)
    PROVE  /\ Cardinality(S) \in Nat
           /\ \A k \in S : Rank(k, S, order) \in Nat /\ Rank(k, S, order) < Cardinality(S)
           /\ \A k, m \in S : <<k, m>> \in order <=> Rank(k, S, order) < Rank(m, S, order)
<1> DEFINE Below(k) == {m \in S : <<m, k>> \in order}
<1>1. \A k : Below(k) \subseteq S /\ IsFiniteSet(Below(k)) /\ Cardinality(Below(k)) \in Nat
             /\ Rank(k, S, order) = Cardinality(Below(k))
  BY FS_Subset, FS_CardinalityType DEF Rank
<1>2. Cardinality(S) \in Nat
  BY FS_CardinalityType
<1>3. ASSUME NEW k \in S PROVE Cardinality(Below(k)) < Cardinality(S)
  <2>1. k \notin Below(k)
    BY DEF Orders
  <2>2. Below(k) \in SUBSET S
    BY <1>1
  <2> HIDE DEF Below
  <2> QED
    BY <1>1, <1>2, <2>1, <2>2, FS_Subset
<1>4. ASSUME NEW k \in S, NEW m \in S, <<k, m>> \in order
      PROVE  Cardinality(Below(k)) < Cardinality(Below(m))
  <2>1. k \notin Below(k) /\ k \in Below(m) /\ Below(k) \in SUBSET Below(m)
    BY <1>4 DEF Orders
  <2> HIDE DEF Below
  <2> QED
    BY <1>1, <2>1, FS_Subset
<1> HIDE DEF Below
<1>5. ASSUME NEW k \in S, NEW m \in S, Cardinality(Below(k)) < Cardinality(Below(m))
      PROVE  <<k, m>> \in order
  <2>1. CASE k = m
    BY <1>1, <1>5, <2>1
  <2>2. CASE <<m, k>> \in order
    BY <1>1, <1>4, <1>5, <2>2
  <2> QED
    BY <2>1, <2>2 DEF Orders
<1> QED
  BY <1>1, <1>2, <1>3, <1>4, <1>5

\* Every rank is taken.
LEMMA RanksFill ==
    ASSUME NEW S, NEW order, IsFiniteSet(S), Orders(order, S)
    PROVE  /\ \A r \in 1 .. Cardinality(S) :
                Ranked(r, S, order) \in S /\ Rank(Ranked(r, S, order), S, order) = r - 1
           /\ \A k, m \in S : Rank(k, S, order) = Rank(m, S, order) => k = m
<1> DEFINE N == Cardinality(S)
           T == 0 .. N - 1
           f == [k \in S |-> Rank(k, S, order)]
<1>1. N \in Nat
  BY RanksFollow
<1>2. \A k, m \in S : Rank(k, S, order) = Rank(m, S, order) => k = m
  BY RanksFollow DEF Orders
<1>3. f \in Injection(S, T)
  <2>1. f \in [S -> T]
    BY <1>1, RanksFollow
  <2> QED
    BY <1>2, <2>1 DEF Injection, IsInjective
<1>4. IsFiniteSet(T) /\ Cardinality(T) = N
  BY <1>1, FS_Interval
<1>5. f \in Surjection(S, T)
  <2> HIDE DEF f, T
  <2> QED
    BY <1>3, <1>4, FS_Injection
<1>6. ASSUME NEW r \in 1 .. N
      PROVE  Ranked(r, S, order) \in S /\ Rank(Ranked(r, S, order), S, order) = r - 1
  <2>1. r - 1 \in T
    BY <1>1
  <2>2. \E k \in S : Rank(k, S, order) = r - 1
    BY <1>5, <2>1 DEF Surjection
  <2> QED
    BY <2>2 DEF Ranked
<1> QED
  BY <1>2, <1>6

\* The first n are n, if there is another one.
LEMMA FirstAreAsMany ==
    ASSUME NEW S, NEW order, IsFiniteSet(S), Orders(order, S), NEW n \in Nat,
           NEW k \in S, k \notin FirstOf(S, order, n)
    PROVE  Cardinality(FirstOf(S, order, n)) = n
<1> DEFINE F == FirstOf(S, order, n)
           T == 0 .. n - 1
           f == [m \in F |-> Rank(m, S, order)]
<1>1. \A m : m \in F <=> m \in S /\ Rank(m, S, order) < n
  BY DEF FirstOf
<1>2. /\ Rank(k, S, order) \in Nat /\ n <= Rank(k, S, order)
      /\ Rank(k, S, order) < Cardinality(S) /\ Cardinality(S) \in Nat
  BY <1>1, RanksFollow
<1>3. f \in Injection(F, T)
  <2>1. f \in [F -> T]
    BY <1>1, RanksFollow
  <2> QED
    BY <1>1, <2>1, RanksFill DEF Injection, IsInjective
<1>4. IsFiniteSet(T) /\ Cardinality(T) = n
  BY FS_Interval
<1>5. ASSUME NEW r \in T PROVE \E m \in F : f[m] = r
  <2>1. r + 1 \in 1 .. Cardinality(S)
    BY <1>2
  <2>2. Ranked(r + 1, S, order) \in S /\ Rank(Ranked(r + 1, S, order), S, order) = r
    BY <2>1, RanksFill
  <2>3. Ranked(r + 1, S, order) \in F
    BY <1>1, <2>2
  <2> QED
    BY <2>2, <2>3
<1>6. f \in Surjection(F, T)
  BY <1>3, <1>5 DEF Surjection, Injection
<1> HIDE DEF F, T, f
<1>7. Cardinality(F) = Cardinality(T)
  BY <1>3, <1>4, <1>6, FS_Injection
<1> QED
  BY <1>4, <1>7 DEF F

\* a holds the elements of list at the positions S, in order; at says where
\* each stands in list.
Holds(a, list, S, order, at) ==
    /\ at \in [DOMAIN a -> S]
    /\ \A r \in DOMAIN a : a[r] = list[at[r]]
    /\ \A k \in S : \E r \in DOMAIN a : at[r] = k
    /\ \A r, q \in DOMAIN a : r < q => <<at[r], at[q]>> \in order

\* What arranging a list makes of it.
LEMMA ArrangedInOrder ==
    ASSUME NEW S, NEW order, IsFiniteSet(S), Orders(order, S), NEW list
    PROVE  /\ Arranged(list, S, order) \in Seq({list[k] : k \in S})
           /\ Len(Arranged(list, S, order)) = Cardinality(S)
           /\ \E at : Holds(Arranged(list, S, order), list, S, order, at)
<1> DEFINE a == Arranged(list, S, order)
           N == Cardinality(S)
<1>1. N \in Nat
  BY RanksFollow
<1>2. a = [r \in 1 .. N |-> list[Ranked(r, S, order)]]
  BY DEF Arranged
<1>3. \A r \in 1 .. N : Ranked(r, S, order) \in S /\ Rank(Ranked(r, S, order), S, order) = r - 1
  BY RanksFill
<1> HIDE DEF a, N
<1>4. a \in [1 .. N -> {list[k] : k \in S}]
  BY <1>2, <1>3
<1>5. a \in Seq({list[k] : k \in S}) /\ Len(a) = N /\ DOMAIN a = 1 .. N
  BY <1>1, <1>4
<1>6. ASSUME NEW k \in S PROVE \E r \in 1 .. N : k = Ranked(r, S, order)
  <2>1. Rank(k, S, order) \in Nat /\ Rank(k, S, order) < N
    BY RanksFollow DEF N
  <2> DEFINE r == Rank(k, S, order) + 1
  <2>2. r \in 1 .. N
    BY <1>1, <2>1
  <2>3. Rank(Ranked(r, S, order), S, order) = Rank(k, S, order) /\ Ranked(r, S, order) \in S
    BY <1>3, <2>1, <2>2
  <2>4. k = Ranked(r, S, order)
    BY <2>3, RanksFill
  <2> QED
    BY <2>2, <2>4
<1>7. \A r, q \in 1 .. N : r < q => <<Ranked(r, S, order), Ranked(q, S, order)>> \in order
  BY <1>1, <1>3, RanksFollow
<1> DEFINE at == [r \in 1 .. N |-> Ranked(r, S, order)]
<1>8. Holds(a, list, S, order, at)
  <2>1. \A r \in 1 .. N : a[r] = list[at[r]] /\ at[r] = Ranked(r, S, order)
    BY <1>2
  <2>2. at \in [1 .. N -> S]
    BY <1>3
  <2> HIDE DEF at
  <2>3. \A k \in S : \E r \in 1 .. N : at[r] = k
    BY <1>6, <2>1
  <2>4. \A r, q \in 1 .. N : r < q => <<at[r], at[q]>> \in order
    BY <1>7, <2>1
  <2>5. DOMAIN a = 1 .. N
    BY <1>5
  <2> QED
    BY <2>1, <2>2, <2>3, <2>4, <2>5 DEF Holds
<1> HIDE DEF at
<1> QED
  BY <1>5, <1>8 DEF a, N

\* Lists as providers keep them: commits and deployments have ids of their own.
Collectable(in) ==
    /\ \E n \in Nat : DOMAIN in.registry = 1 .. n
    /\ \E n \in Nat : DOMAIN in.log = 1 .. n
    /\ \A i \in DOMAIN in.registry :
         in.registry[i].time \in Int /\ in.registry[i].aware \in BOOLEAN
    /\ \A i \in DOMAIN in.log : in.log[i].time \in Int
    /\ \A i, k \in DOMAIN in.log : in.log[i].id = in.log[k].id => i = k
    /\ \A i \in DOMAIN in.log, k \in DOMAIN in.registry : in.log[i].id # in.registry[k].id
    /\ in.limit \in Nat

\* The two orders are orders.
LEMMA ListedOrders ==
    ASSUME NEW list, NEW n \in Nat, DOMAIN list = 1 .. n, NEW S \in SUBSET DOMAIN list
    PROVE  /\ IsFiniteSet(S) /\ Orders(Listed(list), S)
           /\ \A i, k \in S : <<i, k>> \in Listed(list) <=> i < k
           /\ \A i \in S : Rank(i, S, Listed(list)) = Cardinality(Before(S, i))
<1>1. IsFiniteSet(S)
  BY FS_Interval, FS_Subset
<1>2. \A i, k \in S : <<i, k>> \in Listed(list) <=> i < k
  BY DEF Listed
<1>3. \A i \in S : i \in Nat
  OBVIOUS
<1>4. Orders(Listed(list), S)
  BY <1>2, <1>3 DEF Orders
<1>5. ASSUME NEW i \in S PROVE Rank(i, S, Listed(list)) = Cardinality(Before(S, i))
  <2>1. {m \in S : <<m, i>> \in Listed(list)} = Before(S, i)
    BY <1>2 DEF Before
  <2> QED
    BY <2>1 DEF Rank
<1> QED
  BY <1>1, <1>2, <1>4, <1>5

LEMMA NewestOrders ==
    ASSUME NEW list, NEW n \in Nat, DOMAIN list = 1 .. n,
           \A i \in DOMAIN list : list[i].time \in Int,
           NEW S \in SUBSET DOMAIN list
    PROVE  /\ IsFiniteSet(S) /\ Orders(NewestFirst(list), S)
           /\ \A i, k \in S : <<i, k>> \in NewestFirst(list) => list[i].time <= list[k].time
<1>1. IsFiniteSet(S)
  BY FS_Interval, FS_Subset
<1>2. \A i, k \in S : <<i, k>> \in NewestFirst(list) <=>
        \/ list[i].time < list[k].time
        \/ list[i].time = list[k].time /\ i < k
  BY DEF NewestFirst
<1>3. \A i \in S : i \in Nat /\ list[i].time \in Int
  OBVIOUS
<1>4. Orders(NewestFirst(list), S)
  BY <1>2, <1>3 DEF Orders
<1> QED
  BY <1>1, <1>2, <1>3, <1>4

\* Positions taken in the order of the list.
LEMMA HeldAsListed ==
    ASSUME NEW list, NEW n \in Nat, DOMAIN list = 1 .. n, NEW S \in SUBSET DOMAIN list,
           NEW source, NEW a, NEW at, Holds(a, source, S, Listed(list), at)
    PROVE  \A r, q \in DOMAIN a : r < q => at[r] \in S /\ at[q] \in S /\ at[r] < at[q]
<1>1. \A r, q \in DOMAIN a :
         r < q => at[r] \in S /\ at[q] \in S /\ <<at[r], at[q]>> \in Listed(list)
  BY DEF Holds
<1> QED
  BY <1>1, ListedOrders

\* An answer holds the changes of the records at the positions S, as they stand.
Answers(a, records, S, at) ==
    /\ at \in [DOMAIN a -> S]
    /\ \A r \in DOMAIN a : a[r].id = records[at[r]].id /\ a[r].time = records[at[r]].time
    /\ \A k \in S : \E r \in DOMAIN a : at[r] = k
    /\ \A r, q \in DOMAIN a : r < q => at[r] < at[q]

\* What the registry's answer becomes: the deployments of the window in it, or
\* nothing when one record of it does not validate.
LEMMA DeploymentsAnswered ==
    ASSUME NEW in, Collectable(in)
    PROVE  LET deployments == DeploymentChanges(in.registry, "svc", in.limit)
               A == {k \in AskedDeployments(in) : Answered(in, k)}
           IN  /\ \E T : deployments \in Seq(T)
               /\ \/ /\ deployments = <<>>
                     /\ \E k \in DOMAIN in.registry : Answered(in, k) /\ ~in.registry[k].valid
                  \/ \E at : /\ Answers(deployments, in.registry, A, at)
                             /\ \A r \in DOMAIN deployments :
                                  deployments[r].aware = in.registry[at[r]].aware
<1> DEFINE R == in.registry
           S == Offered(in)
           A == {k \in AskedDeployments(in) : Answered(in, k)}
           D == ListDeployments(R, "svc", in.limit)
           W == {k \in D : InWindow(R[k].time)}
           order == Listed(R)
           list == [i \in DOMAIN R |->
                     [id |-> R[i].id, service |-> R[i].service, time |-> R[i].time,
                      aware |-> R[i].aware, clusters |-> R[i].clusters]]
           deployments == DeploymentChanges(R, "svc", in.limit)
<1>1. PICK n \in Nat : DOMAIN R = 1 .. n
  BY DEF Collectable
<1>2. S \in SUBSET DOMAIN R
  BY DEF Offered, AskedDeployments
<1>3. D = FirstOf(S, order, in.limit)
  <2> DEFINE made == {i \in DOMAIN R : R[i].service = "svc"}
             filtered == \A i \in made : R[i].aware
  <2>1. D = FirstOf({i \in made : filtered => InWindow(R[i].time)}, order, in.limit)
    BY DEF ListDeployments
  <2>2. S = {i \in made : filtered => InWindow(R[i].time)}
    <3>1. CASE filtered
      <4>1. S = AskedDeployments(in)
        BY <3>1 DEF Offered
      <4>2. AskedDeployments(in) = {i \in made : InWindow(R[i].time)}
        BY DEF AskedDeployments
      <4> HIDE DEF made, filtered, S
      <4> QED
        BY <3>1, <4>1, <4>2
    <3>2. CASE ~filtered
      <4>1. S = made
        BY <3>2 DEF Offered
      <4> HIDE DEF made, filtered, S
      <4> QED
        BY <3>2, <4>1
    <3> QED
      BY <3>1, <3>2
  <2> HIDE DEF S, D, made, filtered
  <2> QED
    BY <2>1, <2>2
<1>4. \A k \in S : Rank(k, S, order) = Cardinality(Before(S, k))
  <2> HIDE DEF S
  <2> QED
    BY <1>1, <1>2, ListedOrders
<1>5. \A k : k \in D <=> Answered(in, k)
  <2>1. \A k : Answered(in, k) <=> k \in S /\ Cardinality(Before(S, k)) < in.limit
    BY DEF Answered
  <2>2. \A k : k \in D <=> k \in S /\ Rank(k, S, order) < in.limit
    BY <1>3 DEF FirstOf
  <2> HIDE DEF S, D, order
  <2> QED
    BY <1>4, <2>1, <2>2
<1>6. deployments = IF \E i \in D : ~R[i].valid THEN <<>> ELSE Arranged(list, W, order)
  BY DEF DeploymentChanges
<1>7. D \in SUBSET DOMAIN R /\ W \in SUBSET DOMAIN R
  BY <1>2, <1>3 DEF FirstOf
<1>8. W = A
  <2>1. \A k \in D : R[k].service = "svc"
    BY <1>3 DEF FirstOf, Offered, AskedDeployments
  <2> HIDE DEF D
  <2> QED
    BY <1>5, <1>7, <2>1 DEF AskedDeployments
<1>9. IsFiniteSet(W) /\ Orders(order, W)
  <2> HIDE DEF W, R
  <2> QED
    BY <1>1, <1>7, ListedOrders
<1>10. CASE \E i \in D : ~R[i].valid
  <2>1. deployments = <<>>
    BY <1>6, <1>10
  <2> HIDE DEF D
  <2>2. \E k \in DOMAIN in.registry : Answered(in, k) /\ ~in.registry[k].valid
    BY <1>5, <1>7, <1>10
  <2>3. <<>> \in Seq({})
    OBVIOUS
  <2> HIDE DEF deployments
  <2> QED
    BY <2>1, <2>2, <2>3 DEF deployments
<1>11. CASE ~ \E i \in D : ~R[i].valid
  <2>1. deployments = Arranged(list, W, order)
    BY <1>6, <1>11
  <2>2. \A k \in W : list[k].id = R[k].id /\ list[k].time = R[k].time /\ list[k].aware = R[k].aware
    BY <1>7
  <2> HIDE DEF D, W, order, list, deployments, A
  <2>3. /\ deployments \in Seq({list[k] : k \in W})
        /\ \E at : Holds(deployments, list, W, order, at)
    BY <1>9, <2>1, ArrangedInOrder
  <2>4. PICK at : Holds(deployments, list, W, order, at)
    BY <2>3
  <2>5. \A r, q \in DOMAIN deployments : r < q => at[r] < at[q]
    <3> HIDE DEF R
    <3> QED
      BY <1>1, <1>7, <2>4, HeldAsListed DEF order
  <2>6. /\ at \in [DOMAIN deployments -> W]
        /\ \A r \in DOMAIN deployments : deployments[r] = list[at[r]]
        /\ \A k \in W : \E r \in DOMAIN deployments : at[r] = k
    BY <2>4 DEF Holds
  <2>7. Answers(deployments, R, A, at)
    <3> HIDE DEF R
    <3> QED
      BY <1>8, <2>2, <2>5, <2>6 DEF Answers
  <2>8. \A r \in DOMAIN deployments : deployments[r].aware = R[at[r]].aware
    BY <2>2, <2>6
  <2>9. \E T : deployments \in Seq(T)
    BY <2>3
  <2> QED
    BY <2>7, <2>8, <2>9 DEF deployments, A
<1> QED
  BY <1>10, <1>11

\* What git answers.
LEMMA CommitsAnswered ==
    ASSUME NEW in, Collectable(in)
    PROVE  LET commits == GitChanges(in.log, "svc", in.limit)
               B == {k \in AskedCommits(in) : ~CommitLost(in, k)}
           IN  /\ \E T : commits \in Seq(T)
               /\ \E at : Answers(commits, in.log, B, at)
               /\ \A r \in DOMAIN commits : commits[r].aware = TRUE
<1> DEFINE R == in.log
           S == AskedCommits(in)
           B == {k \in AskedCommits(in) : ~CommitLost(in, k)}
           D == FirstOf(S, Listed(R), CommitLimit(in.limit))
           order == Listed(R)
           list == [i \in DOMAIN R |->
                     [id |-> R[i].id, service |-> "svc", time |-> R[i].time,
                      aware |-> TRUE, clusters |-> R[i].clusters]]
           commits == GitChanges(R, "svc", in.limit)
<1>1. PICK n \in Nat : DOMAIN R = 1 .. n
  BY DEF Collectable
<1>2. S \in SUBSET DOMAIN R
  BY DEF AskedCommits
<1>3. CommitLimit(in.limit) \in Nat
  BY DEF CommitLimit, MaxCommits, Collectable
<1>4. \A k \in S : Rank(k, S, order) = Cardinality(Before(S, k)) /\ Rank(k, S, order) \in Nat
  <2> HIDE DEF S
  <2> QED
    BY <1>1, <1>2, ListedOrders, RanksFollow
<1>5. D = B
  <2>1. \A k \in S : CommitLost(in, k) <=> Rank(k, S, order) >= CommitLimit(in.limit)
    BY <1>4 DEF CommitLost
  <2> HIDE DEF S
  <2>2. \A k : k \in D <=> k \in S /\ Rank(k, S, order) < CommitLimit(in.limit)
    BY DEF FirstOf
  <2> HIDE DEF order, D
  <2>3. \A k : k \in D <=> k \in S /\ ~CommitLost(in, k)
    BY <1>3, <1>4, <2>1, <2>2
  <2> QED
    BY <2>3 DEF S
<1>6. commits = Arranged(list, D, order)
  BY DEF GitChanges, AskedCommits
<1>7. D \in SUBSET DOMAIN R
  BY <1>2, <1>5
<1>8. IsFiniteSet(D) /\ Orders(order, D)
  <2> HIDE DEF D, R
  <2> QED
    BY <1>1, <1>7, ListedOrders
<1>9. \A k \in D : list[k].id = R[k].id /\ list[k].time = R[k].time /\ list[k].aware = TRUE
  BY <1>7
<1> HIDE DEF D, order, list, commits, B
<1>10. /\ commits \in Seq({list[k] : k \in D})
       /\ \E at : Holds(commits, list, D, order, at)
  BY <1>6, <1>8, ArrangedInOrder
<1>11. PICK at : Holds(commits, list, D, order, at)
  BY <1>10
<1>12. \A r, q \in DOMAIN commits : r < q => at[r] < at[q]
  <2> HIDE DEF R
  <2> QED
    BY <1>1, <1>7, <1>11, HeldAsListed DEF order
<1>13. /\ at \in [DOMAIN commits -> D]
       /\ \A r \in DOMAIN commits : commits[r] = list[at[r]]
       /\ \A k \in D : \E r \in DOMAIN commits : at[r] = k
  BY <1>11 DEF Holds
<1>14. Answers(commits, R, B, at)
  <2> HIDE DEF R
  <2> QED
    BY <1>5, <1>9, <1>12, <1>13 DEF Answers
<1>15. \A r \in DOMAIN commits : commits[r].aware = TRUE
  BY <1>9, <1>13
<1>16. \E T : commits \in Seq(T)
  BY <1>10
<1> QED
  BY <1>14, <1>15, <1>16 DEF commits, B

\* What sorting and cutting off does to the first change of an id.
LEMMA KeptOrOlder ==
    ASSUME NEW in, in.limit \in Nat, NEW all, NEW n \in Nat, DOMAIN all = 1 .. n,
           \A p \in DOMAIN all : all[p].time \in Int,
           NEW p \in DistinctIds(all),
           NEW change, change.id = all[p].id, change.time = all[p].time
    PROVE  Collected(in,
               Arranged(all, FirstOf(DistinctIds(all), NewestFirst(all), in.limit),
                        NewestFirst(all)),
               change)
<1> DEFINE F == DistinctIds(all)
           newest == NewestFirst(all)
           First == FirstOf(F, newest, in.limit)
           kept == Arranged(all, First, newest)
<1>1. F \in SUBSET DOMAIN all /\ First \in SUBSET F /\ First \in SUBSET DOMAIN all
  BY DEF DistinctIds, FirstOf
<1>2. /\ IsFiniteSet(F) /\ Orders(newest, F)
      /\ IsFiniteSet(First) /\ Orders(newest, First)
      /\ \A i, k \in F : <<i, k>> \in newest => all[i].time <= all[k].time
  <2> HIDE DEF F, First
  <2> QED
    BY <1>1, NewestOrders
<1> HIDE DEF F, newest, kept
<1>3. /\ Len(kept) = Cardinality(First)
      /\ \E T : kept \in Seq(T)
      /\ \E at : Holds(kept, all, First, newest, at)
  <2> HIDE DEF First
  <2> QED
    BY <1>2, ArrangedInOrder DEF kept
<1>4. PICK at : Holds(kept, all, First, newest, at)
  BY <1>3
<1>5. /\ at \in [DOMAIN kept -> First]
      /\ \A r \in DOMAIN kept : kept[r] = all[at[r]]
      /\ \A k \in First : \E r \in DOMAIN kept : at[r] = k
  BY <1>4 DEF Holds
<1>6. p \in F
  BY DEF F
<1>7. CASE p \in First
  <2> HIDE DEF First
  <2>1. \E r \in DOMAIN kept : kept[r].id = change.id
    BY <1>5, <1>7
  <2> QED
    BY <2>1 DEF Collected, kept, F, newest, First
<1>8. CASE p \notin First
  <2>1. Cardinality(First) = in.limit
    BY <1>2, <1>6, <1>8, FirstAreAsMany
  <2>2. ASSUME NEW k \in First PROVE all[k].time <= change.time
    <3>1. k \in F /\ Rank(k, F, newest) < in.limit /\ ~(Rank(p, F, newest) < in.limit)
      BY <1>6, <1>8, <2>2 DEF FirstOf
    <3>2. Rank(k, F, newest) \in Nat /\ Rank(p, F, newest) \in Nat
      BY <1>2, <1>6, <3>1, RanksFollow
    <3>3. Rank(k, F, newest) < Rank(p, F, newest)
      BY <3>1, <3>2
    <3>4. <<k, p>> \in newest
      BY <1>2, <1>6, <3>1, <3>3, RanksFollow
    <3> QED
      BY <1>2, <1>6, <3>1, <3>4
  <2> HIDE DEF First
  <2>3. \A r \in DOMAIN kept : kept[r].time <= change.time
    BY <1>5, <2>2
  <2>4. Len(kept) = in.limit
    BY <1>3, <2>1
  <2> QED
    BY <2>3, <2>4 DEF Collected, kept, F, newest, First
<1> QED
  BY <1>7, <1>8

\* A change of the window reaches the investigation unless as many no older ones
\* do as the limit allows, for any registry, any log and any limit
\* (CompositeChangeProvider.list_changes and the two providers behind it).
THEOREM CollectionIsComplete ==
    ASSUME NEW in, Collectable(in)
    PROVE  Complete(in, CollectOn(in).changes)
<1> DEFINE R == in.registry
           L == in.log
           A == {k \in AskedDeployments(in) : Answered(in, k)}
           B == {k \in AskedCommits(in) : ~CommitLost(in, k)}
           commits == GitChanges(in.log, "svc", in.limit)
           deployments == DeploymentChanges(in.registry, "svc", in.limit)
           all == commits \o deployments
           F == DistinctIds(all)
           kept == CollectOn(in).changes
           C == Len(commits)
           Invalid == \E k \in DOMAIN in.registry : Answered(in, k) /\ ~in.registry[k].valid
<1>1. /\ \A k \in A : /\ k \in AskedDeployments(in) /\ k \in DOMAIN R /\ Answered(in, k)
                      /\ R[k].time \in Int /\ R[k].aware \in BOOLEAN
      /\ \A k \in B : k \in DOMAIN L /\ L[k].time \in Int
      /\ \A k \in DOMAIN R : k \in Nat
      /\ \A k \in DOMAIN L : k \in Nat
  BY DEF Collectable, AskedCommits, AskedDeployments
<1>2. /\ \A i \in DOMAIN L, k \in DOMAIN R : L[i].id # R[k].id
      /\ \A i, k \in DOMAIN L : L[i].id = L[k].id => i = k
      /\ in.limit \in Nat
  BY DEF Collectable
<1>3. /\ \E T : commits \in Seq(T)
      /\ \E at : Answers(commits, L, B, at)
      /\ \A r \in DOMAIN commits : commits[r].aware = TRUE
  BY CommitsAnswered
<1>4. /\ \E T : deployments \in Seq(T)
      /\ \/ deployments = <<>> /\ Invalid
         \/ \E at : /\ Answers(deployments, R, A, at)
                    /\ \A r \in DOMAIN deployments : deployments[r].aware = R[at[r]].aware
  BY DeploymentsAnswered
<1>5. kept = IF ~Comparable(all, F) THEN <<>>
             ELSE Arranged(all, FirstOf(F, NewestFirst(all), in.limit), NewestFirst(all))
  BY DEF CollectOn, RecentChanges
<1> HIDE DEF commits, deployments, A, B, R, L, kept, Invalid
<1>6. /\ C \in Nat /\ DOMAIN commits = 1 .. C
      /\ Len(deployments) \in Nat /\ DOMAIN deployments = 1 .. Len(deployments)
      /\ DOMAIN all = 1 .. (C + Len(deployments))
      /\ \A r \in DOMAIN commits : r \in DOMAIN all /\ all[r] = commits[r]
      /\ \A r \in DOMAIN deployments : C + r \in DOMAIN all /\ all[C + r] = deployments[r]
      /\ \A p \in DOMAIN all : p \in DOMAIN commits \/ \E r \in DOMAIN deployments : p = C + r
  <2>1. PICK T : commits \in Seq(T)
    BY <1>3
  <2>2. PICK U : deployments \in Seq(U)
    BY <1>4
  <2>3. C \in Nat /\ DOMAIN commits = 1 .. C
    BY <2>1
  <2>4. Len(deployments) \in Nat /\ DOMAIN deployments = 1 .. Len(deployments)
    BY <2>2
  <2>5. commits \in Seq(T \union U) /\ deployments \in Seq(T \union U)
    <3>1. commits \in [1 .. C -> T \union U]
      BY <2>1
    <3>2. deployments \in [1 .. Len(deployments) -> T \union U]
      BY <2>2
    <3> QED
      BY <2>3, <2>4, <3>1, <3>2
  <2>6. Len(all) = C + Len(deployments) /\ DOMAIN all = 1 .. (C + Len(deployments))
    BY <2>5
  <2>7. \A p \in 1 .. (C + Len(deployments)) :
           all[p] = IF p <= C THEN commits[p] ELSE deployments[p - C]
    BY <2>3, <2>4, <2>5
  <2> HIDE DEF C, all
  <2>8. \A r \in DOMAIN commits : r \in DOMAIN all /\ all[r] = commits[r]
    BY <2>3, <2>4, <2>6, <2>7
  <2>9. ASSUME NEW r \in DOMAIN deployments
        PROVE  C + r \in DOMAIN all /\ all[C + r] = deployments[r]
    <3>1. r \in Nat /\ C + r \in 1 .. (C + Len(deployments)) /\ ~(C + r <= C) /\ (C + r) - C = r
      BY <2>3, <2>4
    <3> QED
      BY <2>6, <2>7, <3>1
  <2>10. ASSUME NEW p \in DOMAIN all
         PROVE  p \in DOMAIN commits \/ \E r \in DOMAIN deployments : p = C + r
    <3>1. CASE p <= C
      BY <2>3, <2>4, <2>6, <3>1
    <3>2. CASE ~(p <= C)
      <4>1. p - C \in DOMAIN deployments /\ p = C + (p - C)
        BY <2>3, <2>4, <2>6, <3>2
      <4> QED
        BY <4>1
    <3> QED
      BY <3>1, <3>2
  <2> QED
    BY <2>3, <2>4, <2>6, <2>8, <2>9, <2>10 DEF C
<1> HIDE DEF C, all
<1>7. PICK ct : Answers(commits, L, B, ct)
  BY <1>3
<1>8. ASSUME NEW r \in DOMAIN commits
      PROVE  /\ ct[r] \in B /\ all[r].id = L[ct[r]].id /\ all[r].time = L[ct[r]].time
             /\ all[r].aware = TRUE /\ all[r].time \in Int
  <2>1. /\ ct[r] \in B /\ commits[r].id = L[ct[r]].id /\ commits[r].time = L[ct[r]].time
    BY <1>7 DEF Answers
  <2>2. all[r] = commits[r] /\ commits[r].aware = TRUE
    BY <1>3, <1>6
  <2>3. L[ct[r]].time \in Int
    BY <1>1, <2>1
  <2> QED
    BY <2>1, <2>2, <2>3
<1>9. ASSUME NEW p \in DOMAIN all
      PROVE  \/ /\ all[p].aware = TRUE /\ all[p].time \in Int
             \/ \E k \in A : all[p].aware = R[k].aware /\ all[p].time = R[k].time
  <2>1. CASE p \in DOMAIN commits
    BY <1>8, <2>1
  <2>2. CASE p \notin DOMAIN commits
    <3>1. PICK r \in DOMAIN deployments : p = C + r
      BY <1>6, <2>2
    <3>2. PICK dt : /\ Answers(deployments, R, A, dt)
                    /\ \A q \in DOMAIN deployments : deployments[q].aware = R[dt[q]].aware
      BY <1>4, <3>1
    <3>3. dt[r] \in A /\ all[p].aware = R[dt[r]].aware /\ all[p].time = R[dt[r]].time
      BY <1>6, <3>1, <3>2 DEF Answers
    <3> QED
      BY <3>3
  <2> QED
    BY <2>1, <2>2
<1>10. \A p \in DOMAIN all : all[p].time \in Int
  BY <1>1, <1>9
<1>11. CASE ~Comparable(all, F)
  <2>1. PICK i \in F, k \in F : all[i].aware # all[k].aware
    BY <1>11 DEF Comparable
  <2>2. i \in DOMAIN all /\ k \in DOMAIN all
    BY DEF DistinctIds
  <2>3. \E m \in A : R[m].aware = FALSE
    BY <1>1, <1>9, <2>1, <2>2
  <2>4. AllLost(in, kept)
    BY <1>1, <1>5, <1>11, <2>3 DEF AllLost, R
  <2> QED
    BY <2>4 DEF Complete, kept
<1>12. CASE Comparable(all, F)
  <2>1. ASSUME NEW p \in F, NEW change, change.id = all[p].id, change.time = all[p].time
        PROVE  Collected(in, kept, change)
    <3>1. PICK n \in Nat : DOMAIN all = 1 .. n
      BY <1>6
    <3> DEFINE sorted == Arranged(all, FirstOf(DistinctIds(all), NewestFirst(all), in.limit),
                                  NewestFirst(all))
    <3>2. kept = sorted
      BY <1>5, <1>12
    <3>3. in.limit \in Nat /\ p \in DistinctIds(all)
      BY <1>2
    <3> HIDE DEF F
    <3>4. Collected(in, sorted, change)
      BY <1>10, <2>1, <3>1, <3>3, KeptOrOlder
    <3> QED
      BY <3>2, <3>4
  <2>2. ASSUME NEW i \in AskedCommits(in), ~CommitLost(in, i)
        PROVE  Collected(in, kept, L[i])
    <3>1. i \in B
      BY <2>2 DEF B
    <3>2. PICK r \in DOMAIN commits : ct[r] = i
      BY <1>7, <3>1 DEF Answers
    <3>3. r \in DOMAIN all /\ r \in 1 .. C
      BY <1>6
    <3>4. ASSUME NEW q \in DOMAIN all, q < r, all[q].id = all[r].id PROVE FALSE
      <4>1. q \in DOMAIN commits
        BY <1>6, <3>3, <3>4
      <4>2. ct[q] < ct[r]
        BY <1>7, <3>4, <4>1 DEF Answers
      <4>3. L[ct[q]].id = L[ct[r]].id /\ ct[q] \in DOMAIN L /\ ct[r] \in DOMAIN L
        BY <1>1, <1>8, <3>4, <4>1
      <4> QED
        BY <1>1, <1>2, <4>2, <4>3
    <3>5. r \in F
      BY <3>3, <3>4 DEF DistinctIds
    <3> QED
      BY <1>8, <2>1, <3>2, <3>5
  <2>3. ASSUME NEW i \in AskedDeployments(in), ~DeploymentLost(in, i)
        PROVE  Collected(in, kept, R[i])
    <3>1. Answered(in, i) /\ ~Invalid /\ i \in A
      BY <2>3 DEF DeploymentLost, Invalid, A
    <3>2. PICK dt : Answers(deployments, R, A, dt)
      BY <1>4, <3>1
    <3>3. PICK r \in DOMAIN deployments : dt[r] = i
      BY <3>1, <3>2 DEF Answers
    <3> DEFINE p == C + r
    <3>4. /\ p \in DOMAIN all /\ all[p] = deployments[r]
          /\ all[p].id = R[i].id /\ all[p].time = R[i].time
      BY <1>6, <3>2, <3>3 DEF Answers
    <3>5. ASSUME NEW q \in DOMAIN all, q < p, all[q].id = all[p].id PROVE FALSE
      <4>1. CASE q \in DOMAIN commits
        <5>1. L[ct[q]].id = R[i].id /\ ct[q] \in DOMAIN L /\ i \in DOMAIN R
          BY <1>1, <1>8, <3>1, <3>4, <3>5, <4>1
        <5> QED
          BY <1>2, <5>1
      <4>2. CASE q \notin DOMAIN commits
        <5>1. PICK s \in DOMAIN deployments : q = C + s
          BY <1>6, <4>2
        <5>2. s < r
          BY <1>6, <3>5, <5>1
        <5>3. dt[s] \in A /\ dt[s] < i /\ R[dt[s]].id = R[i].id
          BY <1>6, <3>2, <3>3, <3>4, <3>5, <5>1, <5>2 DEF Answers
        <5>4. dt[s] \in Before(AskedDeployments(in), i)
          BY <1>1, <5>3 DEF Before
        <5> QED
          BY <2>3, <5>3, <5>4 DEF DeploymentLost, R
      <4> QED
        BY <4>1, <4>2
    <3>6. p \in F
      BY <3>4, <3>5 DEF DistinctIds
    <3> QED
      BY <2>1, <3>4, <3>6
  <2> QED
    BY <2>2, <2>3 DEF Complete, kept, R, L
<1> QED
  BY <1>11, <1>12

(***************************************************************************)
(* The promotion                                                           *)
(***************************************************************************)
\* What a relevance score says of the time alone, when symptoms match.
LEMMA RelevanceOfTime ==
    ASSUME NEW time \in Int, NEW links, links # {}
    PROVE  /\ Relevance(time, links) \in Int
           /\ 0 <= time /\ time < 5850 => Relevance(time, links) > 75
           /\ 0 <= time => (Relevance(time, links) >= 90 <=> time <= 1300)
           /\ TemporallyClose(time) <=> 0 <= time /\ time < 5850
           /\ TemporallyClose(time) => Hundredths(TemporalScore(time)) >= 30
<1> DEFINE T == TemporalScore(time)
<1>1. CASE time < 0
  <2>1. T \in {0, 27000}
    BY <1>1 DEF TemporalScore
  <2> QED
    BY <1>1, <2>1 DEF Relevance, TemporallyClose, Hundredths, One, MinTemporal
<1>2. CASE 0 <= time /\ time <= 300
  <2>1. T = 135000 - 45 * time
    BY <1>2 DEF TemporalScore, One
  <2> QED
    BY <1>2, <2>1 DEF Relevance, TemporallyClose, Hundredths, One, MinTemporal
<1>3. CASE 300 < time /\ time <= 1800
  <2>1. T = 121500 - 27 * (time - 300)
    BY <1>3 DEF TemporalScore
  <2> QED
    BY <1>3, <2>1 DEF Relevance, TemporallyClose, Hundredths, One, MinTemporal
<1>4. CASE 1800 < time /\ time <= 7200
  <2>1. T = 81000 - 10 * (time - 1800)
    BY <1>4 DEF TemporalScore
  <2> QED
    BY <1>4, <2>1 DEF Relevance, TemporallyClose, Hundredths, One, MinTemporal
<1>5. CASE time > 7200
  <2>1. T = 13500
    BY <1>5 DEF TemporalScore
  <2> QED
    BY <1>5, <2>1 DEF Relevance, TemporallyClose, Hundredths, One, MinTemporal
<1> QED
  BY <1>1, <1>2, <1>3, <1>4, <1>5

\* A change that the hypothesis names, of its service and the incident's, before
\* the onset by less than 5850 seconds, with a symptom in common with the
\* evidence; the threshold decides something only above 75 hundredths.
IsCause(change, service, hypothesis, evidence, threshold) ==
    /\ change.id \in ToSet(hypothesis.related)
    /\ change.service = service /\ change.service = hypothesis.component
    /\ 0 <= change.time /\ change.time < 5850
    /\ \E e \in evidence : e.clusters \intersect change.clusters # {}
    /\ threshold > 75 =>
          Relevance(change.time, EvidenceLinks(change, evidence)) >= threshold

\* Which changes are promoted, for any time, any evidence, whatever evidence has
\* come since the correlation, and any threshold (correlate_change_with_incident,
\* verify_causal_change_association).
THEOREM PromotedIffCausal ==
    ASSUME NEW change, change.time \in Int, NEW service, NEW hypothesis,
           NEW evidence, NEW current, \A e \in evidence : e.id \in current,
           NEW threshold \in Int
    PROVE  VerifyAssociation(hypothesis, change,
               Correlate(change, service, evidence, threshold), current, threshold)
           <=> IsCause(change, service, hypothesis, evidence, threshold)
<1> DEFINE links == EvidenceLinks(change, evidence)
           c == Correlate(change, service, evidence, threshold)
           relevance == IF change.service = service THEN Relevance(change.time, links) ELSE 0
<1>1. /\ c.change_id = change.id
      /\ c.component_match <=> change.service = service
      /\ c.evidence_links = links
      /\ c.relevance_score = relevance
      /\ c.temporal_score = Hundredths(TemporalScore(change.time))
      /\ c.is_causal_candidate <=>
           Candidate(change.service = service, links, relevance, change.time, threshold)
  BY DEF Correlate
<1>2. /\ links # {} <=> \E e \in evidence : e.clusters \intersect change.clusters # {}
      /\ links \subseteq current
  BY DEF EvidenceLinks
<1> HIDE DEF c, links
<1>3. links \intersect current # {} <=> links # {}
  BY <1>2
<1>4. CASE links = {} \/ change.service # service
  BY <1>1, <1>2, <1>3, <1>4 DEF VerifyAssociation, IsCause, c
<1>5. CASE links # {} /\ change.service = service
  <2>1. /\ relevance = Relevance(change.time, links) /\ relevance \in Int
        /\ 0 <= change.time /\ change.time < 5850 => relevance > 75
        /\ TemporallyClose(change.time) <=> 0 <= change.time /\ change.time < 5850
        /\ TemporallyClose(change.time) => c.temporal_score >= 30
    BY <1>1, <1>5, RelevanceOfTime
  <2> HIDE DEF relevance
  <2>2. 0 <= change.time /\ change.time < 5850 =>
          (relevance >= threshold <=> (threshold > 75 => relevance >= threshold))
    BY <2>1
  <2>3. c.is_causal_candidate <=> relevance >= threshold /\ TemporallyClose(change.time)
    BY <1>1, <1>5 DEF Candidate
  <2>4. VerifyAssociation(hypothesis, change, c, current, threshold)
          <=> /\ relevance >= threshold /\ TemporallyClose(change.time)
              /\ change.service = hypothesis.component
              /\ change.id \in ToSet(hypothesis.related)
    BY <1>1, <1>3, <1>5, <2>1, <2>3 DEF VerifyAssociation
  <2> QED
    BY <1>2, <1>5, <2>1, <2>2, <2>4 DEF IsCause, c, links
<1> QED
  BY <1>4, <1>5

(***************************************************************************)
(* The specification                                                       *)
(***************************************************************************)
\* A decision is what the nodes make of their input.
Follows ==
    /\ kind = "policy" => input \in PolicyInputs /\ output \in {Undecided, DecideOn(input)}
    /\ kind = "collect" => input \in CollectInputs /\ output \in {Undecided, CollectOn(input)}
    /\ kind = "judge" => input \in JudgeInputs /\ output \in {Undecided, JudgeOn(input)}

LEMMA DecisionsFollow == Spec => []Follows
<1>1. Init => Follows
  BY DEF Init, Follows
<1>2. Follows /\ [Next]_vars => Follows'
  BY DEF Follows, Next, PolicyNode, CollectNode, JudgeNodes, vars
<1> QED
  BY <1>1, <1>2, PTL DEF Spec

LEMMA PolicyInputsTyped ==
    ASSUME NEW in \in PolicyInputs
    PROVE  /\ in.proposals \in Seq(Proposals) /\ DistinctlyNamed(in.proposals)
           /\ in.settings \in SettingsSpace /\ SettingsSpace \subseteq Settings
           /\ in.prior \in Priors /\ Priors \subseteq Histories
<1>1. in.proposals \in ProposalLists /\ in.settings \in SettingsSpace /\ in.prior \in Priors
  BY DEF PolicyInputs
<1>2. SettingsSpace \subseteq Settings /\ Priors \subseteq Histories
  BY BoundsAssumption DEF SettingsSpace, Settings, Priors, Histories
<1>3. PICK n \in 0 .. MaxProposals :
         /\ in.proposals \in [1 .. n -> UNION {Proposal(i) : i \in 1 .. n}]
         /\ IsInjective([k \in 1 .. n |-> in.proposals[k].id])
  BY <1>1 DEF ProposalLists
<1>4. UNION {Proposal(i) : i \in 1 .. n} \subseteq Proposals
  BY BoundsAssumption DEF Proposal, Proposals
<1>5. in.proposals \in Seq(Proposals)
  <2>1. n \in Nat /\ in.proposals \in [1 .. n -> Proposals]
    BY <1>3, <1>4, BoundsAssumption
  <2> QED
    BY <2>1
<1>6. DistinctlyNamed(in.proposals)
  BY <1>3 DEF IsInjective, DistinctlyNamed
<1> QED
  BY <1>1, <1>2, <1>5, <1>6

\* The decision is about the best of the acceptable proposals, criterion by
\* criterion as evaluate_and_rank_proposals numbers them.
THEOREM SelectionBest == Spec => []SelectionIsBest
<1>1. ASSUME Follows PROVE SelectionIsBest
  <2> SUFFICES ASSUME Decided("policy"), Acceptable(input) # {}
               PROVE  Best(input) = {Selected(input, output)}
    BY DEF SelectionIsBest
  <2>1. input \in PolicyInputs /\ output = DecideOn(input)
    BY <1>1 DEF Follows, Decided
  <2>2. input.proposals \in Seq(Proposals) /\ DistinctlyNamed(input.proposals)
    BY <2>1, PolicyInputsTyped
  <2> QED
    BY <2>1, <2>2, HeadIsBest
<1> QED
  BY <1>1, DecisionsFollow, PTL

\* More history adds no authority, and a lower automatic level none to execute
\* without asking (_enforce_remediation_limits, evaluate_policy).
THEOREM AuthorityIsMonotone == Spec => []AuthorityMonotone
<1>1. ASSUME Follows PROVE AuthorityMonotone
  <2> SUFFICES ASSUME Decided("policy"), NEW more \in Priors, NEW level \in 0 .. 2,
                      more.attempts >= input.prior.attempts,
                      more.auto_executions >= input.prior.auto_executions,
                      level <= input.settings.auto_execute_max_safety_level
               PROVE  LET less == DecideOn([input EXCEPT
                                      !.prior = more,
                                      !.settings.auto_execute_max_safety_level = level])
                      IN  /\ level = input.settings.auto_execute_max_safety_level
                                => Authority(less) <= Authority(output)
                          /\ Authority(less) = 2 => Authority(output) = 2
    BY DEF AuthorityMonotone
  <2>1. input \in PolicyInputs /\ output = DecideOn(input)
    BY <1>1 DEF Follows, Decided
  <2>2. /\ input.proposals \in Seq(Proposals)
        /\ input.settings \in SettingsSpace /\ input.settings \in Settings
        /\ input.prior \in Histories /\ more \in Histories
    BY <2>1, PolicyInputsTyped
  <2> DEFINE t == [input.settings EXCEPT !.auto_execute_max_safety_level = level]
             other == [input EXCEPT !.prior = more,
                                    !.settings.auto_execute_max_safety_level = level]
  <2>3. /\ other.proposals = input.proposals /\ other.cause = input.cause
        /\ other.prior = more /\ other.settings = t
    BY <2>1 DEF PolicyInputs
  <2>4. /\ t \in Settings /\ t.enabled = input.settings.enabled
        /\ t.auto_execute_max_safety_level = level
        /\ t.max_remediation_attempts_per_incident
             = input.settings.max_remediation_attempts_per_incident
        /\ t.max_auto_remediations_per_incident
             = input.settings.max_auto_remediations_per_incident
    BY <2>2 DEF Settings
  <2> HIDE DEF t
  <2>5. /\ DecideOn(other) = Decide(input.proposals, t, input.cause, more)
        /\ output = Decide(input.proposals, input.settings, input.cause, input.prior)
    BY <2>1, <2>3 DEF DecideOn
  <2> HIDE DEF other
  <2>6. /\ level = input.settings.auto_execute_max_safety_level
             => Authority(DecideOn(other)) <= Authority(output)
        /\ Authority(DecideOn(other)) = 2 => Authority(output) = 2
    BY <2>2, <2>4, <2>5, AuthorityNeverGrows
  <2> QED
    BY <2>6 DEF other
<1> QED
  BY <1>1, DecisionsFollow, PTL

\* The inputs of the runs are such lists.
LEMMA CollectInputsCollectable ==
    ASSUME NEW in \in CollectInputs
    PROVE  Collectable(in)
<1>1. /\ in.registry \in UNION {[1 .. n -> Deployments] : n \in 0 .. 3}
      /\ in.log \in UNION {[1 .. n -> Commits] : n \in 0 .. 2}
      /\ IsInjective([k \in DOMAIN in.log |-> in.log[k].id])
      /\ in.limit \in Nat
  BY DEF CollectInputs
<1>2. \A d \in Deployments : d.time \in Int /\ d.aware \in BOOLEAN /\ d.id \in {1, 2, 3}
  BY DEF Deployments
<1>3. \A c \in Commits : c.time \in Int /\ c.id \in {4, 5}
  BY DEF Commits
<1>4. PICK n \in 0 .. 3 : in.registry \in [1 .. n -> Deployments]
  BY <1>1
<1>5. PICK m \in 0 .. 2 : in.log \in [1 .. m -> Commits]
  BY <1>1
<1>6. n \in Nat /\ m \in Nat /\ DOMAIN in.registry = 1 .. n /\ DOMAIN in.log = 1 .. m
  BY <1>4, <1>5
<1>7. \A i, k \in DOMAIN in.log : in.log[i].id = in.log[k].id => i = k
  BY <1>1 DEF IsInjective
<1>8. \A i \in DOMAIN in.registry : in.registry[i] \in Deployments
  BY <1>4
<1>9. \A i \in DOMAIN in.log : in.log[i] \in Commits
  BY <1>5
<1>10. \A i \in DOMAIN in.log, k \in DOMAIN in.registry : in.log[i].id # in.registry[k].id
  BY <1>2, <1>3, <1>8, <1>9
<1> QED
  BY <1>1, <1>2, <1>3, <1>6, <1>7, <1>8, <1>9, <1>10 DEF Collectable

\* A change of the window reaches the investigation, but for the losses that
\* ChangesAreCollected names (collect_recent_changes_node).
THEOREM ChangesCollected == Spec => []ChangesAreCollected
<1>1. ASSUME Follows PROVE ChangesAreCollected
  <2> SUFFICES ASSUME Decided("collect") PROVE Complete(input, output.changes)
    BY DEF ChangesAreCollected
  <2>1. input \in CollectInputs /\ output = CollectOn(input)
    BY <1>1 DEF Follows, Decided
  <2>2. Complete(input, CollectOn(input).changes)
    BY <2>1, CollectInputsCollectable, CollectionIsComplete
  <2> QED
    BY <2>1, <2>2
<1> QED
  BY <1>1, DecisionsFollow, PTL

\* The changes of a hypothesis are promoted in its order if and only if they are
\* causal (correlate_evidence_node, verify_hypothesis_node).
THEOREM PromotionEarned == Spec => []PromotionIsEarned
<1>1. ASSUME Follows PROVE PromotionIsEarned
  <2> SUFFICES ASSUME Decided("judge")
               PROVE  output.causal = InOrderOf(input.hypothesis.related,
                        {id \in ToSet(input.hypothesis.related) : Causal(input.changes[id])})
    BY DEF PromotionIsEarned
  <2> DEFINE changes == input.changes
             h == input.hypothesis
             current == {e.id : e \in input.evidence} \union {"later"}
             Verified(i) == VerifyAssociation(h, changes[i], Correlations(input)[i],
                                              current, input.threshold)
  <2>1. input \in JudgeInputs /\ output = JudgeOn(input)
    BY <1>1 DEF Follows, Decided
  <2>2. /\ DOMAIN changes = 1 .. 2 /\ changes[1] \in Changes(1) /\ changes[2] \in Changes(2)
        /\ h.related \in {<<>>, <<2>>, <<1, 2>>, <<2, 1>>}
        /\ input.threshold \in {60, 90}
    BY <2>1 DEF JudgeInputs
  <2>3. ToSet(h.related) \subseteq 1 .. 2
    BY <2>2 DEF ToSet
  <2>4. ASSUME NEW i \in 1 .. 2
        PROVE  changes[i].id = i /\ changes[i].time \in Int
    <3>1. changes[i] \in Changes(i)
      BY <2>2
    <3>2. changes[i].id = i /\ changes[i].time \in Times
      BY <3>1 DEF Changes
    <3>3. Times \subseteq Int
      BY DEF Times
    <3> QED
      BY <3>2, <3>3
  <2>5. ASSUME NEW i \in 1 .. 2
        PROVE  Verified(i) <=> i \in ToSet(h.related) /\ Causal(changes[i])
    <3> DEFINE c == changes[i]
               links == EvidenceLinks(c, input.evidence)
               Shared == \E e \in input.evidence : e.clusters \intersect c.clusters # {}
    <3>1. Correlations(input)[i] = Correlate(c, "svc", input.evidence, input.threshold)
      BY DEF Correlations
    <3>2. input.threshold \in Int /\ \A e \in input.evidence : e.id \in current
      BY <2>2
    <3>3. Verified(i)
            <=> /\ c.id \in ToSet(h.related)
                /\ c.service = "svc" /\ c.service = h.component
                /\ 0 <= c.time /\ c.time < 5850
                /\ Shared
                /\ input.threshold > 75 => Relevance(c.time, links) >= input.threshold
      <4>1. c.time \in Int
        BY <2>4
      <4> HIDE DEF c, h, current
      <4>2. VerifyAssociation(h, c, Correlate(c, "svc", input.evidence, input.threshold),
                              current, input.threshold)
              <=> IsCause(c, "svc", h, input.evidence, input.threshold)
        BY <3>2, <4>1, PromotedIffCausal
      <4> QED
        BY <3>1, <4>2 DEF IsCause, c
    <3>4. Shared => links # {}
      BY DEF EvidenceLinks
    <3>5. Causal(c)
            <=> /\ c.service = "svc" /\ h.component = "svc"
                /\ 0 <= c.time /\ c.time < 5850
                /\ Shared
                /\ input.threshold = 60 \/ c.time <= 1300
      BY DEF Causal
    <3>6. ASSUME 0 <= c.time, Shared
          PROVE  (input.threshold > 75 => Relevance(c.time, links) >= input.threshold)
                   <=> input.threshold = 60 \/ c.time <= 1300
      <4>1. Relevance(c.time, links) >= 90 <=> c.time <= 1300
        BY <2>4, <3>4, <3>6, RelevanceOfTime
      <4> QED
        BY <2>2, <4>1
    <3> HIDE DEF Shared, links
    <3> QED
      BY <2>4, <3>3, <3>5, <3>6
  <2>6. {changes[i].id : i \in {k \in DOMAIN changes : Verified(k)}}
          = {id \in ToSet(h.related) : Causal(changes[id])}
    <3> HIDE DEF Verified, h, changes
    <3> QED
      BY <2>2, <2>3, <2>4, <2>5
  <2>7. output.causal = InOrderOf(h.related,
                          {changes[i].id : i \in {k \in DOMAIN changes : Verified(k)}})
    BY <2>1 DEF JudgeOn, CausalChanges
  <2> QED
    BY <2>6, <2>7
<1> QED
  BY <1>1, DecisionsFollow, PTL

=============================================================================
