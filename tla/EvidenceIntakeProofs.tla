------------------------ MODULE EvidenceIntakeProofs ------------------------
(***************************************************************************)
(* Proofs about PolicyEngine and EvidenceIntake: the types, what an ALLOW  *)
(* rests on and what its root identifies, where the receipts of the GitHub *)
(* App come from, and what a simulation leaves, for any scenario, any      *)
(* actions, runs and requests.                                             *)
(***************************************************************************)
EXTENDS EvidenceIntake, FiniteSetTheorems, TLAPS

\* A successful run of the action's commit was seen at that time.
Observed(a, observedAt) ==
    \E event \in history : /\ a \in Builds[event.run]
                           /\ event.conclusion = "success"
                           /\ event.updatedAt = observedAt

\* A verify-ci request carries what GitHub has shown, and a fresh run is not later
\* than GitHub's clock.
Calls ==
    \A c \in Callers :
        /\ verifying[c].phase \in {"fresh", "keyed"} => verifying[c].observedAt <= MaxTime + Skew
        /\ verifying[c].phase \in {"ran", "fresh", "keyed"}
             => Observed(verifying[c].action, verifying[c].observedAt)

\* GitHub's past includes its present.
Remembered ==
    \A r \in Runs : runs[r].conclusion = "success" =>
        [run |-> r, conclusion |-> "success", updatedAt |-> runs[r].updatedAt] \in history

\* Who may have made a receipt.
Attributed(receipt) ==
    /\ receipt.signedBy # 0 => ClassOf[receipt.source] # SelfDeclared
    /\ receipt.source = ApprovalSource => receipt.provider = "proofrail-human-approval"
    /\ receipt.provider = "github-actions" => Observed(receipt.action, receipt.observedAt)

ReceiptsAreAttributed == \A i \in DOMAIN evidence : Attributed(evidence[i])

\* A decision of this database rests on receipts of its action, and the simulation
\* that ended with it left none of their keys.
RestsOnItsAction(a) ==
    /\ evaluating[a].generation <= generation
    /\ (/\ evaluating[a].phase \in {"anchoring", "stored", "expired"}
        /\ evaluating[a].generation = generation)
       => \A i \in evaluating[a].evidenceIds :
             /\ i \in DOMAIN evidence /\ evidence[i].action = a
             /\ evaluating[a].phase = "expired" => i \notin readable

EvaluationsRest == \A a \in Actions : RestsOnItsAction(a)

IntakeInv ==
    /\ EvidenceTypeOK
    /\ Calls
    /\ Remembered
    /\ ReceiptsAreAttributed
    /\ OneCiReceiptPerAction
    /\ EvaluationsRest

-----------------------------------------------------------------------------
(* The operators of the community modules.                                 *)

LEMMA MaxOfFinite ==
    ASSUME NEW S, S \subseteq Nat, IsFiniteSet(S), S # {}
    PROVE  Max(S) \in S /\ \A y \in S : Max(S) >= y
  <1> DEFINE Above(m) == {k \in S : k > m}
             Tails    == {Above(m) : m \in S}
  <1>1. Tails \subseteq FiniteSubsetsOf(S) /\ Tails # {}
    <2>1. ASSUME NEW m \in S PROVE Above(m) \in FiniteSubsetsOf(S)
      BY FS_Subset DEF FiniteSubsetsOf
    <2> QED
      BY <2>1
  <1>2. IsWellFoundedOn(StrictSubsetOrdering(S), FiniteSubsetsOf(S))
    BY FS_StrictSubsetOrderingWellFounded
  <1>3. PICK T \in Tails : \A U \in Tails : ~ (<<U, T>> \in StrictSubsetOrdering(S))
    <2> DEFINE R == StrictSubsetOrdering(S)
               D == FiniteSubsetsOf(S)
    <2>1. IsWellFoundedOn(R, D) /\ Tails \subseteq D /\ Tails # {}
      BY <1>1, <1>2
    <2>2. ASSUME NEW O, NEW E, IsWellFoundedOn(O, E), NEW X, X \subseteq E, X # {}
          PROVE  \E x \in X : \A y \in X : ~ (<<y, x>> \in O)
      BY <2>2, WFMin, Zenon
    <2> HIDE DEF Tails, R, D
    <2>3. \E x \in Tails : \A y \in Tails : ~ (<<y, x>> \in R)
      BY <2>1, <2>2
    <2> QED
      BY <2>3 DEF R
  <1>4. PICK m \in S : T = Above(m)
    BY <1>3
  <1>5. ASSUME NEW y \in S PROVE m >= y
    <2>1. SUFFICES ASSUME y > m PROVE FALSE
      OBVIOUS
    <2>2. Above(y) \subseteq T /\ y \in T /\ y \notin Above(y) /\ T \subseteq S
      <3>1. \A k \in S : k \in Nat
        OBVIOUS
      <3>2. \A k \in S : k > y => k > m
        BY <2>1, <3>1
      <3>3. ~ (y > y)
        BY <3>1
      <3> QED
        BY <2>1, <1>4, <3>2, <3>3
    <2>3. <<Above(y), T>> \in StrictSubsetOrdering(S)
      <3> DEFINE U == Above(y)
      <3>1. U \in SUBSET S /\ T \in SUBSET S /\ U \subseteq T /\ U # T
        BY <2>2
      <3> HIDE DEF U
      <3>2. <<U, T>> \in StrictSubsetOrdering(S)
        BY <3>1 DEF StrictSubsetOrdering
      <3> QED
        BY <3>2 DEF U
    <2> QED
      BY <2>3, <1>3
  <1>6. \E x \in S : \A y \in S : x >= y
    BY <1>5
  <1> QED
    BY <1>6 DEF Max

LEMMA MinOfTwo ==
    ASSUME NEW x \in Int, NEW y \in Int
    PROVE  Min({x, y}) \in {x, y} /\ Min({x, y}) <= x /\ Min({x, y}) <= y
  <1>1. \E m \in {x, y} : \A n \in {x, y} : m <= n
    <2>1. CASE x <= y
      BY <2>1
    <2>2. CASE y <= x
      BY <2>2
    <2> QED
      BY <2>1, <2>2
  <1> QED
    BY <1>1 DEF Min

LEMMA MaxOfTwo ==
    ASSUME NEW x \in Int, NEW y \in Int
    PROVE  Max({x, y}) \in {x, y} /\ Max({x, y}) >= x /\ Max({x, y}) >= y
  <1>1. \E m \in {x, y} : \A n \in {x, y} : m >= n
    <2>1. CASE x <= y
      BY <2>1
    <2>2. CASE y <= x
      BY <2>2
    <2> QED
      BY <2>1, <2>2
  <1> QED
    BY <1>1 DEF Max

LEMMA SeqOfSet ==
    ASSUME NEW S, IsFiniteSet(S)
    PROVE  SetToSeq(S) \in Seq(S)
  <1>1. Cardinality(S) \in Nat /\ ExistsBijection(1..Cardinality(S), S)
    BY FS_CardinalityType
  <1>2. PICK f \in [1..Cardinality(S) -> S] : IsInjective(f)
    BY <1>1 DEF ExistsBijection, Bijection, Injection
  <1>3. SetToSeq(S) \in [1..Cardinality(S) -> S]
    BY <1>2 DEF SetToSeq
  <1> QED
    BY <1>1, <1>3

LEMMA FirstOfNaturals ==
    ASSUME NEW S, S \subseteq Nat, S # {}
    PROVE  \E m \in S : \A k \in S : ~ (k < m)
  <1> DEFINE R == OpToRel(<, Nat)
  <1>1. IsWellFoundedOn(R, Nat)
    BY NatLessThanWellFounded
  <1>2. \A k, m \in Nat : k < m => <<k, m>> \in R
    BY DEF OpToRel
  <1> HIDE DEF R
  <1>3. ASSUME NEW O, NEW E, IsWellFoundedOn(O, E), NEW X, X \subseteq E, X # {}
        PROVE  \E x \in X : \A y \in X : ~ (<<y, x>> \in O)
    BY <1>3, WFMin, Zenon
  <1>4. PICK m \in S : \A k \in S : ~ (<<k, m>> \in R)
    BY <1>1, <1>3
  <1> QED
    BY <1>2, <1>4

LEMMA NaturalsByRounds ==
    ASSUME NEW S, 0 \in S, \A n \in Nat : n \in S => n + 1 \in S
    PROVE  Nat \subseteq S
  <1> SUFFICES ASSUME Nat \ S # {} PROVE FALSE
    OBVIOUS
  <1>1. PICK m \in Nat \ S : \A k \in Nat \ S : ~ (k < m)
    BY FirstOfNaturals
  <1>2. m - 1 \in Nat /\ m - 1 \in S
    BY <1>1
  <1> QED
    BY <1>1, <1>2

-----------------------------------------------------------------------------
(* merkleRoot: the levels exist, have distinct hashes of leaves or pairs,  *)
(* end in one hash, and can be undone. Induction over the rounds is by the *)
(* least counterexample.                                                   *)

\* One turn of the loop.
Round(level) == IF Len(level) <= 1 THEN level ELSE HashPairs(level)

\* The levels of a tree, up to round n.
LevelsTo(f, leaves, n) ==
    f = [k \in 0..n |-> IF k = 0 THEN MerkleLevel(leaves) ELSE Round(f[k - 1])]

LEMMA LevelsAgree ==
    ASSUME NEW leaves, NEW n \in Nat, NEW m \in Nat, n <= m, NEW f, NEW g,
           LevelsTo(f, leaves, n), LevelsTo(g, leaves, m)
    PROVE  \A k \in 0..n : f[k] = g[k]
  <1> DEFINE S == {k \in Nat : k <= n => f[k] = g[k]}
  <1>1. 0 \in S
    BY DEF LevelsTo
  <1>2. ASSUME NEW k \in Nat, k \in S PROVE k + 1 \in S
    <2> SUFFICES ASSUME k + 1 <= n PROVE f[k + 1] = g[k + 1]
      OBVIOUS
    <2>1. f[k] = g[k] /\ (k + 1) - 1 = k /\ k + 1 # 0 /\ k + 1 \in 0..n /\ k + 1 \in 0..m
      BY <1>2
    <2>2. f[k + 1] = Round(f[k])
      BY <2>1 DEF LevelsTo
    <2>3. g[k + 1] = Round(g[k])
      BY <2>1 DEF LevelsTo
    <2> QED
      BY <2>1, <2>2, <2>3
  <1> HIDE DEF S
  <1>3. Nat \subseteq S
    BY <1>1, <1>2, NaturalsByRounds
  <1> QED
    BY <1>3 DEF S

LEMMA LevelsToExist ==
    ASSUME NEW leaves, NEW n \in Nat
    PROVE  \E f : LevelsTo(f, leaves, n)
  <1> DEFINE S == {k \in Nat : \E f : LevelsTo(f, leaves, k)}
  <1>1. 0 \in S
    <2> DEFINE f == [k \in 0..0 |-> MerkleLevel(leaves)]
    <2>1. f = [k \in 0..0 |-> IF k = 0 THEN MerkleLevel(leaves) ELSE Round(f[k - 1])]
      OBVIOUS
    <2>2. LevelsTo(f, leaves, 0)
      BY <2>1 DEF LevelsTo
    <2> QED
      BY <2>2
  <1>2. ASSUME NEW k \in Nat, k \in S PROVE k + 1 \in S
    <2>1. PICK f : LevelsTo(f, leaves, k)
      BY <1>2
    <2> DEFINE g == [j \in 0..k + 1 |-> IF j <= k THEN f[j] ELSE Round(f[k])]
    <2>2. ASSUME NEW j \in 0..k + 1
          PROVE  g[j] = IF j = 0 THEN MerkleLevel(leaves) ELSE Round(g[j - 1])
      <3>1. CASE j = 0
        BY <2>1, <3>1 DEF LevelsTo
      <3>2. CASE j # 0 /\ j <= k
        <4>1. j - 1 \in 0..k /\ j \in 0..k /\ j - 1 \in 0..k + 1
          BY <3>2
        <4>2. f[j] = Round(f[j - 1])
          BY <2>1, <3>2, <4>1 DEF LevelsTo
        <4>3. g[j] = f[j] /\ g[j - 1] = f[j - 1]
          BY <4>1
        <4> QED
          BY <3>2, <4>2, <4>3
      <3>3. CASE j = k + 1
        <4>1. j # 0 /\ j - 1 = k /\ g[j - 1] = f[k] /\ g[j] = Round(f[k])
          BY <3>3
        <4> QED
          BY <4>1
      <3> QED
        BY <3>1, <3>2, <3>3
    <2>3. LevelsTo(g, leaves, k + 1)
      <3>1. g = [j \in 0..k + 1 |-> g[j]]
        OBVIOUS
      <3> HIDE DEF g
      <3> QED
        BY <2>2, <3>1 DEF LevelsTo
    <2> QED
      BY <2>3
  <1> HIDE DEF S
  <1>3. Nat \subseteq S
    BY <1>1, <1>2, NaturalsByRounds
  <1> QED
    BY <1>3 DEF S

\* The function MerkleRoot is defined by.
Levels(leaves) ==
    CHOOSE f : f = [n \in Nat |-> IF n = 0 THEN MerkleLevel(leaves)
                                  ELSE IF Len(f[n - 1]) <= 1 THEN f[n - 1]
                                  ELSE HashPairs(f[n - 1])]

LEMMA LevelsByRounds ==
    ASSUME NEW leaves
    PROVE  /\ Levels(leaves)[0] = MerkleLevel(leaves)
           /\ \A n \in Nat : Levels(leaves)[n + 1] = Round(Levels(leaves)[n])
           /\ MerkleRoot(leaves) = IF leaves = <<>> THEN <<"empty">>
                                   ELSE Head(Levels(leaves)[Len(leaves)])
  <1> DEFINE h(n) == CHOOSE f : LevelsTo(f, leaves, n)
             F == [n \in Nat |-> h(n)[n]]
  <1>1. \A n \in Nat : LevelsTo(h(n), leaves, n)
    BY LevelsToExist
  <1>2. F[0] = MerkleLevel(leaves)
    <2> DEFINE f == h(0)
    <2>1. LevelsTo(f, leaves, 0) /\ F[0] = f[0]
      BY <1>1
    <2> HIDE DEF f, h, F
    <2>2. f[0] = MerkleLevel(leaves)
      BY <2>1 DEF LevelsTo
    <2> QED
      BY <2>1, <2>2
  <1>3. ASSUME NEW n \in Nat PROVE F[n + 1] = Round(F[n])
    <2> DEFINE f == h(n)
               g == h(n + 1)
    <2>1. LevelsTo(f, leaves, n) /\ LevelsTo(g, leaves, n + 1)
      BY <1>1
    <2>2. F[n] = f[n] /\ F[n + 1] = g[n + 1]
      OBVIOUS
    <2> HIDE DEF f, g, h
    <2>3. f[n] = g[n]
      BY <2>1, LevelsAgree
    <2>4. g[n + 1] = Round(g[n])
      BY <2>1 DEF LevelsTo
    <2> HIDE DEF F
    <2> QED
      BY <2>2, <2>3, <2>4
  <1>4. F = [n \in Nat |-> F[n]]
    OBVIOUS
  <1> HIDE DEF F
  <1>5. F = [n \in Nat |-> IF n = 0 THEN MerkleLevel(leaves)
                           ELSE IF Len(F[n - 1]) <= 1 THEN F[n - 1] ELSE HashPairs(F[n - 1])]
    <2>1. ASSUME NEW n \in Nat
          PROVE  F[n] = IF n = 0 THEN MerkleLevel(leaves)
                        ELSE IF Len(F[n - 1]) <= 1 THEN F[n - 1] ELSE HashPairs(F[n - 1])
      <3>1. CASE n = 0
        BY <1>2, <3>1
      <3>2. CASE n # 0
        <4>1. n - 1 \in Nat /\ (n - 1) + 1 = n
          BY <3>2
        <4>2. F[n] = Round(F[n - 1])
          BY <1>3, <4>1
        <4> QED
          BY <3>2, <4>2 DEF Round
      <3> QED
        BY <3>1, <3>2
    <2> QED
      BY <1>4, <2>1
  <1> DEFINE L == Levels(leaves)
  <1>6. L = [n \in Nat |-> IF n = 0 THEN MerkleLevel(leaves)
                           ELSE IF Len(L[n - 1]) <= 1 THEN L[n - 1] ELSE HashPairs(L[n - 1])]
    BY <1>5 DEF Levels
  <1>7. MerkleRoot(leaves) = IF leaves = <<>> THEN <<"empty">> ELSE Head(L[Len(leaves)])
    BY DEF MerkleRoot, Levels
  <1> HIDE DEF L
  <1>8. L[0] = MerkleLevel(leaves)
    BY <1>6
  <1>9. ASSUME NEW n \in Nat PROVE L[n + 1] = Round(L[n])
    <2>1. n + 1 \in Nat /\ n + 1 # 0 /\ (n + 1) - 1 = n
      OBVIOUS
    <2>2. L[n + 1] = IF Len(L[n]) <= 1 THEN L[n] ELSE HashPairs(L[n])
      BY <1>6, <2>1
    <2> QED
      BY <2>2 DEF Round
  <1> QED
    BY <1>7, <1>8, <1>9 DEF L

\* A level of a tree over distinct leaves: distinct hashes, of leaves or of pairs.
IsHash(h) == (\E x : h = <<"leaf", x>>) \/ (\E x, y : h = <<"pair", x, y>>)
IsLevel(level) ==
    /\ Len(level) \in Nat \ {0}
    /\ DOMAIN level = 1..Len(level) /\ level = [i \in 1..Len(level) |-> level[i]]
    /\ \A i \in 1..Len(level) : IsHash(level[i])
    /\ \A i, j \in 1..Len(level) : level[i] = level[j] => i = j

LEMMA LenOfFunction ==
    ASSUME NEW n \in Nat, NEW f, DOMAIN f = 1..n, f = [i \in 1..n |-> f[i]]
    PROVE  Len(f) = n /\ f \in Seq({f[i] : i \in 1..n})
  <1> DEFINE S == {f[i] : i \in 1..n}
  <1>1. f \in [1..n -> S]
    <2>1. \A i \in 1..n : f[i] \in S
      OBVIOUS
    <2> HIDE DEF S
    <2> QED
      BY <2>1
  <1> HIDE DEF S
  <1>2. f \in Seq(S)
    BY <1>1
  <1> QED
    BY <1>1, <1>2 DEF S

LEMMA LeavesAreALevel ==
    ASSUME NEW S, NEW leaves \in Seq(S), leaves # <<>>,
           \A i, j \in 1..Len(leaves) : leaves[i] = leaves[j] => i = j
    PROVE  IsLevel(MerkleLevel(leaves)) /\ Len(MerkleLevel(leaves)) = Len(leaves)
  <1> DEFINE l == MerkleLevel(leaves)
             n == Len(leaves)
  <1>1. n \in Nat \ {0} /\ DOMAIN leaves = 1..n
    OBVIOUS
  <1>2. l = [i \in 1..n |-> <<"leaf", leaves[i]>>]
    BY <1>1 DEF MerkleLevel
  <1> HIDE DEF n, l
  <1>3. Len(l) = n
    BY <1>1, <1>2, LenOfFunction
  <1>4. \A i \in 1..n : IsHash(l[i])
    BY <1>2 DEF IsHash
  <1>5. \A i, j \in 1..n : l[i] = l[j] => i = j
    BY <1>2 DEF n
  <1> QED
    BY <1>1, <1>2, <1>3, <1>4, <1>5 DEF IsLevel, l, n

LEMMA PairsAreALevel ==
    ASSUME NEW level, IsLevel(level)
    PROVE  /\ IsLevel(HashPairs(level))
           /\ Len(HashPairs(level)) = (Len(level) + 1) \div 2
  <1> DEFINE n == Len(level)
             m == (n + 1) \div 2
             second(i) == IF 2 * i <= n THEN 2 * i ELSE 2 * i - 1
             l == HashPairs(level)
  <1>1. n \in Nat \ {0} /\ m \in Nat \ {0} /\ 2 * m \in {n, n + 1}
    <2>1. n \in Nat \ {0}
      BY DEF IsLevel
    <2> HIDE DEF n
    <2> QED
      BY <2>1
  <1>2. l = [i \in 1..m |-> <<"pair", level[2 * i - 1], level[second(i)]>>]
    BY DEF HashPairs
  <1>3. ASSUME NEW i \in 1..m PROVE 2 * i - 1 \in 1..n
    BY <1>1, <1>3
  <1> HIDE DEF n, m, l, second
  <1>4. Len(l) = m
    BY <1>1, <1>2, LenOfFunction
  <1>5. \A i \in 1..m : IsHash(l[i])
    BY <1>2 DEF IsHash
  <1>6. ASSUME NEW i \in 1..m, NEW j \in 1..m, l[i] = l[j] PROVE i = j
    <2>1. level[2 * i - 1] = level[2 * j - 1]
      BY <1>2, <1>6
    <2>2. 2 * i - 1 = 2 * j - 1
      BY <1>3, <2>1 DEF IsLevel, n
    <2> QED
      BY <1>1, <2>2
  <1> QED
    BY <1>1, <1>2, <1>4, <1>5, <1>6 DEF IsLevel, l, m, n

LEMMA PairsAreInjective ==
    ASSUME NEW k, NEW l, IsLevel(k), IsLevel(l), HashPairs(k) = HashPairs(l)
    PROVE  k = l
  <1> DEFINE second(s, i) == IF 2 * i <= Len(s) THEN 2 * i ELSE 2 * i - 1
             m == (Len(k) + 1) \div 2
  <1>1. Len(k) \in Nat \ {0} /\ Len(l) \in Nat \ {0} /\ m = (Len(l) + 1) \div 2
    BY PairsAreALevel DEF IsLevel
  <1>2. ASSUME NEW i \in 1..m
        PROVE  k[2 * i - 1] = l[2 * i - 1] /\ k[second(k, i)] = l[second(l, i)]
    <2>1. HashPairs(k)[i] = <<"pair", k[2 * i - 1], k[second(k, i)]>>
      BY <1>1 DEF HashPairs
    <2>2. HashPairs(l)[i] = <<"pair", l[2 * i - 1], l[second(l, i)]>>
      BY <1>1 DEF HashPairs
    <2> HIDE DEF second
    <2> QED
      BY <2>1, <2>2
  <1>3. ASSUME NEW s, NEW t, IsLevel(s), Len(t) \in Nat, Len(s) = 2 * m, Len(t) = 2 * m - 1,
               s[2 * m - 1] = t[2 * m - 1], s[2 * m] = t[2 * m - 1]
        PROVE  FALSE
    <2>1. m \in Nat /\ 2 * m - 1 \in 1..Len(s) /\ 2 * m \in 1..Len(s) /\ 2 * m # 2 * m - 1
      BY <1>1, <1>3
    <2> QED
      BY <1>3, <2>1 DEF IsLevel
  <1>4. m \in Nat \ {0} /\ Len(k) \in {2 * m, 2 * m - 1} /\ Len(l) \in {2 * m, 2 * m - 1}
    BY <1>1
  <1> HIDE DEF m
  <1>5. Len(k) = Len(l)
    <2>1. k[2 * m - 1] = l[2 * m - 1] /\ k[second(k, m)] = l[second(l, m)] /\ m \in 1..m
      BY <1>2, <1>4
    <2>2. ASSUME Len(k) = 2 * m, Len(l) = 2 * m - 1 PROVE FALSE
      <3>1. second(k, m) = 2 * m /\ second(l, m) = 2 * m - 1
        BY <2>2, <1>4
      <3> QED
        BY <1>1, <1>3, <2>1, <2>2, <3>1
    <2>3. ASSUME Len(l) = 2 * m, Len(k) = 2 * m - 1 PROVE FALSE
      <3>1. second(l, m) = 2 * m /\ second(k, m) = 2 * m - 1
        BY <2>3, <1>4
      <3> QED
        BY <1>1, <1>3, <2>1, <2>3, <3>1
    <2> QED
      BY <1>4, <2>2, <2>3
  <1>6. ASSUME NEW j \in 1..Len(k) PROVE k[j] = l[j]
    <2>1. PICK i \in 1..m : j = 2 * i - 1 \/ j = 2 * i
      <3>1. (j + 1) \div 2 \in 1..m /\ j \in {2 * ((j + 1) \div 2) - 1, 2 * ((j + 1) \div 2)}
        BY <1>4, <1>6
      <3> QED
        BY <3>1
    <2>2. k[2 * i - 1] = l[2 * i - 1] /\ k[second(k, i)] = l[second(l, i)]
      BY <1>2
    <2>3. j = 2 * i => second(k, i) = j /\ second(l, i) = j
      BY <1>5
    <2> HIDE DEF second
    <2> QED
      BY <2>1, <2>2, <2>3
  <1>7. k = [j \in 1..Len(k) |-> k[j]] /\ l = [j \in 1..Len(l) |-> l[j]]
    BY DEF IsLevel
  <1> DEFINE n == Len(k)
  <1>8. k = [j \in 1..n |-> k[j]] /\ l = [j \in 1..n |-> l[j]] /\ \A j \in 1..n : k[j] = l[j]
    BY <1>5, <1>6, <1>7
  <1> HIDE DEF n
  <1> QED
    BY <1>8

\* Sequences of distinct leaves.
Distinct(leaves) == \A i, j \in 1..Len(leaves) : leaves[i] = leaves[j] => i = j

LEMMA LevelsAreLevels ==
    ASSUME NEW S, NEW leaves \in Seq(S), leaves # <<>>, Distinct(leaves)
    PROVE  \A n \in Nat : LET level == Levels(leaves)[n]
                          IN  /\ IsLevel(level)
                              /\ Len(level) = 1 \/ Len(level) + n <= Len(leaves)
  <1> DEFINE L == Levels(leaves)
             N == Len(leaves)
             Fine(n) == IsLevel(L[n]) /\ (Len(L[n]) = 1 \/ Len(L[n]) + n <= N)
             T == {n \in Nat : Fine(n)}
  <1>1. L[0] = MerkleLevel(leaves) /\ \A n \in Nat : L[n + 1] = Round(L[n])
    BY LevelsByRounds
  <1>2. N \in Nat \ {0} /\ IsLevel(MerkleLevel(leaves)) /\ Len(MerkleLevel(leaves)) = N
    BY LeavesAreALevel DEF Distinct
  <1> HIDE DEF L, N
  <1>3. 0 \in T
    <2>1. IsLevel(L[0]) /\ Len(L[0]) = N
      BY <1>1, <1>2
    <2>2. N + 0 <= N
      BY <1>2
    <2> QED
      BY <2>1, <2>2
  <1>4. ASSUME NEW n \in Nat, n \in T PROVE n + 1 \in T
    <2> DEFINE k == Len(L[n])
    <2>1. /\ IsLevel(L[n]) /\ (k = 1 \/ k + n <= N)
          /\ L[n + 1] = IF k <= 1 THEN L[n] ELSE HashPairs(L[n])
      BY <1>1, <1>4 DEF Round
    <2>2. k \in Nat \ {0}
      BY <2>1 DEF IsLevel
    <2>3. k = 1 \/ (k > 1 /\ ~ (k <= 1))
      <3> HIDE DEF k
      <3> QED
        BY <2>2
    <2>4. CASE k = 1
      <3>1. L[n + 1] = L[n] /\ Len(L[n + 1]) = 1
        BY <2>1, <2>4
      <3> QED
        BY <2>1, <3>1
    <2>5. CASE k > 1 /\ ~ (k <= 1)
      <3> DEFINE l == Len(L[n + 1])
      <3>1. L[n + 1] = HashPairs(L[n])
        BY <2>1, <2>5
      <3>2. IsLevel(L[n + 1]) /\ l = (k + 1) \div 2
        BY <2>1, <3>1, PairsAreALevel
      <3>3. k \in Nat /\ k > 1 /\ k + n <= N
        <4> HIDE DEF k
        <4> QED
          BY <2>1, <2>2, <2>5
      <3> HIDE DEF k, l
      <3>4. l + 1 <= k /\ l \in Nat
        BY <3>2, <3>3
      <3>5. l + (n + 1) <= N
        BY <1>2, <3>3, <3>4
      <3> QED
        BY <3>2, <3>5 DEF l
    <2> QED
      BY <2>3, <2>4, <2>5
  <1> HIDE DEF T
  <1>5. Nat \subseteq T
    BY <1>3, <1>4, NaturalsByRounds
  <1> QED
    BY <1>5 DEF T, L, N

LEMMA LeavesAreInjective ==
    ASSUME NEW S, NEW s \in Seq(S), NEW t \in Seq(S), MerkleLevel(s) = MerkleLevel(t)
    PROVE  s = t
  <1>1. DOMAIN s = DOMAIN t
    BY DEF MerkleLevel
  <1>2. ASSUME NEW i \in DOMAIN s PROVE s[i] = t[i]
    <2>1. MerkleLevel(s)[i] = <<"leaf", s[i]>> /\ MerkleLevel(t)[i] = <<"leaf", t[i]>>
      BY <1>1 DEF MerkleLevel
    <2> QED
      BY <2>1
  <1> QED
    BY <1>1, <1>2

\* Levels that are equal, after whatever rounds, come from the same leaves.
LEMMA EqualLevels ==
    ASSUME NEW S, NEW s \in Seq(S), NEW t \in Seq(S), s # <<>>, t # <<>>,
           Distinct(s), Distinct(t)
    PROVE  \A n, m \in Nat : Levels(s)[n] = Levels(t)[m] => s = t
  <1> DEFINE K == Levels(s)
             L == Levels(t)
             T == {k \in Nat : \A n, m \in Nat : n + m <= k /\ K[n] = L[m] => s = t}
  <1>1. /\ K[0] = MerkleLevel(s) /\ \A n \in Nat : K[n + 1] = Round(K[n])
        /\ L[0] = MerkleLevel(t) /\ \A n \in Nat : L[n + 1] = Round(L[n])
    BY LevelsByRounds
  <1>2. \A n \in Nat : IsLevel(K[n]) /\ IsLevel(L[n])
    BY LevelsAreLevels
  <1>3. ASSUME NEW l, IsLevel(l), NEW u \in Seq(S), u # <<>>, HashPairs(l) = MerkleLevel(u)
        PROVE  FALSE
    <2>1. Len(HashPairs(l)) \in Nat \ {0} /\ DOMAIN HashPairs(l) = 1..Len(HashPairs(l))
      BY <1>3, PairsAreALevel DEF IsLevel
    <2>2. 1 \in DOMAIN HashPairs(l)
      BY <2>1
    <2>3. PICK x, y : HashPairs(l)[1] = <<"pair", x, y>>
      BY <2>2 DEF HashPairs
    <2>4. 1 \in DOMAIN u
      BY <1>3
    <2>5. MerkleLevel(u)[1] = <<"leaf", u[1]>>
      BY <2>4 DEF MerkleLevel
    <2> QED
      BY <1>3, <2>3, <2>5
  <1> HIDE DEF K, L
  <1>4. ASSUME K[0] = L[0] PROVE s = t
    BY <1>1, <1>4, LeavesAreInjective
  <1>5. 0 \in T
    <2>1. \A n, m \in Nat : n + m <= 0 => n = 0 /\ m = 0
      OBVIOUS
    <2> QED
      BY <1>4, <2>1
  <1>6. ASSUME NEW k \in Nat, k \in T PROVE k + 1 \in T
    <2> SUFFICES ASSUME NEW n \in Nat, NEW m \in Nat, n + m <= k + 1, K[n] = L[m]
                 PROVE  s = t
      OBVIOUS
    <2>1. \A i, j \in Nat : i + j <= k /\ K[i] = L[j] => s = t
      BY <1>6
    <2>2. ASSUME n # 0 PROVE n - 1 \in Nat /\ K[n] = Round(K[n - 1])
      <3>1. n - 1 \in Nat /\ (n - 1) + 1 = n
        BY <2>2
      <3> QED
        BY <1>1, <3>1
    <2>3. ASSUME m # 0 PROVE m - 1 \in Nat /\ L[m] = Round(L[m - 1])
      <3>1. m - 1 \in Nat /\ (m - 1) + 1 = m
        BY <2>3
      <3> QED
        BY <1>1, <3>1
    <2>4. CASE n # 0 /\ Len(K[n - 1]) <= 1
      <3>1. K[n - 1] = L[m] /\ n - 1 \in Nat /\ (n - 1) + m <= k
        BY <2>2, <2>4 DEF Round
      <3> QED
        BY <2>1, <3>1
    <2>5. CASE m # 0 /\ Len(L[m - 1]) <= 1
      <3>1. K[n] = L[m - 1] /\ m - 1 \in Nat /\ n + (m - 1) <= k
        BY <2>3, <2>5 DEF Round
      <3> QED
        BY <2>1, <3>1
    <2>6. CASE n = 0 /\ m = 0
      BY <1>4, <2>6
    <2>7. CASE n = 0 /\ m # 0 /\ ~ (Len(L[m - 1]) <= 1)
      <3>1. K[n] = MerkleLevel(s) /\ L[m] = HashPairs(L[m - 1]) /\ IsLevel(L[m - 1])
        BY <1>1, <1>2, <2>3, <2>7 DEF Round
      <3> QED
        BY <1>3, <3>1
    <2>8. CASE n # 0 /\ m = 0 /\ ~ (Len(K[n - 1]) <= 1)
      <3>1. L[m] = MerkleLevel(t) /\ K[n] = HashPairs(K[n - 1]) /\ IsLevel(K[n - 1])
        BY <1>1, <1>2, <2>2, <2>8 DEF Round
      <3> QED
        BY <1>3, <3>1
    <2>9. CASE /\ n # 0 /\ ~ (Len(K[n - 1]) <= 1)
               /\ m # 0 /\ ~ (Len(L[m - 1]) <= 1)
      <3>1. /\ n - 1 \in Nat /\ m - 1 \in Nat /\ (n - 1) + (m - 1) <= k
            /\ HashPairs(K[n - 1]) = HashPairs(L[m - 1])
            /\ IsLevel(K[n - 1]) /\ IsLevel(L[m - 1])
        BY <1>2, <2>2, <2>3, <2>9 DEF Round
      <3>2. K[n - 1] = L[m - 1]
        BY <3>1, PairsAreInjective
      <3> QED
        BY <2>1, <3>1, <3>2
    <2> QED
      BY <2>4, <2>5, <2>6, <2>7, <2>8, <2>9
  <1> HIDE DEF T
  <1>7. Nat \subseteq T
    BY <1>5, <1>6, NaturalsByRounds
  <1> QED
    <2> SUFFICES ASSUME NEW n \in Nat, NEW m \in Nat, K[n] = L[m] PROVE s = t
      BY DEF K, L
    <2>1. n + m \in T
      BY <1>7
    <2> QED
      BY <2>1 DEF T

LEMMA RootIsOneHash ==
    ASSUME NEW S, NEW s \in Seq(S), s # <<>>, Distinct(s)
    PROVE  /\ Levels(s)[Len(s)] = <<MerkleRoot(s)>>
           /\ IsHash(MerkleRoot(s))
  <1> DEFINE l == Levels(s)[Len(s)]
  <1>1. Len(s) \in Nat
    OBVIOUS
  <1>2. IsLevel(l) /\ (Len(l) = 1 \/ Len(l) + Len(s) <= Len(s))
    BY <1>1, LevelsAreLevels
  <1>3. MerkleRoot(s) = Head(l)
    BY LevelsByRounds
  <1> HIDE DEF l
  <1>4. Len(l) = 1
    BY <1>1, <1>2 DEF IsLevel
  <1>5. l \in Seq({l[i] : i \in 1..1}) /\ IsHash(l[1])
    BY <1>2, <1>4, LenOfFunction DEF IsLevel
  <1>6. Head(l) = l[1] /\ l = <<l[1]>>
    BY <1>4, <1>5
  <1> QED
    BY <1>3, <1>5, <1>6 DEF l

\* Distinct leaves are determined by their root, however many there are.
LEMMA RootsAreInjective ==
    ASSUME NEW S, NEW s \in Seq(S), NEW t \in Seq(S), Distinct(s), Distinct(t),
           MerkleRoot(s) = MerkleRoot(t)
    PROVE  s = t
  <1>1. ASSUME NEW u \in Seq(S), u = <<>> PROVE ~ IsHash(MerkleRoot(u))
    <2>1. MerkleRoot(u) = <<"empty">>
      BY <1>1, LevelsByRounds
    <2> QED
      BY <2>1 DEF IsHash
  <1>2. CASE s # <<>> /\ t # <<>>
    <2>1. Levels(s)[Len(s)] = Levels(t)[Len(t)]
      BY <1>2, RootIsOneHash
    <2>2. Len(s) \in Nat /\ Len(t) \in Nat
      OBVIOUS
    <2> QED
      BY <1>2, <2>1, <2>2, EqualLevels
  <1>3. s # <<>> => IsHash(MerkleRoot(s))
    BY RootIsOneHash
  <1>4. t # <<>> => IsHash(MerkleRoot(t))
    BY RootIsOneHash
  <1> QED
    BY <1>1, <1>2, <1>3, <1>4

\* Every id is at one place, that of its rank.
LEMMA IdsAreInOrder ==
    ASSUME NEW ids, ids \subseteq Nat, IsFiniteSet(ids)
    PROVE  LET order == IdsInOrder(ids)
           IN  /\ order \in Seq(Nat) /\ Distinct(order)
               /\ {order[k] : k \in DOMAIN order} = ids
  <1> DEFINE n == Cardinality(ids)
             Below(i) == {j \in ids : j < i}
             rank == [i \in ids |-> Cardinality(Below(i))]
             order == IdsInOrder(ids)
  <1>1. n \in Nat
    BY FS_CardinalityType
  <1>2. ASSUME NEW i \in ids PROVE IsFiniteSet(Below(i)) /\ rank[i] \in 0..n - 1
    <2>1. IsFiniteSet(Below(i)) /\ Cardinality(Below(i)) \in Nat
      BY FS_Subset, FS_CardinalityType
    <2>2. ~ (i < i)
      OBVIOUS
    <2>3. Cardinality(Below(i)) <= n /\ Cardinality(Below(i)) # n
      BY <2>2, FS_Subset
    <2> QED
      BY <1>1, <2>1, <2>3
  <1>3. ASSUME NEW i \in ids, NEW j \in ids, i < j PROVE rank[i] < rank[j]
    <2>1. Below(i) \subseteq Below(j) /\ i \in Below(j) /\ i \notin Below(i)
      <3>1. \A k \in ids : k < i => k < j
        BY <1>3
      <3>2. ~ (i < i)
        OBVIOUS
      <3> QED
        BY <1>3, <3>1, <3>2
    <2>2. IsFiniteSet(Below(i)) /\ IsFiniteSet(Below(j))
      BY <1>2
    <2>3. Cardinality(Below(i)) <= Cardinality(Below(j)) /\ Cardinality(Below(i)) # Cardinality(Below(j))
      BY <2>1, <2>2, FS_Subset
    <2>4. Cardinality(Below(i)) \in Nat /\ Cardinality(Below(j)) \in Nat
      BY <2>2, FS_CardinalityType
    <2> QED
      BY <2>3, <2>4
  <1>4. \A i, j \in ids : rank[i] = rank[j] => i = j
    <2>1. \A i, j \in ids : i < j \/ j < i \/ i = j
      OBVIOUS
    <2>2. \A i \in ids : rank[i] \in Nat
      BY <1>1, <1>2
    <2> HIDE DEF rank
    <2> QED
      BY <1>3, <2>1, <2>2
  <1>5. \A k \in 0..n - 1 : \E i \in ids : rank[i] = k
    <2>1. rank \in Injection(ids, 0..n - 1)
      <3>1. rank \in [ids -> 0..n - 1]
        <4>1. rank = [i \in ids |-> rank[i]]
          OBVIOUS
        <4> HIDE DEF rank
        <4> QED
          BY <1>2, <4>1
      <3> HIDE DEF rank
      <3> QED
        BY <1>4, <3>1 DEF Injection, IsInjective
    <2>2. IsFiniteSet(0..n - 1) /\ Cardinality(0..n - 1) = n
      <3> HIDE DEF n
      <3>1. 0 \in Int /\ n - 1 \in Int
        BY <1>1
      <3>2. IsFiniteSet(0..n - 1) /\ Cardinality(0..n - 1) = IF 0 > n - 1 THEN 0 ELSE (n - 1) - 0 + 1
        BY <3>1, FS_Interval
      <3> QED
        BY <1>1, <3>2
    <2> HIDE DEF rank
    <2>3. rank \in Surjection(ids, 0..n - 1)
      BY <2>1, <2>2, FS_Injection
    <2> QED
      BY <2>3 DEF Surjection
  <1>6. order = [k \in 1..n |-> CHOOSE i \in ids : Cardinality(Below(i)) = k - 1]
    BY DEF IdsInOrder
  <1> HIDE DEF order
  <1>7. ASSUME NEW k \in 1..n PROVE order[k] \in ids /\ rank[order[k]] = k - 1
    <2>1. k - 1 \in 0..n - 1
      BY <1>1
    <2>2. \E i \in ids : Cardinality(Below(i)) = k - 1
      BY <1>5, <2>1
    <2>3. order[k] = CHOOSE i \in ids : Cardinality(Below(i)) = k - 1
      BY <1>6
    <2> HIDE DEF Below
    <2> QED
      BY <2>2, <2>3
  <1>8. DOMAIN order = 1..n /\ order = [k \in 1..n |-> order[k]]
    <2> DEFINE at(k) == CHOOSE i \in ids : Cardinality(Below(i)) = k - 1
    <2>1. order = [k \in 1..n |-> at(k)]
      BY <1>6
    <2> HIDE DEF at, n
    <2> QED
      BY <2>1
  <1> HIDE DEF rank, n, Below
  <1>9. order \in Seq(Nat) /\ Len(order) = n
    <2>1. order \in [1..n -> Nat]
      BY <1>7, <1>8
    <2> QED
      BY <1>1, <2>1
  <1>10. Distinct(order)
    <2>1. ASSUME NEW k \in 1..n, NEW l \in 1..n, order[k] = order[l] PROVE k = l
      <3>1. k - 1 = l - 1
        BY <1>7, <2>1
      <3> QED
        BY <1>1, <3>1
    <2> QED
      BY <1>9, <2>1 DEF Distinct
  <1>11. ASSUME NEW i \in ids PROVE \E k \in 1..n : order[k] = i
    <2>1. rank[i] + 1 \in 1..n /\ (rank[i] + 1) - 1 = rank[i]
      BY <1>1, <1>2
    <2>2. order[rank[i] + 1] \in ids /\ rank[order[rank[i] + 1]] = rank[i]
      BY <1>7, <2>1
    <2> QED
      BY <1>4, <2>1, <2>2
  <1> QED
    BY <1>7, <1>8, <1>9, <1>10, <1>11 DEF order

\* merkleRoot tells any two sets of receipts apart.
LEMMA RootsTellIdsApart ==
    ASSUME NEW ids, NEW other, ids \subseteq Nat, other \subseteq Nat,
           IsFiniteSet(ids), IsFiniteSet(other),
           MerkleRoot(IdsInOrder(ids)) = MerkleRoot(IdsInOrder(other))
    PROVE  ids = other
  <1> DEFINE s == IdsInOrder(ids)
             t == IdsInOrder(other)
  <1>1. s \in Seq(Nat) /\ Distinct(s) /\ {s[k] : k \in DOMAIN s} = ids
    BY IdsAreInOrder
  <1>2. t \in Seq(Nat) /\ Distinct(t) /\ {t[k] : k \in DOMAIN t} = other
    BY IdsAreInOrder
  <1> HIDE DEF s, t
  <1>3. s = t
    BY <1>1, <1>2, RootsAreInjective DEF s, t
  <1> QED
    BY <1>1, <1>2, <1>3

LEMMA RootsAreAsManyAsSets ==
    ASSUME NEW n \in Nat
    PROVE  Cardinality({MerkleRoot(IdsInOrder(ids)) : ids \in SUBSET (1..n)}) = 2 ^ n
  <1> DEFINE D == SUBSET (1..n)
             root == [ids \in D |-> MerkleRoot(IdsInOrder(ids))]
             Roots == {MerkleRoot(IdsInOrder(ids)) : ids \in D}
  <1>1. IsFiniteSet(1..n) /\ Cardinality(1..n) = n
    <2>1. IsFiniteSet(1..n) /\ Cardinality(1..n) = IF 1 > n THEN 0 ELSE n - 1 + 1
      BY FS_Interval
    <2> QED
      BY <2>1
  <1>2. IsFiniteSet(D) /\ Cardinality(D) = 2 ^ n
    BY <1>1, FS_SUBSET
  <1>3. ASSUME NEW ids \in D PROVE ids \subseteq Nat /\ IsFiniteSet(ids)
    <2>1. 1..n \subseteq Nat
      OBVIOUS
    <2> QED
      BY <1>1, <2>1, FS_Subset
  <1>4. \A ids, other \in D : root[ids] = root[other] => ids = other
    BY <1>3, RootsTellIdsApart
  <1>5. root \in [D -> Roots] /\ \A r \in Roots : \E ids \in D : root[ids] = r
    OBVIOUS
  <1> HIDE DEF D, root, Roots
  <1>6. root \in Bijection(D, Roots)
    BY <1>4, <1>5 DEF Bijection, Injection, Surjection, IsInjective
  <1>7. Cardinality(Roots) = Cardinality(D)
    BY <1>2, <1>6, FS_Bijection DEF ExistsBijection
  <1> QED
    BY <1>2, <1>7 DEF D, Roots

-----------------------------------------------------------------------------
(* evaluateEvidencePolicy.                                                 *)

SourcesOf(seq, ids) == {seq[i].source : i \in ids}

LEMMA PolicyDecides ==
    ASSUME NEW seq, NEW a, NEW g, NEW now
    PROVE  LET considered == Considered(seq, a, g, now)
               accepted   == EvidenceIds(seq, considered)
               decision   == EvaluateEvidencePolicy(seq, a, g, now)
           IN  /\ decision.status \in {"ALLOW", "REVIEW_REQUIRED", "DENY"}
               /\ decision.status = "ALLOW" <=>
                     /\ a \notin ExcessiveActions
                     /\ Missing(seq, considered, RequiredClaims) = {}
                     /\ ~ (Cardinality(SourcesOf(seq, accepted)) < MinIndependentSources)
                     /\ Contradictions(seq, considered) = {}
                     /\ a \in ReviewActions =>
                           /\ ReviewRequiredClaims # {}
                           /\ Missing(seq, considered, ReviewRequiredClaims) = {}
               /\ decision.evidenceIds = accepted
               /\ decision.independentSources = Cardinality(SourcesOf(seq, accepted))
               /\ decision.requiredSources
                     = MinIndependentSources
                       + IF a \in ReviewActions THEN Cardinality(ReviewRequiredClaims) ELSE 0
               /\ decision.contradictionCount = Cardinality(Contradictions(seq, considered))
  <1> DEFINE considered == Considered(seq, a, g, now)
             accepted   == EvidenceIds(seq, considered)
             counted    == Cardinality(SourcesOf(seq, accepted))
             missing    == Missing(seq, considered, RequiredClaims)
             unreviewed == Missing(seq, considered, ReviewRequiredClaims)
             against    == Contradictions(seq, considered)
             needed     == MinIndependentSources
                           + IF a \in ReviewActions THEN Cardinality(ReviewRequiredClaims) ELSE 0
             root       == MerkleRoot(IdsInOrder(accepted))
             status     == IF \/ a \in ExcessiveActions
                              \/ missing # {} \/ counted < MinIndependentSources
                              \/ against # {}
                           THEN "DENY"
                           ELSE IF /\ a \in ReviewActions
                                   /\ ReviewRequiredClaims = {} \/ unreviewed # {}
                                THEN "REVIEW_REQUIRED" ELSE "ALLOW"
  <1>1. EvaluateEvidencePolicy(seq, a, g, now)
          = [status |-> status, evidenceIds |-> accepted, independentSources |-> counted,
             requiredSources |-> needed, contradictionCount |-> Cardinality(against),
             evidenceRoot |-> root]
    BY DEF EvaluateEvidencePolicy, SourcesOf
  <1> HIDE DEF considered, accepted, counted, missing, unreviewed, against, needed, root
  <1>2. /\ status \in {"ALLOW", "REVIEW_REQUIRED", "DENY"}
        /\ status = "ALLOW" <=>
              /\ a \notin ExcessiveActions
              /\ missing = {}
              /\ ~ (counted < MinIndependentSources)
              /\ against = {}
              /\ a \in ReviewActions => ReviewRequiredClaims # {} /\ unreviewed = {}
    OBVIOUS
  <1> HIDE DEF status
  <1>3. LET decision == EvaluateEvidencePolicy(seq, a, g, now)
        IN  /\ decision.status = status
            /\ decision.evidenceIds = accepted
            /\ decision.independentSources = counted
            /\ decision.requiredSources = needed
            /\ decision.contradictionCount = Cardinality(against)
    BY <1>1
  <1> QED
    BY <1>2, <1>3 DEF considered, accepted, counted, missing, unreviewed, against, needed

Roles == RequiredSources \cup ReviewSources

\* A source of the policy is named by its class, so that a receipt that answers the
\* claim of a source is a receipt of that source.
LEMMA AnswersNameSources ==
    ASSUME NEW receipt, receipt.source \in Sources, ClassOf[receipt.source] # SelfDeclared,
           NEW s \in Roles
    PROVE  Answers(receipt, [claimType |-> ClaimOf[s], sourceClass |-> ClassOf[s]])
             <=> receipt.source = s
  <1>1. receipt.source \in Roles
    BY PolicyAssumption DEF Roles
  <1>2. ClassOf[receipt.source] = ClassOf[s] => receipt.source = s
    BY <1>1, PolicyAssumption DEF Roles
  <1> QED
    BY <1>2 DEF Answers

LEMMA ClaimsAreMet ==
    ASSUME NEW seq, \A i \in DOMAIN seq : seq[i].source \in Sources,
           NEW a, NEW g, NEW now, NEW roles \in SUBSET Roles
    PROVE  LET considered == Considered(seq, a, g, now)
               Met(s)     == \E i \in considered : seq[i].source = s /\ seq[i].consistent
           IN  /\ Missing(seq, considered, ClaimsOf(roles)) = {} <=> \A s \in roles : Met(s)
               /\ \A i \in Matching(seq, considered, ClaimsOf(roles)) : seq[i].source \in roles
               /\ \A s \in roles : Met(s) =>
                     s \in SourcesOf(seq, Matching(seq, considered, ClaimsOf(roles)))
  <1> DEFINE considered == Considered(seq, a, g, now)
             Met(s)     == \E i \in considered : seq[i].source = s /\ seq[i].consistent
             Claim(s)   == [claimType |-> ClaimOf[s], sourceClass |-> ClassOf[s]]
             claims     == ClaimsOf(roles)
  <1>1. \A i \in considered : \A s \in roles : Answers(seq[i], Claim(s)) <=> seq[i].source = s
    <2> SUFFICES ASSUME NEW i \in considered, NEW s \in roles
                 PROVE  Answers(seq[i], Claim(s)) <=> seq[i].source = s
      OBVIOUS
    <2>1. seq[i].source \in Sources /\ ClassOf[seq[i].source] # SelfDeclared
      BY DEF Considered, Verified
    <2> QED
      BY <2>1, AnswersNameSources
  <1>2. claims = {Claim(s) : s \in roles}
    BY DEF ClaimsOf
  <1> HIDE DEF considered, Claim, claims
  <1>3. Missing(seq, considered, claims) = {} <=> \A s \in roles : Met(s)
    <2>1. Missing(seq, considered, claims) = {} <=>
            \A s \in roles : ~ \A i \in considered : Answers(seq[i], Claim(s))
                                                     => ~ seq[i].consistent
      BY <1>2 DEF Missing
    <2> QED
      BY <2>1, <1>1
  <1>4. Matching(seq, considered, claims)
          = {i \in considered : seq[i].source \in roles /\ seq[i].consistent}
    BY <1>1, <1>2 DEF Matching
  <1>5. \A s \in roles : Met(s) => s \in SourcesOf(seq, Matching(seq, considered, claims))
    BY <1>4 DEF SourcesOf
  <1> QED
    BY <1>3, <1>4, <1>5 DEF considered, claims

LEMMA SourcesAreFinite ==
    /\ IsFiniteSet(RequiredSources) /\ IsFiniteSet(ReviewSources)
    /\ IsFiniteSet(ReviewRequiredClaims)
    /\ MinIndependentSources \in Nat /\ Cardinality(ReviewRequiredClaims) \in Nat
    /\ Cardinality(ReviewRequiredClaims) <= Cardinality(ReviewSources)
    /\ Cardinality(Roles) = MinIndependentSources + Cardinality(ReviewSources)
  <1>1. IsFiniteSet(RequiredSources) /\ IsFiniteSet(ReviewSources)
    BY PolicyAssumption, FS_Subset
  <1>2. MinIndependentSources \in Nat /\ Cardinality(ReviewSources) \in Nat
    BY <1>1, FS_CardinalityType DEF MinIndependentSources
  <1> DEFINE Claim(s) == [claimType |-> ClaimOf[s], sourceClass |-> ClassOf[s]]
             f == [s \in ReviewSources |-> Claim(s)]
  <1>3. f \in Surjection(ReviewSources, ReviewRequiredClaims)
    <2>1. ReviewRequiredClaims = {Claim(s) : s \in ReviewSources}
      BY DEF ReviewRequiredClaims, ClaimsOf
    <2> HIDE DEF Claim
    <2> QED
      BY <2>1 DEF Surjection
  <1>4. IsFiniteSet(ReviewRequiredClaims)
        /\ Cardinality(ReviewRequiredClaims) <= Cardinality(ReviewSources)
    BY <1>1, <1>3, FS_Surjection
  <1>5. Cardinality(ReviewRequiredClaims) \in Nat
    BY <1>4, FS_CardinalityType
  <1>6. Cardinality(Roles) = MinIndependentSources + Cardinality(ReviewSources)
    <2>1. Cardinality(Roles) = Cardinality(RequiredSources) + Cardinality(ReviewSources)
                               - Cardinality(RequiredSources \cap ReviewSources)
      BY <1>1, FS_Union DEF Roles
    <2>2. Cardinality(RequiredSources \cap ReviewSources) = 0
      BY PolicyAssumption, FS_EmptySet
    <2> QED
      BY <2>1, <2>2, <1>2 DEF MinIndependentSources
  <1> QED
    BY <1>1, <1>2, <1>4, <1>5, <1>6

\* The roles whose sources an action needs.
Needed(a) == RequiredSources \cup IF a \in ReviewActions THEN ReviewSources ELSE {}

\* Sources that are met are counted, each once.
LEMMA EnoughSources ==
    ASSUME NEW seq, \A i \in DOMAIN seq : seq[i].source \in Sources,
           NEW a, NEW g, NEW now,
           \A s \in Needed(a) : \E i \in Considered(seq, a, g, now) :
                                   seq[i].source = s /\ seq[i].consistent
    PROVE  LET decision == EvaluateEvidencePolicy(seq, a, g, now)
           IN  /\ decision.independentSources >= decision.requiredSources
               /\ ~ (Cardinality(SourcesOf(seq, EvidenceIds(seq, Considered(seq, a, g, now))))
                       < MinIndependentSources)
  <1> DEFINE considered == Considered(seq, a, g, now)
             accepted   == EvidenceIds(seq, considered)
             sources    == SourcesOf(seq, accepted)
  <1>1. accepted = Matching(seq, considered, ClaimsOf(Roles))
    <2>1. RequiredClaims \cup ReviewRequiredClaims = ClaimsOf(Roles)
      BY DEF RequiredClaims, ReviewRequiredClaims, ClaimsOf, Roles
    <2> QED
      BY <2>1 DEF EvidenceIds
  <1>2. Needed(a) \subseteq sources /\ sources \subseteq Roles
    <2>1. Needed(a) \subseteq Roles
      BY DEF Needed, Roles
    <2>2. /\ \A i \in Matching(seq, considered, ClaimsOf(Roles)) : seq[i].source \in Roles
          /\ \A s \in Roles :
                (\E i \in considered : seq[i].source = s /\ seq[i].consistent)
                => s \in SourcesOf(seq, Matching(seq, considered, ClaimsOf(Roles)))
      BY ClaimsAreMet
    <2> HIDE DEF considered
    <2>3. sources \subseteq Roles
      BY <1>1, <2>2 DEF SourcesOf
    <2>4. \A s \in Needed(a) : \E i \in considered : seq[i].source = s /\ seq[i].consistent
      BY DEF considered
    <2> QED
      BY <2>1, <2>2, <2>3, <2>4, <1>1
  <1>3. IsFiniteSet(Roles) /\ IsFiniteSet(sources) /\ IsFiniteSet(Needed(a))
    <2>1. IsFiniteSet(Roles)
      BY SourcesAreFinite, FS_Union DEF Roles
    <2>2. IsFiniteSet(sources)
      BY <2>1, <1>2, FS_Subset
    <2> QED
      BY <2>1, <2>2, <1>2, FS_Subset
  <1>4. /\ Cardinality(sources) \in Nat /\ Cardinality(Needed(a)) \in Nat
        /\ Cardinality(Needed(a)) <= Cardinality(sources)
    <2> HIDE DEF sources
    <2> QED
      BY <1>2, <1>3, FS_CardinalityType, FS_Subset
  <1>5. Cardinality(Needed(a)) = MinIndependentSources
          + IF a \in ReviewActions THEN Cardinality(ReviewSources) ELSE 0
    <2>1. CASE a \in ReviewActions
      <3>1. Needed(a) = Roles
        BY <2>1 DEF Needed, Roles
      <3> QED
        BY <2>1, <3>1, SourcesAreFinite
    <2>2. CASE a \notin ReviewActions
      <3>1. Needed(a) = RequiredSources
        BY <2>2 DEF Needed
      <3> QED
        BY <2>2, <3>1, SourcesAreFinite DEF MinIndependentSources
    <2> QED
      BY <2>1, <2>2
  <1>6. Cardinality(ReviewSources) \in Nat
    BY SourcesAreFinite, FS_CardinalityType
  <1>7. /\ EvaluateEvidencePolicy(seq, a, g, now).independentSources = Cardinality(sources)
        /\ EvaluateEvidencePolicy(seq, a, g, now).requiredSources = MinIndependentSources
             + IF a \in ReviewActions THEN Cardinality(ReviewRequiredClaims) ELSE 0
    BY PolicyDecides
  <1> HIDE DEF sources
  <1>8. /\ Cardinality(sources) >= MinIndependentSources
             + IF a \in ReviewActions THEN Cardinality(ReviewRequiredClaims) ELSE 0
        /\ ~ (Cardinality(sources) < MinIndependentSources)
    BY <1>4, <1>5, <1>6, SourcesAreFinite
  <1> QED
    BY <1>7, <1>8 DEF sources

\* The decision, by the receipts it considers.
LEMMA AllowByReceipts ==
    ASSUME NEW seq, \A i \in DOMAIN seq : seq[i].source \in Sources,
           NEW a, NEW g, NEW now
    PROVE  LET considered == Considered(seq, a, g, now)
           IN  EvaluateEvidencePolicy(seq, a, g, now).status = "ALLOW" <=>
                 /\ a \notin ExcessiveActions
                 /\ a \in ReviewActions => ReviewSources # {}
                 /\ \A s \in Needed(a) : \E i \in considered : seq[i].source = s
                                                               /\ seq[i].consistent
                 /\ \A i \in considered : seq[i].consistent
  <1> DEFINE considered == Considered(seq, a, g, now)
             Met(s)     == \E i \in considered : seq[i].source = s /\ seq[i].consistent
             few        == Cardinality(SourcesOf(seq, EvidenceIds(seq, considered)))
                             < MinIndependentSources
             missing    == Missing(seq, considered, RequiredClaims)
             unreviewed == Missing(seq, considered, ReviewRequiredClaims)
             allow      == EvaluateEvidencePolicy(seq, a, g, now).status = "ALLOW"
  <1>1. allow <=>
          /\ a \notin ExcessiveActions /\ missing = {} /\ ~few
          /\ Contradictions(seq, considered) = {}
          /\ a \in ReviewActions => ReviewRequiredClaims # {} /\ unreviewed = {}
    BY PolicyDecides
  <1>2. (missing = {} <=> \A s \in RequiredSources : Met(s))
        /\ (unreviewed = {} <=> \A s \in ReviewSources : Met(s))
    <2>1. RequiredSources \in SUBSET Roles /\ ReviewSources \in SUBSET Roles
      BY DEF Roles
    <2>2. Missing(seq, considered, ClaimsOf(RequiredSources)) = {}
            <=> \A s \in RequiredSources : Met(s)
      BY <2>1, ClaimsAreMet
    <2>3. Missing(seq, considered, ClaimsOf(ReviewSources)) = {}
            <=> \A s \in ReviewSources : Met(s)
      BY <2>1, ClaimsAreMet
    <2> QED
      BY <2>2, <2>3 DEF RequiredClaims, ReviewRequiredClaims
  <1>3. ReviewRequiredClaims # {} <=> ReviewSources # {}
    BY DEF ReviewRequiredClaims, ClaimsOf
  <1>4. Contradictions(seq, considered) = {} <=> \A i \in considered : seq[i].consistent
    <2> HIDE DEF considered
    <2> DEFINE against == {seq[i].source : i \in {j \in considered : ~seq[j].consistent}}
    <2>1. against = {} <=> \A i \in considered : seq[i].consistent
      OBVIOUS
    <2>2. Contradictions(seq, considered) = against \X {"status", "value"}
      BY DEF Contradictions
    <2> HIDE DEF against
    <2>3. against = {} => against \X {"status", "value"} = {}
      OBVIOUS
    <2>4. ASSUME NEW s \in against PROVE against \X {"status", "value"} # {}
      <3>1. <<s, "status">> \in against \X {"status", "value"}
        OBVIOUS
      <3> QED
        BY <3>1
    <2> QED
      BY <2>1, <2>2, <2>3, <2>4
  <1>5. (\A s \in Needed(a) : Met(s)) => ~few
    BY EnoughSources
  <1>6. (\A s \in Needed(a) : Met(s)) <=>
          /\ \A s \in RequiredSources : Met(s)
          /\ a \in ReviewActions => \A s \in ReviewSources : Met(s)
    <2> HIDE DEF considered, Met
    <2> QED
      BY DEF Needed
  <1> HIDE DEF considered, Met, few, missing, unreviewed, allow
  <1>7. allow <=> /\ a \notin ExcessiveActions
                  /\ a \in ReviewActions => ReviewSources # {}
                  /\ \A s \in Needed(a) : Met(s)
                  /\ \A i \in considered : seq[i].consistent
    BY <1>1, <1>2, <1>3, <1>4, <1>5, <1>6
  <1> QED
    BY <1>7 DEF allow, Met, considered

\* What the types of the receipts and their makers add: a receipt is considered when
\* it is in force.
LEMMA ConsideredIsInForce ==
    ASSUME EvidenceTypeOK, ReceiptsAreAttributed, NEW a, NEW i \in DOMAIN evidence
    PROVE  i \in Considered(evidence, a, generation, clock) <=> InForce(i, a)
  <1>1. evidence[i] \in Receipt /\ clock \in Int /\ generation \in Nat /\ generation # 0
    BY IntakeAssumption DEF EvidenceTypeOK, Generation
  <1>2. evidence[i].observedAt \in Int /\ evidence[i].expiresAt \in Int
    BY <1>1 DEF Receipt, Time
  <1>3. evidence[i].signedBy = generation => ClassOf[evidence[i].source] # SelfDeclared
    BY <1>1 DEF ReceiptsAreAttributed, Attributed
  <1>4. IsFresh(evidence[i], clock) <=>
          /\ clock \in evidence[i].observedAt..evidence[i].expiresAt
          /\ clock - evidence[i].observedAt <= MaxAge
    BY <1>1, <1>2, PolicyAssumption DEF IsFresh
  <1> QED
    BY <1>3, <1>4 DEF Considered, Verified, VerifyEvidenceReceipt, InForce

LEMMA TypedReceipts ==
    ASSUME EvidenceTypeOK
    PROVE  /\ clock \in Int /\ clock \in 0..MaxTime /\ generation \in Nat \ {0}
           /\ \A i \in DOMAIN evidence :
                 /\ evidence[i] \in Receipt
                 /\ evidence[i].source \in Sources /\ evidence[i].action \in Actions
                 /\ evidence[i].observedAt \in Int /\ evidence[i].expiresAt \in Int
  <1>1. /\ clock \in 0..MaxTime /\ generation \in Generation
        /\ \A i \in DOMAIN evidence : evidence[i] \in Receipt
    BY DEF EvidenceTypeOK
  <1>2. ASSUME NEW receipt \in Receipt
        PROVE  /\ receipt.source \in Sources /\ receipt.action \in Actions
               /\ receipt.observedAt \in Int /\ receipt.expiresAt \in Int
    <2>1. Time \subseteq Int
      BY DEF Time
    <2> QED
      BY <2>1 DEF Receipt
  <1> QED
    BY <1>1, <1>2 DEF Generation

LEMMA AllowJustified ==
    ASSUME EvidenceTypeOK, ReceiptsAreAttributed
    PROVE  AllowIsJustified
  <1> SUFFICES ASSUME NEW a \in Actions
               PROVE  Decision(a).status = "ALLOW" <=>
                        /\ a \notin ExcessiveActions
                        /\ a \in ReviewActions => ReviewSources # {}
                        /\ \A s \in Needed(a) : Testifies(s, a)
                        /\ \A i \in DOMAIN evidence : InForce(i, a) => evidence[i].consistent
    BY DEF AllowIsJustified, Needed
  <1> DEFINE considered == Considered(evidence, a, generation, clock)
             Met(s)     == \E i \in considered : evidence[i].source = s /\ evidence[i].consistent
  <1>1. Decision(a).status = "ALLOW" <=>
          /\ a \notin ExcessiveActions
          /\ a \in ReviewActions => ReviewSources # {}
          /\ \A s \in Needed(a) : Met(s)
          /\ \A i \in considered : evidence[i].consistent
    BY TypedReceipts, AllowByReceipts DEF Decision
  <1>2. \A i : i \in considered <=> i \in DOMAIN evidence /\ InForce(i, a)
    BY ConsideredIsInForce DEF Considered
  <1> HIDE DEF considered
  <1>3. \A s : Met(s) <=> Testifies(s, a)
    BY <1>2 DEF Testifies, ReceiptsAreAttributed, Attributed
  <1> QED
    BY <1>1, <1>2, <1>3

LEMMA AllowPasses ==
    ASSUME EvidenceTypeOK
    PROVE  AllowPassesContract
  <1> SUFFICES ASSUME NEW a \in Actions, Decision(a).status = "ALLOW"
               PROVE  /\ Decision(a).independentSources >= Decision(a).requiredSources
                      /\ Decision(a).contradictionCount = 0
    BY DEF AllowPassesContract
  <1> DEFINE considered == Considered(evidence, a, generation, clock)
  <1>1. \A s \in Needed(a) : \E i \in considered : evidence[i].source = s
                                                   /\ evidence[i].consistent
    BY TypedReceipts, AllowByReceipts DEF Decision
  <1>2. Decision(a).independentSources >= Decision(a).requiredSources
    BY <1>1, TypedReceipts, EnoughSources DEF Decision
  <1>3. /\ Contradictions(evidence, considered) = {}
        /\ Decision(a).contradictionCount = Cardinality(Contradictions(evidence, considered))
    BY PolicyDecides DEF Decision
  <1> QED
    BY <1>2, <1>3, FS_EmptySet

-----------------------------------------------------------------------------
(* Receipts that come in.                                                  *)

LEMMA Constants ==
    /\ Skew \in Nat /\ Validity \in Nat /\ MaxTime \in Nat /\ MaxChanges \in Nat
    /\ DeliveriesKept \in Nat \ {0} /\ MaxGenerations \in Nat \ {0} /\ MaxAge \in Nat \ {0}
    /\ UserSource \in Sources /\ ClassOf[UserSource] = SelfDeclared
    /\ ApprovalSource # UserSource
    /\ ApprovalSource \in Sources => ClassOf[ApprovalSource] # SelfDeclared
    /\ DefaultAction \in Actions
  <1>1. UserSource \in Sources /\ ClassOf[UserSource] = SelfDeclared
    BY IntakeAssumption
  <1>2. ApprovalSource \in Sources => ClassOf[ApprovalSource] # SelfDeclared
    BY IntakeAssumption, PolicyAssumption
  <1>3. ApprovalSource # UserSource
    BY <1>1, <1>2
  <1> QED
    BY <1>1, <1>2, <1>3, IntakeAssumption, PolicyAssumption

\* Where verify-ci gets past its checks, CI is an origin of the scenario.
LEMMA CiIsAnOrigin ==
    ASSUME Callers # {}
    PROVE  CiSource \in Sources /\ ClassOf[CiSource] # SelfDeclared /\ ApprovalSource # CiSource
  <1>1. CiSource \in RequiredSources /\ CiSource \in Sources
    BY IntakeAssumption, PolicyAssumption
  <1>2. ClassOf[CiSource] # SelfDeclared
    BY <1>1, PolicyAssumption
  <1>3. ApprovalSource # CiSource
    BY <1>1, IntakeAssumption, PolicyAssumption
  <1> QED
    BY <1>1, <1>2, <1>3

LEMMA SettingTyped ==
    ASSUME EvidenceTypeOK
    PROVE  /\ setting \in Settings
           /\ setting.sources \subseteq Sources /\ setting.subjects \subseteq Actions
           /\ setting.callers \subseteq Callers /\ setting.deliveryIds \subseteq DeliveryIds
           /\ setting.receipts \in Nat
  BY IntakeAssumption DEF EvidenceTypeOK

\* What a receipt needs to come in: its type, its maker, and for one of the App that
\* no other could be reused.
Admissible(receipt) ==
    /\ receipt \in Receipt
    /\ Attributed(receipt)
    /\ receipt.provider = "github-actions" => ReusableCi(receipt.action) = {}

LEMMA StoreAppends ==
    ASSUME evidence \in Seq(Receipt), readable \subseteq DOMAIN evidence, setting.receipts \in Nat,
           NEW new \in Seq(Receipt), Store(new)
    PROVE  /\ evidence' \in Seq(Receipt) /\ Len(evidence') <= setting.receipts
           /\ Len(evidence') = Len(evidence) + Len(new)
           /\ readable' \subseteq DOMAIN evidence'
           /\ \A i \in DOMAIN evidence : /\ i \in DOMAIN evidence' /\ evidence'[i] = evidence[i]
                                         /\ i \in readable' => i \in readable
           /\ \A i \in DOMAIN evidence' : i \notin DOMAIN evidence =>
                 i - Len(evidence) \in DOMAIN new /\ evidence'[i] = new[i - Len(evidence)]
  <1>1. /\ evidence' = evidence \o new
        /\ readable' = readable \cup {Len(evidence) + k : k \in DOMAIN new}
        /\ Len(evidence) + Len(new) <= setting.receipts
    BY DEF Store
  <1>2. evidence' \in Seq(Receipt) /\ Len(evidence') = Len(evidence) + Len(new)
    BY <1>1
  <1>3. /\ DOMAIN evidence = 1..Len(evidence) /\ DOMAIN new = 1..Len(new)
        /\ DOMAIN evidence' = 1..(Len(evidence) + Len(new))
        /\ Len(evidence) \in Nat /\ Len(new) \in Nat
    BY <1>2
  <1>4. \A i \in DOMAIN evidence : i \in DOMAIN evidence' /\ evidence'[i] = evidence[i]
    BY <1>1, <1>3
  <1>5. \A k \in DOMAIN new : /\ Len(evidence) + k \in DOMAIN evidence'
                              /\ Len(evidence) + k \notin DOMAIN evidence
    BY <1>3
  <1>6. readable' \subseteq DOMAIN evidence'
    BY <1>1, <1>4, <1>5
  <1>7. \A i \in DOMAIN evidence : i \in readable' => i \in readable
    BY <1>1, <1>5
  <1>8. ASSUME NEW i \in DOMAIN evidence', i \notin DOMAIN evidence
        PROVE  i - Len(evidence) \in DOMAIN new /\ evidence'[i] = new[i - Len(evidence)]
    BY <1>1, <1>3, <1>8
  <1> QED
    BY <1>1, <1>2, <1>4, <1>6, <1>7, <1>8

\* Admissible receipts may come in, one of the App alone.
LEMMA StorePreserves ==
    ASSUME IntakeInv, NEW new \in Seq(Receipt), Store(new),
           \A k \in DOMAIN new : Admissible(new[k]),
           Len(new) > 1 => \A k \in DOMAIN new : new[k].provider # "github-actions",
           UNCHANGED <<setting, clock, generation, history>>
    PROVE  /\ evidence' \in Seq(Receipt) /\ Len(evidence') <= setting'.receipts
           /\ readable' \subseteq DOMAIN evidence'
           /\ ReceiptsAreAttributed' /\ OneCiReceiptPerAction'
           /\ \A a \in Actions : evaluating'[a] = evaluating[a] => RestsOnItsAction(a)'
  <1>1. /\ evidence \in Seq(Receipt) /\ readable \subseteq DOMAIN evidence
        /\ setting.receipts \in Nat /\ EvidenceTypeOK
    BY SettingTyped DEF IntakeInv, EvidenceTypeOK
  <1>2. /\ evidence' \in Seq(Receipt) /\ Len(evidence') <= setting.receipts
        /\ Len(evidence') = Len(evidence) + Len(new)
        /\ readable' \subseteq DOMAIN evidence'
        /\ \A i \in DOMAIN evidence : /\ i \in DOMAIN evidence' /\ evidence'[i] = evidence[i]
                                      /\ i \in readable' => i \in readable
        /\ \A i \in DOMAIN evidence' : i \notin DOMAIN evidence =>
              i - Len(evidence) \in DOMAIN new /\ evidence'[i] = new[i - Len(evidence)]
    BY <1>1, StoreAppends
  <1>3. \A receipt : Attributed(receipt)' <=> Attributed(receipt)
    BY DEF Attributed, Observed
  <1>4. ReceiptsAreAttributed'
    <2>1. ASSUME NEW i \in DOMAIN evidence' PROVE Attributed(evidence'[i])
      <3>1. CASE i \in DOMAIN evidence
        BY <3>1, <1>2 DEF IntakeInv, ReceiptsAreAttributed
      <3>2. CASE i \notin DOMAIN evidence
        BY <3>2, <1>2 DEF Admissible
      <3> QED
        BY <3>1, <3>2
    <2> QED
      BY <2>1, <1>3 DEF ReceiptsAreAttributed
  <1>5. OneCiReceiptPerAction'
    <2> SUFFICES ASSUME NEW i \in DOMAIN evidence', NEW j \in DOMAIN evidence', i < j,
                        evidence'[i].source = CiSource,
                        evidence'[j].provider = "github-actions",
                        evidence'[i].action = evidence'[j].action,
                        evidence'[i].signedBy = generation
                 PROVE  evidence'[i].expiresAt < clock
      BY DEF OneCiReceiptPerAction
    <2>1. i \in 1..Len(evidence') /\ j \in 1..Len(evidence')
          /\ Len(evidence) \in Nat /\ Len(new) \in Nat /\ DOMAIN evidence = 1..Len(evidence)
      BY <1>1, <1>2
    <2>2. CASE j \in DOMAIN evidence
      <3>1. i \in DOMAIN evidence
        BY <2>1, <2>2
      <3>2. evidence'[i] = evidence[i] /\ evidence'[j] = evidence[j]
        BY <3>1, <2>2, <1>2
      <3>3. evidence[i].expiresAt < clock
        BY <3>1, <3>2, <2>2 DEF IntakeInv, OneCiReceiptPerAction
      <3> QED
        BY <3>2, <3>3
    <2>3. CASE j \notin DOMAIN evidence
      <3>1. j - Len(evidence) \in DOMAIN new /\ evidence'[j] = new[j - Len(evidence)]
        BY <2>3, <1>2
      <3>2. Len(new) = 1
        <4>1. ~ (Len(new) > 1)
          BY <3>1
        <4>2. DOMAIN new = 1..Len(new)
          OBVIOUS
        <4> QED
          BY <3>1, <4>1, <4>2, <2>1
      <3>3. i \in DOMAIN evidence
        BY <3>2, <2>1, <1>2
      <3>4. ReusableCi(evidence'[j].action) = {}
        BY <3>1 DEF Admissible
      <3>5. ~ (evidence[i].expiresAt >= clock)
        BY <3>3, <3>4, <1>2 DEF ReusableCi, VerifyEvidenceReceipt
      <3>6. evidence[i].expiresAt \in Int /\ clock \in Int
        BY <3>3, <1>1, TypedReceipts
      <3> QED
        BY <3>3, <3>5, <3>6, <1>2
    <2> QED
      BY <2>2, <2>3
  <1>6. ASSUME NEW a \in Actions, evaluating'[a] = evaluating[a] PROVE RestsOnItsAction(a)'
    <2>1. RestsOnItsAction(a)
      BY DEF IntakeInv, EvaluationsRest
    <2> QED
      BY <2>1, <1>2, <1>6 DEF RestsOnItsAction
  <1> QED
    BY <1>2, <1>4, <1>5, <1>6

-----------------------------------------------------------------------------
(* What the steps keep.                                                    *)

\* Each part of the invariant stays true while what it is about stays.
LEMMA Unmoved ==
    ASSUME IntakeInv
    PROVE  /\ UNCHANGED <<verifying, history>> => Calls'
           /\ UNCHANGED <<runs, history>> => Remembered'
           /\ UNCHANGED <<evidence, history>> => ReceiptsAreAttributed'
           /\ UNCHANGED <<evidence, generation, clock>> => OneCiReceiptPerAction'
           /\ \A a \in Actions :
                 (/\ UNCHANGED <<evidence, generation>> /\ readable' \subseteq readable
                  /\ evaluating'[a] = evaluating[a])
                 => RestsOnItsAction(a)'
  <1>1. UNCHANGED <<verifying, history>> => Calls'
    BY DEF IntakeInv, Calls, Observed
  <1>2. UNCHANGED <<runs, history>> => Remembered'
    BY DEF IntakeInv, Remembered
  <1>3. UNCHANGED <<evidence, history>> => ReceiptsAreAttributed'
    BY DEF IntakeInv, ReceiptsAreAttributed, Attributed, Observed
  <1>4. UNCHANGED <<evidence, generation, clock>> => OneCiReceiptPerAction'
    BY DEF IntakeInv, OneCiReceiptPerAction
  <1>5. ASSUME NEW a \in Actions, UNCHANGED <<evidence, generation>>,
               readable' \subseteq readable, evaluating'[a] = evaluating[a]
        PROVE  RestsOnItsAction(a)'
    <2>1. RestsOnItsAction(a)
      BY DEF IntakeInv, EvaluationsRest
    <2> QED
      BY <2>1, <1>5 DEF RestsOnItsAction
  <1> QED
    BY <1>1, <1>2, <1>3, <1>4, <1>5

\* A request that only stores receipts, and may name its action or end its review.
LEMMA StoringPreserves ==
    ASSUME IntakeInv, NEW new \in Seq(Receipt), Store(new),
           \A k \in DOMAIN new : Admissible(new[k]),
           Len(new) > 1 => \A k \in DOMAIN new : new[k].provider # "github-actions",
           defaultAction' \in Actions, awaiting' \in [Actions -> 0..(MaxTime + Validity)],
           evaluating' \in [Actions -> Evaluation],
           \A a \in Actions : evaluating'[a] = evaluating[a] \/ RestsOnItsAction(a)',
           verifying' \in [Callers -> Verification], Calls',
           UNCHANGED <<setting, clock, generation, deliveries, github>>
    PROVE  IntakeInv'
  <1>1. UNCHANGED <<setting, clock, generation, history>>
    BY DEF github
  <1>2. /\ evidence' \in Seq(Receipt) /\ Len(evidence') <= setting'.receipts
        /\ readable' \subseteq DOMAIN evidence'
        /\ ReceiptsAreAttributed' /\ OneCiReceiptPerAction'
        /\ \A a \in Actions : evaluating'[a] = evaluating[a] => RestsOnItsAction(a)'
    BY <1>1, StorePreserves
  <1>3. EvidenceTypeOK'
    <2> HIDE DEF Receipt, Time, Conclusions, Verification, Evaluation
    <2> QED
      BY <1>2 DEF IntakeInv, EvidenceTypeOK, github
  <1>4. EvaluationsRest'
    BY <1>2 DEF EvaluationsRest
  <1>5. Remembered'
    BY Unmoved DEF github
  <1> QED
    BY <1>2, <1>3, <1>4, <1>5 DEF IntakeInv

LEMMA TimeHolds ==
    ASSUME NEW t \in Int, 0 <= t, t <= MaxTime + Skew + Validity + MaxAge
    PROVE  t \in Time
  BY Constants DEF Time

LEMMA SignedIsAdmissible ==
    ASSUME IntakeInv, NEW a \in Actions, NEW s \in Collectable, NEW consistent \in BOOLEAN,
           NEW key \in 1..generation
    PROVE  Admissible(SignedEvidence(s, a, consistent, key))
  <1>1. /\ s \in Sources /\ ClassOf[s] # SelfDeclared /\ s # ApprovalSource
        /\ clock \in 0..MaxTime /\ generation \in 1..MaxGenerations
    BY TypedReceipts DEF Collectable, IntakeInv, EvidenceTypeOK, Generation
  <1>2. clock \in Time /\ clock + MaxAge \in Time /\ key \in 0..MaxGenerations
    BY <1>1, Constants DEF Time
  <1> QED
    BY <1>1, <1>2 DEF SignedEvidence, Admissible, Receipt, Attributed

\* The requests that store one receipt.
LEMMA StoringOnePreserves ==
    ASSUME IntakeInv, NEW receipt, Admissible(receipt), Store(<<receipt>>),
           defaultAction' \in Actions, awaiting' \in [Actions -> 0..(MaxTime + Validity)],
           verifying' \in [Callers -> Verification], Calls',
           UNCHANGED <<setting, clock, generation, deliveries, evaluating, github>>
    PROVE  IntakeInv'
  <1> DEFINE new == <<receipt>>
  <1>1. new \in Seq(Receipt) /\ Len(new) = 1 /\ \A k \in DOMAIN new : Admissible(new[k])
    BY DEF Admissible
  <1>2. Store(new)
    OBVIOUS
  <1> HIDE DEF new
  <1>3. /\ evaluating' \in [Actions -> Evaluation]
        /\ \A b \in Actions : evaluating'[b] = evaluating[b] \/ RestsOnItsAction(b)'
        /\ UNCHANGED <<setting, clock, generation, deliveries, github>>
    BY DEF IntakeInv, EvidenceTypeOK
  <1>4. Len(new) > 1 => \A k \in DOMAIN new : new[k].provider # "github-actions"
    BY <1>1
  <1> QED
    BY <1>1, <1>2, <1>3, <1>4, StoringPreserves

LEMMA CollectPreserves ==
    ASSUME IntakeInv, NEW a \in setting.subjects, NEW s, NEW consistent \in BOOLEAN,
           NEW key \in 1..generation, Collect(a, s, consistent, key)
    PROVE  IntakeInv'
  <1>1. a \in Actions
    BY SettingTyped DEF IntakeInv
  <1>2. Admissible(SignedEvidence(s, a, consistent, key))
    BY <1>1, SignedIsAdmissible DEF Collect
  <1>3. Calls'
    BY Unmoved DEF Collect, github
  <1>4. /\ defaultAction' \in Actions /\ awaiting' \in [Actions -> 0..(MaxTime + Validity)]
        /\ verifying' \in [Callers -> Verification]
    BY <1>1 DEF Collect, IntakeInv, EvidenceTypeOK
  <1> QED
    BY <1>2, <1>3, <1>4, StoringOnePreserves DEF Collect

LEMMA SelfDeclarePreserves ==
    ASSUME IntakeInv, NEW a \in setting.subjects, SelfDeclare(a)
    PROVE  IntakeInv'
  <1> DEFINE receipt == [source |-> UserSource, action |-> a, observedAt |-> clock,
                         expiresAt |-> clock + MaxAge, consistent |-> TRUE, signedBy |-> 0,
                         provider |-> "user"]
  <1>1. a \in Actions
    BY SettingTyped DEF IntakeInv
  <1>2. Admissible(receipt)
    <2>1. clock \in Time /\ clock + MaxAge \in Time /\ 0 \in 0..MaxGenerations
      BY TypedReceipts, Constants DEF IntakeInv, Time
    <2>2. receipt \in Receipt
      BY <1>1, <2>1, Constants DEF Receipt
    <2> QED
      BY <2>2, Constants DEF Admissible, Attributed
  <1>3. Store(<<receipt>>)
    BY DEF SelfDeclare
  <1> HIDE DEF receipt
  <1>4. Calls'
    BY Unmoved DEF SelfDeclare, github
  <1>5. /\ defaultAction' \in Actions /\ awaiting' \in [Actions -> 0..(MaxTime + Validity)]
        /\ verifying' \in [Callers -> Verification]
    BY <1>1 DEF SelfDeclare, IntakeInv, EvidenceTypeOK
  <1> QED
    BY <1>2, <1>3, <1>4, <1>5, StoringOnePreserves DEF SelfDeclare

LEMMA ApprovePreserves ==
    ASSUME IntakeInv, NEW a \in setting.subjects, NEW approvedAt \in 0..(clock + Skew),
           NEW expiresAt \in (clock + 1)..awaiting[a], Approve(a, approvedAt, expiresAt)
    PROVE  IntakeInv'
  <1> DEFINE until   == Min({approvedAt + MaxAge, expiresAt})
             receipt == [source |-> ApprovalSource, action |-> a, observedAt |-> approvedAt,
                         expiresAt |-> until, consistent |-> TRUE, signedBy |-> generation,
                         provider |-> "proofrail-human-approval"]
  <1>1. a \in Actions /\ clock \in 0..MaxTime /\ generation \in 0..MaxGenerations
    BY SettingTyped, Constants DEF IntakeInv, EvidenceTypeOK, Generation
  <1>2. awaiting \in [Actions -> 0..(MaxTime + Validity)]
    BY DEF IntakeInv, EvidenceTypeOK
  <1>3. approvedAt \in Time
    BY <1>1, Constants DEF Time
  <1>4. until \in Time
    <2>1. awaiting[a] \in Int /\ awaiting[a] <= MaxTime + Validity
      BY <1>1, <1>2, Constants
    <2>2. /\ expiresAt \in Int /\ 0 <= expiresAt /\ expiresAt <= MaxTime + Validity
          /\ approvedAt + MaxAge \in Int /\ 0 <= approvedAt + MaxAge
      BY <1>1, <2>1, Constants
    <2>3. until \in Int /\ 0 <= until /\ until <= expiresAt
      BY <2>2, MinOfTwo
    <2> HIDE DEF until
    <2> QED
      BY <2>2, <2>3, Constants DEF Time
  <1>5. Store(<<receipt>>)
    BY DEF Approve
  <1> HIDE DEF until
  <1>6. Admissible(receipt)
    <2>1. receipt \in Receipt
      BY <1>1, <1>3, <1>4 DEF Approve, Receipt
    <2> QED
      BY <2>1, Constants DEF Approve, Admissible, Attributed
  <1> HIDE DEF receipt
  <1>7. Calls'
    BY Unmoved DEF Approve, github
  <1>8. /\ defaultAction' \in Actions /\ awaiting' \in [Actions -> 0..(MaxTime + Validity)]
        /\ verifying' \in [Callers -> Verification]
    BY <1>1, <1>2, Constants DEF Approve, IntakeInv, EvidenceTypeOK
  <1> QED
    BY <1>5, <1>6, <1>7, <1>8, StoringOnePreserves DEF Approve

LEMMA NoEvaluationTyped ==
    /\ NoEvaluation \in Evaluation
    /\ NoEvaluation.phase = "idle" /\ NoEvaluation.generation = 0
  <1>1. 0 \in 0..MaxGenerations
    BY Constants
  <1> QED
    BY <1>1 DEF Evaluation, NoEvaluation

LEMMA SimulatePreserves ==
    ASSUME IntakeInv, NEW a \in setting.subjects, NEW keyOf \in [Collectable -> 1..generation],
           Simulate(a, keyOf)
    PROVE  IntakeInv'
  <1> DEFINE absent == SetToSeq({s \in Collectable : ~Reusable(s, a)})
             new    == [k \in DOMAIN absent |->
                           SignedEvidence(absent[k], a, TRUE, keyOf[absent[k]])]
             begun  == [NoEvaluation EXCEPT !.phase = "collected", !.simulated = TRUE]
  <1>1. a \in Actions /\ evaluating \in [Actions -> Evaluation]
    BY SettingTyped DEF IntakeInv, EvidenceTypeOK
  <1>2. absent \in Seq(Collectable)
    <2> DEFINE S == {s \in Collectable : ~Reusable(s, a)}
    <2>1. IsFiniteSet(S)
      BY PolicyAssumption, FS_Subset DEF Collectable
    <2> HIDE DEF S
    <2>2. SetToSeq(S) \in Seq(S)
      BY <2>1, SeqOfSet
    <2>3. S \subseteq Collectable
      BY DEF S
    <2> QED
      BY <2>2, <2>3 DEF S
  <1>3. Store(new) /\ evaluating' = [evaluating EXCEPT ![a] = begun]
    BY DEF Simulate
  <1> HIDE DEF absent
  <1>4. \A k \in DOMAIN absent : /\ Admissible(SignedEvidence(absent[k], a, TRUE, keyOf[absent[k]]))
                                 /\ new[k].provider # "github-actions"
    <2> SUFFICES ASSUME NEW k \in DOMAIN absent
                 PROVE  /\ Admissible(SignedEvidence(absent[k], a, TRUE, keyOf[absent[k]]))
                        /\ new[k].provider # "github-actions"
      OBVIOUS
    <2>1. absent[k] \in Collectable /\ keyOf[absent[k]] \in 1..generation
      BY <1>2
    <2>2. Admissible(SignedEvidence(absent[k], a, TRUE, keyOf[absent[k]]))
      BY <1>1, <2>1, SignedIsAdmissible
    <2> QED
      BY <2>2 DEF SignedEvidence
  <1>5. /\ new \in Seq(Receipt)
        /\ \A k \in DOMAIN new : Admissible(new[k]) /\ new[k].provider # "github-actions"
    <2>1. DOMAIN absent = 1..Len(absent) /\ Len(absent) \in Nat /\ DOMAIN new = DOMAIN absent
      BY <1>2
    <2>2. \A k \in DOMAIN new : Admissible(new[k]) /\ new[k].provider # "github-actions"
      BY <1>4
    <2>3. \A k \in DOMAIN new : new[k] \in Receipt
      BY <2>2 DEF Admissible
    <2> HIDE DEF new
    <2>4. new \in [1..Len(absent) -> Receipt]
      <3>1. new = [k \in 1..Len(absent) |-> new[k]]
        BY <2>1 DEF new
      <3> QED
        BY <3>1, <2>1, <2>3
    <2> QED
      BY <2>1, <2>2, <2>4
  <1> HIDE DEF new
  <1>6. begun \in Evaluation /\ begun.phase = "collected" /\ begun.generation = 0
    BY NoEvaluationTyped DEF Evaluation
  <1> HIDE DEF begun
  <1>7. evaluating' \in [Actions -> Evaluation] /\ evaluating'[a] = begun
    <2> HIDE DEF Evaluation
    <2> QED
      BY <1>1, <1>3, <1>6
  <1>8. \A b \in Actions : evaluating'[b] = evaluating[b] \/ RestsOnItsAction(b)'
    <2>1. generation' = generation /\ generation \in Nat
      BY TypedReceipts DEF Simulate, IntakeInv
    <2>2. evaluating'[a].phase = "collected" /\ evaluating'[a].generation = 0
      BY <1>6, <1>7
    <2>3. RestsOnItsAction(a)'
      BY <2>1, <2>2 DEF RestsOnItsAction
    <2> QED
      BY <1>1, <1>3, <2>3
  <1>9. Calls'
    BY Unmoved DEF Simulate, github
  <1>10. /\ defaultAction' \in Actions /\ awaiting' \in [Actions -> 0..(MaxTime + Validity)]
         /\ verifying' \in [Callers -> Verification]
         /\ UNCHANGED <<setting, clock, generation, deliveries, github>>
    BY <1>1 DEF Simulate, IntakeInv, EvidenceTypeOK
  <1> QED
    BY <1>3, <1>5, <1>7, <1>8, <1>9, <1>10, StoringPreserves

-----------------------------------------------------------------------------
(* Evaluations.                                                            *)

\* A step of an evaluation, or an erasure, that leaves the receipts.
LEMMA EvaluatingPreserves ==
    ASSUME IntakeInv, defaultAction' \in Actions, readable' \subseteq readable,
           awaiting' \in [Actions -> 0..(MaxTime + Validity)],
           evaluating' \in [Actions -> Evaluation],
           \A a \in Actions : evaluating'[a] = evaluating[a] \/ RestsOnItsAction(a)',
           UNCHANGED <<setting, clock, generation, evidence, deliveries, verifying, github>>
    PROVE  IntakeInv'
  <1>1. UNCHANGED <<runs, history>>
    BY DEF github
  <1>2. EvidenceTypeOK'
    BY <1>1 DEF IntakeInv, EvidenceTypeOK
  <1>3. Calls' /\ Remembered' /\ ReceiptsAreAttributed' /\ OneCiReceiptPerAction'
    BY <1>1, Unmoved
  <1>4. EvaluationsRest'
    BY Unmoved DEF EvaluationsRest
  <1> QED
    BY <1>2, <1>3, <1>4 DEF IntakeInv

LEMMA EvaluatePreserves ==
    ASSUME IntakeInv, NEW a \in setting.subjects, Evaluate(a)
    PROVE  IntakeInv'
  <1> DEFINE considered == Considered(evidence, a, generation, clock)
             decision   == EvaluateEvidencePolicy(evidence, a, generation, clock)
             decided    == [phase |-> "anchoring", simulated |-> evaluating[a].phase = "collected",
                            status |-> decision.status, evidenceIds |-> decision.evidenceIds,
                            generation |-> generation]
  <1>1. a \in Actions /\ evaluating \in [Actions -> Evaluation]
    BY SettingTyped DEF IntakeInv, EvidenceTypeOK
  <1>2. decision.status \in {"ALLOW", "REVIEW_REQUIRED", "DENY"}
        /\ decision.evidenceIds = EvidenceIds(evidence, considered)
    BY PolicyDecides
  <1>3. \A i \in decision.evidenceIds : i \in DOMAIN evidence /\ evidence[i].action = a
    BY <1>2 DEF EvidenceIds, Matching, Considered
  <1>4. evaluating' = [evaluating EXCEPT ![a] = decided]
    BY DEF Evaluate
  <1> HIDE DEF decision
  <1>5. generation \in 0..MaxGenerations /\ DOMAIN evidence \subseteq Nat
    BY Constants DEF IntakeInv, EvidenceTypeOK, Generation
  <1>6. decided \in Evaluation
    BY <1>2, <1>3, <1>5 DEF Evaluation
  <1> HIDE DEF decided
  <1>7. evaluating' \in [Actions -> Evaluation] /\ evaluating'[a] = decided
    BY <1>1, <1>4, <1>6
  <1>8. RestsOnItsAction(a)'
    <2>1. /\ decided.phase = "anchoring" /\ decided.generation = generation
          /\ decided.evidenceIds = decision.evidenceIds
      BY DEF decided
    <2>2. generation <= generation
      BY <1>5
    <2> QED
      BY <1>3, <1>7, <2>1, <2>2 DEF RestsOnItsAction, Evaluate, database
  <1>9. \A b \in Actions : evaluating'[b] = evaluating[b] \/ RestsOnItsAction(b)'
    BY <1>1, <1>4, <1>8
  <1>10. /\ defaultAction' \in Actions /\ readable' \subseteq readable
         /\ awaiting' \in [Actions -> 0..(MaxTime + Validity)]
         /\ UNCHANGED <<setting, clock, generation, evidence, deliveries, verifying, github>>
    BY DEF Evaluate, database, IntakeInv, EvidenceTypeOK
  <1> QED
    BY <1>7, <1>9, <1>10, EvaluatingPreserves

LEMMA PersistPreserves ==
    ASSUME IntakeInv, NEW a \in setting.subjects, Persist(a)
    PROVE  IntakeInv'
  <1> DEFINE stored == [evaluating[a] EXCEPT !.phase = "stored"]
             next   == IF evaluating[a].simulated THEN stored ELSE NoEvaluation
  <1>1. /\ a \in Actions /\ evaluating \in [Actions -> Evaluation]
        /\ clock \in 0..MaxTime /\ generation \in Nat
        /\ awaiting \in [Actions -> 0..(MaxTime + Validity)]
    BY SettingTyped, TypedReceipts DEF IntakeInv, EvidenceTypeOK
  <1>2. evaluating' = [evaluating EXCEPT ![a] = next]
    BY <1>1 DEF Persist
  <1>3. /\ stored \in Evaluation /\ stored.phase = "stored"
        /\ stored.generation = evaluating[a].generation
        /\ stored.evidenceIds = evaluating[a].evidenceIds
    <2>1. evaluating[a] \in Evaluation
      BY <1>1
    <2> QED
      BY <2>1 DEF Evaluation
  <1> HIDE DEF stored
  <1>4. next \in Evaluation
    BY <1>3, NoEvaluationTyped
  <1>5. RestsOnItsAction(a)'
    <2>1. RestsOnItsAction(a) /\ evaluating[a].phase = "anchoring"
      BY <1>1 DEF Persist, IntakeInv, EvaluationsRest
    <2>2. evaluating'[a] = next
      BY <1>1, <1>2
    <2>3. generation' = generation /\ evidence' = evidence
      BY DEF Persist
    <2>4. CASE evaluating[a].simulated
      BY <1>3, <2>1, <2>2, <2>3, <2>4 DEF RestsOnItsAction
    <2>5. CASE ~evaluating[a].simulated
      BY <1>1, <2>2, <2>3, <2>5, NoEvaluationTyped DEF RestsOnItsAction
    <2> QED
      BY <2>4, <2>5
  <1> HIDE DEF next
  <1>6. /\ evaluating' \in [Actions -> Evaluation]
        /\ \A b \in Actions : evaluating'[b] = evaluating[b] \/ RestsOnItsAction(b)'
    <2> HIDE DEF Evaluation
    <2> QED
      BY <1>1, <1>2, <1>4, <1>5
  <1>7. clock + Validity \in 0..(MaxTime + Validity)
    BY <1>1, Constants
  <1>8. awaiting' \in [Actions -> 0..(MaxTime + Validity)]
    BY <1>1, <1>7 DEF Persist
  <1>9. /\ defaultAction' \in Actions /\ readable' \subseteq readable
        /\ UNCHANGED <<setting, clock, generation, evidence, deliveries, verifying, github>>
    BY <1>1 DEF Persist
  <1> QED
    BY <1>6, <1>8, <1>9, EvaluatingPreserves

LEMMA AnchorFailsPreserves ==
    ASSUME IntakeInv, NEW a \in setting.subjects, AnchorFails(a)
    PROVE  IntakeInv'
  <1>1. /\ a \in Actions /\ evaluating \in [Actions -> Evaluation] /\ generation \in Nat
    BY SettingTyped, TypedReceipts DEF IntakeInv, EvidenceTypeOK
  <1>2. evaluating' = [evaluating EXCEPT ![a] = NoEvaluation]
    BY DEF AnchorFails
  <1>3. evaluating'[a] = NoEvaluation /\ evaluating' \in [Actions -> Evaluation]
    BY <1>1, <1>2, NoEvaluationTyped
  <1>4. RestsOnItsAction(a)'
    BY <1>1, <1>3, NoEvaluationTyped DEF RestsOnItsAction, AnchorFails, database
  <1>5. \A b \in Actions : evaluating'[b] = evaluating[b] \/ RestsOnItsAction(b)'
    BY <1>1, <1>2, <1>4
  <1>6. /\ defaultAction' \in Actions /\ readable' \subseteq readable
        /\ awaiting' \in [Actions -> 0..(MaxTime + Validity)]
        /\ UNCHANGED <<setting, clock, generation, evidence, deliveries, verifying, github>>
    BY DEF AnchorFails, database, IntakeInv, EvidenceTypeOK
  <1> QED
    BY <1>3, <1>5, <1>6, EvaluatingPreserves

\* The receipts of the decision are of the action, so of the request whose keys go.
LEMMA SimulationExpiresPreserves ==
    ASSUME IntakeInv, NEW a \in setting.subjects, SimulationExpires(a)
    PROVE  IntakeInv'
  <1> DEFINE expired == [evaluating[a] EXCEPT !.phase = "expired"]
  <1>1. /\ a \in Actions /\ evaluating \in [Actions -> Evaluation]
        /\ RestsOnItsAction(a) /\ evaluating[a].phase = "stored"
    BY SettingTyped DEF IntakeInv, EvidenceTypeOK, EvaluationsRest, SimulationExpires
  <1>2. evaluating' = [evaluating EXCEPT ![a] = expired]
    BY DEF SimulationExpires
  <1>3. /\ expired \in Evaluation /\ expired.phase = "expired"
        /\ expired.generation = evaluating[a].generation
        /\ expired.evidenceIds = evaluating[a].evidenceIds
    <2>1. evaluating[a] \in Evaluation
      BY <1>1
    <2> QED
      BY <2>1 DEF Evaluation
  <1> HIDE DEF expired
  <1>4. evaluating'[a] = expired /\ evaluating' \in [Actions -> Evaluation]
    BY <1>1, <1>2, <1>3
  <1>5. RestsOnItsAction(a)'
    <2>1. /\ generation' = generation /\ evidence' = evidence
          /\ readable' = {i \in readable : RequestOf[evidence[i].action] # RequestOf[a]}
      BY DEF SimulationExpires, ExpireRequest
    <2>2. \A i : evidence[i].action = a => i \notin readable'
      BY <2>1
    <2> QED
      BY <1>1, <1>3, <1>4, <2>1, <2>2 DEF RestsOnItsAction
  <1>6. \A b \in Actions : evaluating'[b] = evaluating[b] \/ RestsOnItsAction(b)'
    BY <1>1, <1>2, <1>5
  <1>7. /\ defaultAction' \in Actions /\ readable' \subseteq readable
        /\ awaiting' \in [Actions -> 0..(MaxTime + Validity)]
        /\ UNCHANGED <<setting, clock, generation, evidence, deliveries, verifying, github>>
    BY DEF SimulationExpires, ExpireRequest, IntakeInv, EvidenceTypeOK
  <1> QED
    BY <1>4, <1>6, <1>7, EvaluatingPreserves

LEMMA ExpirePreserves ==
    ASSUME IntakeInv, Expire
    PROVE  IntakeInv'
  <1>1. /\ defaultAction' \in Actions /\ readable' \subseteq readable
        /\ awaiting' \in [Actions -> 0..(MaxTime + Validity)]
        /\ evaluating' \in [Actions -> Evaluation] /\ evaluating' = evaluating
        /\ UNCHANGED <<setting, clock, generation, evidence, deliveries, verifying, github>>
    BY DEF Expire, ExpireRequest, IntakeInv, EvidenceTypeOK
  <1> QED
    BY <1>1, EvaluatingPreserves

\* An evaluation of the database before rests on nothing in the next.
LEMMA ResetPreserves ==
    ASSUME IntakeInv, Reset
    PROVE  IntakeInv'
  <1>1. /\ generation' = generation + 1 /\ generation \in Nat /\ generation' \in Generation
        /\ evidence' = <<>> /\ DOMAIN evidence' = {} /\ readable' = {}
        /\ setting.receipts \in Nat
    BY SettingTyped, TypedReceipts, Constants DEF Reset, IntakeInv, EvidenceTypeOK, Generation
  <1>2. EvidenceTypeOK'
    <2>1. /\ evidence' \in Seq(Receipt) /\ Len(evidence') <= setting'.receipts
          /\ readable' \subseteq DOMAIN evidence'
      BY <1>1 DEF Reset
    <2>2. deliveries' = <<>> /\ Len(deliveries') <= DeliveriesKept
      BY Constants DEF Reset
    <2>3. defaultAction' \in Actions /\ awaiting' \in [Actions -> 0..(MaxTime + Validity)]
      BY Constants DEF Reset
    <2> HIDE DEF Receipt, Time, Conclusions, Verification, Evaluation
    <2>4. deliveries' \in Seq([id : DeliveryIds, run : Runs, conclusion : Conclusions])
      BY <2>2
    <2> QED
      BY <1>1, <2>1, <2>2, <2>3, <2>4 DEF Reset, github, IntakeInv, EvidenceTypeOK
  <1>3. Calls' /\ Remembered'
    BY Unmoved DEF Reset, github
  <1>4. ReceiptsAreAttributed' /\ OneCiReceiptPerAction'
    BY <1>1 DEF ReceiptsAreAttributed, OneCiReceiptPerAction
  <1>5. EvaluationsRest'
    <2> SUFFICES ASSUME NEW a \in Actions PROVE RestsOnItsAction(a)'
      BY DEF EvaluationsRest
    <2>1. /\ evaluating'[a] = evaluating[a] /\ evaluating[a].generation <= generation
          /\ evaluating[a].generation \in Int
      BY DEF Reset, IntakeInv, EvidenceTypeOK, EvaluationsRest, RestsOnItsAction, Evaluation
    <2> QED
      BY <1>1, <2>1 DEF RestsOnItsAction
  <1> QED
    BY <1>2, <1>3, <1>4, <1>5 DEF IntakeInv

-----------------------------------------------------------------------------
(* The GitHub App.                                                         *)

\* GitHub only adds to its past.
LEMMA RunChangesPreserves ==
    ASSUME IntakeInv, NEW r \in Runs, NEW conclusion \in Conclusions, NEW artifact \in BOOLEAN,
           NEW ahead \in 0..Skew, RunChanges(r, conclusion, artifact, ahead)
    PROVE  IntakeInv'
  <1> DEFINE now   == [conclusion |-> conclusion, updatedAt |-> clock + ahead,
                       artifact |-> artifact]
             event == [run |-> r, conclusion |-> conclusion, updatedAt |-> clock + ahead]
             Shown == [conclusion : Conclusions, updatedAt : Time, artifact : BOOLEAN]
             Past  == [run : Runs, conclusion : Conclusions, updatedAt : Time]
  <1>1. /\ runs' = [runs EXCEPT ![r] = now] /\ history' = history \cup {event}
        /\ UNCHANGED <<setting, clock, generation, evidence, readable, defaultAction, awaiting,
                       deliveries, evaluating, verifying>>
    BY DEF RunChanges, database
  <1>2. clock + ahead \in Time
    <2>1. clock \in 0..MaxTime
      BY TypedReceipts DEF IntakeInv
    <2> QED
      BY <2>1, Constants DEF Time
  <1>3. runs \in [Runs -> Shown] /\ history \subseteq Past
    BY DEF IntakeInv, EvidenceTypeOK
  <1>4. now \in Shown /\ event \in Past
    BY <1>2
  <1>5. Remembered'
    <2> SUFFICES ASSUME NEW q \in Runs, runs'[q].conclusion = "success"
                 PROVE  [run |-> q, conclusion |-> "success", updatedAt |-> runs'[q].updatedAt]
                          \in history'
      BY DEF Remembered
    <2>1. CASE q = r
      <3>1. runs'[q] = now
        BY <1>1, <1>3, <2>1
      <3>2. conclusion = "success" /\ runs'[q].updatedAt = clock + ahead
        BY <3>1
      <3> QED
        BY <3>2, <1>1, <2>1
    <2>2. CASE q # r
      <3>1. runs'[q] = runs[q]
        BY <1>1, <1>3, <2>2
      <3> QED
        BY <3>1, <1>1 DEF IntakeInv, Remembered
    <2> QED
      BY <2>1, <2>2
  <1>6. \A a, t : Observed(a, t) => Observed(a, t)'
    BY <1>1 DEF Observed
  <1>7. Calls'
    BY <1>1, <1>6 DEF IntakeInv, Calls
  <1>8. ReceiptsAreAttributed'
    BY <1>1, <1>6 DEF IntakeInv, ReceiptsAreAttributed, Attributed
  <1>9. OneCiReceiptPerAction' /\ EvaluationsRest'
    BY <1>1, Unmoved DEF EvaluationsRest
  <1> HIDE DEF now, event
  <1>10. runs' \in [Runs -> Shown] /\ history' \subseteq Past
    <2> HIDE DEF Shown, Past
    <2> QED
      BY <1>1, <1>3, <1>4
  <1>11. EvidenceTypeOK'
    <2> HIDE DEF Receipt, Verification, Evaluation
    <2> QED
      BY <1>1, <1>10 DEF IntakeInv, EvidenceTypeOK
  <1> QED
    BY <1>5, <1>7, <1>8, <1>9, <1>11 DEF IntakeInv

LEMMA KeptTyped ==
    ASSUME NEW S, NEW seq \in Seq(S)
    PROVE  Kept(seq) \in Seq(S) /\ Len(Kept(seq)) <= DeliveriesKept
  <1> DEFINE first == Max({1, Len(seq) - DeliveriesKept + 1})
  <1>1. Len(seq) \in Nat /\ DeliveriesKept \in Nat \ {0}
    BY Constants
  <1>2. first \in Nat /\ first >= 1 /\ first >= Len(seq) - DeliveriesKept + 1
    <2> DEFINE n == Len(seq) - DeliveriesKept + 1
    <2>1. n \in Int /\ 1 \in Int
      BY <1>1
    <2> HIDE DEF n
    <2>2. Max({1, n}) \in {1, n} /\ Max({1, n}) >= 1 /\ Max({1, n}) >= n
      BY <2>1, MaxOfTwo, Zenon
    <2>3. Max({1, n}) \in Nat
      BY <2>1, <2>2
    <2> QED
      BY <2>2, <2>3 DEF n
  <1>3. Kept(seq) = SubSeq(seq, first, Len(seq))
    BY DEF Kept
  <1> HIDE DEF first
  <1>4. SubSeq(seq, first, Len(seq)) \in Seq(S)
    BY <1>1, <1>2
  <1>5. Len(SubSeq(seq, first, Len(seq)))
          = IF first <= Len(seq) THEN Len(seq) - first + 1 ELSE 0
    BY <1>1, <1>2
  <1> QED
    BY <1>1, <1>2, <1>3, <1>4, <1>5

LEMMA DeliverPreserves ==
    ASSUME IntakeInv, NEW id \in setting.deliveryIds, NEW event \in history, Deliver(id, event)
    PROVE  IntakeInv'
  <1> DEFINE Delivery  == [id : DeliveryIds, run : Runs, conclusion : Conclusions]
             delivered == [id |-> id, run |-> event.run, conclusion |-> event.conclusion]
  <1>1. /\ deliveries' = Kept(Append(deliveries, delivered))
        /\ UNCHANGED <<setting, clock, generation, evidence, readable, defaultAction, awaiting,
                       evaluating, verifying, runs, history>>
    BY DEF Deliver, github
  <1>2. delivered \in Delivery
    BY SettingTyped DEF IntakeInv, EvidenceTypeOK
  <1>3. deliveries \in Seq(Delivery)
    BY DEF IntakeInv, EvidenceTypeOK
  <1> HIDE DEF delivered
  <1>4. deliveries' \in Seq(Delivery) /\ Len(deliveries') <= DeliveriesKept
    <2> HIDE DEF Delivery
    <2>1. Append(deliveries, delivered) \in Seq(Delivery)
      BY <1>2, <1>3
    <2> QED
      BY <2>1, <1>1, KeptTyped
  <1>5. EvidenceTypeOK'
    BY <1>1, <1>4 DEF IntakeInv, EvidenceTypeOK
  <1> QED
    BY <1>1, <1>5, Unmoved DEF IntakeInv, EvaluationsRest

\* A step of a verify-ci request before its update.
LEMMA VerifyingPreserves ==
    ASSUME IntakeInv, verifying' \in [Callers -> Verification], Calls',
           UNCHANGED <<setting, clock, database, evaluating, github>>
    PROVE  IntakeInv'
  <1>1. UNCHANGED <<setting, clock, generation, evidence, readable, defaultAction, awaiting,
                    deliveries, evaluating, runs, history>>
    BY DEF database, github
  <1>2. EvidenceTypeOK'
    BY <1>1 DEF IntakeInv, EvidenceTypeOK
  <1> QED
    BY <1>1, <1>2, Unmoved DEF IntakeInv, EvaluationsRest

\* One request moves on: the others claim what they claimed.
LEMMA OneCallMoves ==
    ASSUME IntakeInv, NEW c \in Callers, NEW next \in Verification,
           verifying' = [verifying EXCEPT ![c] = next], UNCHANGED history,
           next.phase \in {"fresh", "keyed"} => next.observedAt <= MaxTime + Skew,
           next.phase \in {"ran", "fresh", "keyed"} => Observed(next.action, next.observedAt)
    PROVE  verifying' \in [Callers -> Verification] /\ Calls'
  <1>1. verifying \in [Callers -> Verification]
    BY DEF IntakeInv, EvidenceTypeOK
  <1>2. /\ verifying'[c] = next /\ verifying' \in [Callers -> Verification]
        /\ \A d \in Callers : d # c => verifying'[d] = verifying[d]
    <2> HIDE DEF Verification
    <2> QED
      BY <1>1
  <1>3. \A x, t : Observed(x, t)' <=> Observed(x, t)
    BY DEF Observed
  <1>4. Calls'
    <2> SUFFICES ASSUME NEW d \in Callers
                 PROVE  /\ verifying'[d].phase \in {"fresh", "keyed"} =>
                              verifying'[d].observedAt <= MaxTime + Skew
                        /\ verifying'[d].phase \in {"ran", "fresh", "keyed"} =>
                              Observed(verifying'[d].action, verifying'[d].observedAt)
      BY <1>3 DEF Calls
    <2>1. CASE d = c
      BY <1>2, <2>1
    <2>2. CASE d # c
      BY <1>2, <2>2 DEF Calls, IntakeInv
    <2> QED
      BY <2>1, <2>2
  <1> QED
    BY <1>2, <1>4

\* One request moves to a phase that claims no more than the one before.
LEMMA AwaitKeeps ==
    ASSUME IntakeInv, NEW c \in Callers,
           NEW phase \in {"idle", "asking", "ran", "fresh", "keyed", "done", "failed"},
           Await(c, phase), UNCHANGED <<clock, history>>,
           phase \in {"fresh", "keyed"} => verifying[c].observedAt <= MaxTime + Skew,
           phase \in {"ran", "fresh", "keyed"} =>
              Observed(verifying[c].action, verifying[c].observedAt)
    PROVE  verifying' \in [Callers -> Verification] /\ Calls'
  <1> DEFINE next == [verifying[c] EXCEPT !.phase = phase]
  <1>1. verifying \in [Callers -> Verification]
    BY DEF IntakeInv, EvidenceTypeOK
  <1>2. verifying' = [verifying EXCEPT ![c] = next]
    BY DEF Await
  <1>3. /\ next \in Verification /\ next.phase = phase
        /\ next.action = verifying[c].action /\ next.observedAt = verifying[c].observedAt
    <2>1. verifying[c] \in Verification
      BY <1>1
    <2> QED
      BY <2>1 DEF Verification
  <1> HIDE DEF next
  <1> QED
    BY <1>2, <1>3, OneCallMoves

\* The delivery that names the run is a remembered one.
LEMMA VerifyStartPreserves ==
    ASSUME IntakeInv, NEW c \in setting.callers, NEW a \in setting.subjects, NEW named,
           VerifyStart(c, a, named)
    PROVE  IntakeInv'
  <1> DEFINE matching == MatchingDeliveries(a, named)
             run      == IF matching = {} THEN NoRun ELSE deliveries[Max(matching)].run
             next     == [NoVerification EXCEPT !.phase = "asking", !.action = a, !.run = run]
  <1>1. /\ c \in Callers /\ a \in Actions
        /\ verifying \in [Callers -> Verification]
        /\ deliveries \in Seq([id : DeliveryIds, run : Runs, conclusion : Conclusions])
    BY SettingTyped DEF IntakeInv, EvidenceTypeOK
  <1>2. run \in Runs \cup {NoRun}
    <2>1. CASE matching = {}
      BY <2>1
    <2>2. CASE matching # {}
      <3>1. matching \subseteq 1..Len(deliveries) /\ Len(deliveries) \in Nat
        <4>1. matching \subseteq DOMAIN deliveries
          BY Zenon DEF MatchingDeliveries
        <4> HIDE DEF matching
        <4> QED
          BY <1>1, <4>1
      <3> HIDE DEF matching
      <3>2. IsFiniteSet(matching) /\ matching \subseteq Nat
        <4>1. IsFiniteSet(1..Len(deliveries))
          BY <3>1, FS_Interval
        <4>2. matching \subseteq Nat
          BY <3>1
        <4> QED
          BY <3>1, <4>1, <4>2, FS_Subset
      <3>3. Max(matching) \in matching
        BY <2>2, <3>2, MaxOfFinite
      <3>4. Max(matching) \in 1..Len(deliveries)
        BY <3>1, <3>3
      <3>5. deliveries[Max(matching)].run \in Runs
        <4> DEFINE Delivery == [id : DeliveryIds, run : Runs, conclusion : Conclusions]
                   latest   == Max(matching)
        <4>1. \A delivery \in Delivery : delivery.run \in Runs
          OBVIOUS
        <4>2. deliveries \in Seq(Delivery) /\ latest \in 1..Len(deliveries)
          BY <1>1, <3>4
        <4> HIDE DEF Delivery, latest
        <4>3. deliveries[latest] \in Delivery
          BY <4>2
        <4> QED
          BY <4>1, <4>3 DEF latest
      <3>6. run = deliveries[Max(matching)].run
        BY <2>2
      <3> HIDE DEF run
      <3> QED
        BY <3>5, <3>6
    <2> QED
      BY <2>1, <2>2
  <1>3. verifying' = [verifying EXCEPT ![c] = next]
    BY DEF VerifyStart
  <1> HIDE DEF run
  <1>4. next \in Verification /\ next.phase = "asking"
    <2>1. 0 \in Time /\ 0 \in 0..MaxGenerations
      BY Constants DEF Time
    <2>2. NoVerification \in Verification
      BY <2>1, Constants DEF NoVerification, Verification
    <2> QED
      BY <1>1, <1>2, <2>2 DEF Verification
  <1> HIDE DEF next
  <1>5. verifying' \in [Callers -> Verification] /\ Calls'
    BY <1>1, <1>3, <1>4, OneCallMoves DEF VerifyStart, github
  <1> QED
    BY <1>5, VerifyingPreserves DEF VerifyStart

\* GitHub shows a run of the commit that is a success, so it is in GitHub's past.
LEMMA RunAnswersPreserves ==
    ASSUME IntakeInv, NEW c \in setting.callers, NEW r \in Runs, RunAnswers(c, r)
    PROVE  IntakeInv'
  <1> DEFINE next == [verifying[c] EXCEPT !.phase = "ran", !.run = r,
                                          !.observedAt = runs[r].updatedAt]
  <1>1. /\ c \in Callers /\ verifying \in [Callers -> Verification]
        /\ runs[r].updatedAt \in Time
    BY SettingTyped DEF IntakeInv, EvidenceTypeOK
  <1>2. verifying' = [verifying EXCEPT ![c] = next]
    BY <1>1 DEF RunAnswers
  <1>3. /\ next \in Verification /\ next.phase = "ran"
        /\ next.action = verifying[c].action /\ next.observedAt = runs[r].updatedAt
    <2>1. verifying[c] \in Verification
      BY <1>1
    <2> HIDE DEF Time
    <2> QED
      BY <1>1, <2>1 DEF Verification
  <1> HIDE DEF next
  <1>4. Observed(verifying[c].action, runs[r].updatedAt)
    <2> DEFINE event == [run |-> r, conclusion |-> "success", updatedAt |-> runs[r].updatedAt]
    <2>1. event \in history
      BY DEF RunAnswers, IntakeInv, Remembered
    <2>2. verifying[c].action \in Builds[event.run]
      BY DEF RunAnswers
    <2> QED
      BY <2>1, <2>2 DEF Observed
  <1>5. verifying' \in [Callers -> Verification] /\ Calls'
    BY <1>1, <1>2, <1>3, <1>4, OneCallMoves DEF RunAnswers, github
  <1> QED
    BY <1>5, VerifyingPreserves DEF RunAnswers

LEMMA ArtifactAnswersPreserves ==
    ASSUME IntakeInv, NEW c \in setting.callers, ArtifactAnswers(c)
    PROVE  IntakeInv'
  <1>1. c \in Callers /\ verifying \in [Callers -> Verification]
    BY SettingTyped DEF IntakeInv, EvidenceTypeOK
  <1>2. Observed(verifying[c].action, verifying[c].observedAt)
    BY <1>1 DEF ArtifactAnswers, IntakeInv, Calls
  <1>3. verifying[c].observedAt <= MaxTime + Skew
    <2>1. clock \in 0..MaxTime
      BY TypedReceipts DEF IntakeInv
    <2>2. verifying[c].observedAt \in (clock - MaxAge)..(clock + Skew)
      BY DEF ArtifactAnswers, ObservationFresh
    <2> QED
      BY <2>1, <2>2, Constants
  <1>4. Await(c, "fresh") /\ UNCHANGED <<clock, history>>
    BY DEF ArtifactAnswers, github
  <1>5. verifying' \in [Callers -> Verification] /\ Calls'
    BY <1>1, <1>2, <1>3, <1>4, AwaitKeeps
  <1> QED
    BY <1>5, VerifyingPreserves DEF ArtifactAnswers

LEMMA VerifyEndsPreserves ==
    ASSUME IntakeInv, NEW c \in setting.callers, NEW phase \in {"done", "failed"},
           Await(c, phase), UNCHANGED <<setting, clock, database, evaluating, github>>
    PROVE  IntakeInv'
  <1>1. c \in Callers /\ UNCHANGED <<clock, history>>
    BY SettingTyped DEF IntakeInv, github
  <1>2. verifying' \in [Callers -> Verification] /\ Calls'
    BY <1>1, AwaitKeeps
  <1> QED
    BY <1>2, VerifyingPreserves

LEMMA VerifyReadsKeyPreserves ==
    ASSUME IntakeInv, NEW c \in setting.callers, VerifyReadsKey(c)
    PROVE  IntakeInv'
  <1> DEFINE next == [verifying[c] EXCEPT !.phase = "keyed", !.key = generation]
  <1>1. /\ c \in Callers /\ verifying \in [Callers -> Verification]
        /\ generation \in 0..MaxGenerations
    BY SettingTyped, Constants DEF IntakeInv, EvidenceTypeOK, Generation
  <1>2. verifying' = [verifying EXCEPT ![c] = next]
    BY <1>1 DEF VerifyReadsKey
  <1>3. /\ next \in Verification /\ next.phase = "keyed"
        /\ next.action = verifying[c].action /\ next.observedAt = verifying[c].observedAt
    <2>1. verifying[c] \in Verification
      BY <1>1
    <2> QED
      BY <1>1, <2>1 DEF Verification
  <1> HIDE DEF next
  <1>4. /\ verifying[c].observedAt <= MaxTime + Skew
        /\ Observed(verifying[c].action, verifying[c].observedAt)
    BY <1>1 DEF VerifyReadsKey, IntakeInv, Calls
  <1>5. verifying' \in [Callers -> Verification] /\ Calls'
    BY <1>1, <1>2, <1>3, <1>4, OneCallMoves DEF VerifyReadsKey, github
  <1> QED
    BY <1>5, VerifyingPreserves DEF VerifyReadsKey

\* The update looks again, so its receipt comes in only when none could be reused.
LEMMA VerifyStoresPreserves ==
    ASSUME IntakeInv, NEW c \in setting.callers, VerifyStores(c)
    PROVE  IntakeInv'
  <1>1. /\ c \in Callers /\ verifying[c] \in Verification /\ verifying[c].phase = "keyed"
        /\ verifying[c].action \in Actions
    <2>1. c \in Callers /\ verifying \in [Callers -> Verification]
      BY SettingTyped DEF IntakeInv, EvidenceTypeOK
    <2>2. verifying[c] \in Verification
      BY <2>1
    <2> QED
      BY <2>1, <2>2 DEF VerifyStores, Verification
  <1>2. /\ UNCHANGED <<setting, clock, generation, awaiting, deliveries, evaluating, github>>
        /\ Await(c, "done") /\ UNCHANGED <<clock, history>>
    BY DEF VerifyStores, github
  <1>3. verifying' \in [Callers -> Verification] /\ Calls'
    BY <1>1, <1>2, AwaitKeeps
  <1>4. CASE ReusableCi(verifying[c].action) # {}
    <2>1. UNCHANGED database
      BY <1>2, <1>4 DEF VerifyStores, database
    <2> QED
      BY <1>2, <1>3, <2>1, VerifyingPreserves
  <1>5. CASE ReusableCi(verifying[c].action) = {}
    <2> DEFINE receipt == CiEvidence(verifying[c])
    <2>1. defaultAction' = verifying[c].action /\ Store(<<receipt>>)
      BY <1>5 DEF VerifyStores
    <2>2. /\ verifying[c].observedAt \in Time /\ verifying[c].observedAt <= MaxTime + Skew
          /\ verifying[c].key \in 0..MaxGenerations
          /\ Observed(verifying[c].action, verifying[c].observedAt)
      <3>1. verifying[c].observedAt \in Time /\ verifying[c].key \in 0..MaxGenerations
        BY <1>1 DEF Verification
      <3> QED
        BY <3>1, <1>1 DEF IntakeInv, Calls
    <2>3. verifying[c].observedAt + MaxAge \in Time
      BY <2>2, Constants DEF Time
    <2>4. receipt = [source |-> CiSource, action |-> verifying[c].action,
                     observedAt |-> verifying[c].observedAt,
                     expiresAt |-> verifying[c].observedAt + MaxAge, consistent |-> TRUE,
                     signedBy |-> verifying[c].key, provider |-> "github-actions"]
      BY DEF CiEvidence
    <2>5. Admissible(receipt)
      <3> HIDE DEF receipt
      <3>1. receipt \in Receipt
        BY <1>1, <2>2, <2>3, <2>4, CiIsAnOrigin DEF Receipt
      <3>2. Attributed(receipt)
        BY <1>1, <2>2, <2>4, CiIsAnOrigin DEF Attributed
      <3> QED
        BY <3>1, <3>2, <2>4, <1>5 DEF Admissible
    <2> HIDE DEF receipt
    <2>6. defaultAction' \in Actions /\ awaiting' \in [Actions -> 0..(MaxTime + Validity)]
      BY <1>1, <1>2, <2>1 DEF IntakeInv, EvidenceTypeOK
    <2> QED
      BY <1>2, <1>3, <2>1, <2>5, <2>6, StoringOnePreserves
  <1> QED
    BY <1>4, <1>5

LEMMA TickPreserves ==
    ASSUME IntakeInv, Tick
    PROVE  IntakeInv'
  <1>1. /\ clock' = clock + 1 /\ clock < MaxTime
        /\ UNCHANGED <<setting, generation, evidence, readable, defaultAction, awaiting,
                       deliveries, evaluating, verifying, runs, history>>
    BY DEF Tick, database, github
  <1>2. clock \in Int /\ clock' \in 0..MaxTime
    BY <1>1, TypedReceipts, Constants DEF IntakeInv
  <1>3. EvidenceTypeOK'
    BY <1>1, <1>2 DEF IntakeInv, EvidenceTypeOK
  <1>4. OneCiReceiptPerAction'
    <2> SUFFICES ASSUME NEW i \in DOMAIN evidence, NEW j \in DOMAIN evidence, i < j,
                        evidence[i].source = CiSource, evidence[j].provider = "github-actions",
                        evidence[i].action = evidence[j].action,
                        evidence[i].signedBy = generation
                 PROVE  evidence[i].expiresAt < clock'
      BY <1>1 DEF OneCiReceiptPerAction
    <2>1. evidence[i].expiresAt < clock
      BY DEF IntakeInv, OneCiReceiptPerAction
    <2>2. evidence[i].expiresAt \in Int
      BY TypedReceipts DEF IntakeInv
    <2> QED
      BY <1>1, <1>2, <2>1, <2>2
  <1> QED
    BY <1>1, <1>3, <1>4, Unmoved DEF IntakeInv, EvaluationsRest

-----------------------------------------------------------------------------
(* The theorems.                                                           *)

LEMMA IntakeInit == Init => IntakeInv
  <1> SUFFICES ASSUME Init PROVE IntakeInv
    OBVIOUS
  <1>1. setting \in Settings /\ setting.receipts \in Nat
    BY IntakeAssumption DEF Init
  <1>2. evidence = <<>> /\ DOMAIN evidence = {} /\ readable = {} /\ deliveries = <<>>
    BY DEF Init
  <1>3. /\ 0 \in Time /\ 0 \in 0..MaxGenerations /\ 0 \in 0..MaxTime
        /\ 0 \in 0..(MaxTime + Validity) /\ 1 \in Generation
    BY Constants DEF Time, Generation
  <1>4. NoVerification \in Verification /\ NoVerification.phase = "idle"
    BY <1>3, Constants DEF NoVerification, Verification
  <1>5. evaluating \in [Actions -> Evaluation] /\ verifying \in [Callers -> Verification]
    <2> HIDE DEF Evaluation, Verification
    <2> QED
      BY <1>4, NoEvaluationTyped DEF Init
  <1>6. runs \in [Runs -> [conclusion : Conclusions, updatedAt : Time, artifact : BOOLEAN]]
    <2> DEFINE Shown == [conclusion : Conclusions, updatedAt : Time, artifact : BOOLEAN]
               none  == [conclusion |-> "none", updatedAt |-> 0, artifact |-> FALSE]
    <2>1. none \in Shown
      BY <1>3 DEF Conclusions
    <2>2. runs = [r \in Runs |-> none]
      BY DEF Init
    <2> HIDE DEF Shown, none
    <2>3. runs \in [Runs -> Shown]
      BY <2>1, <2>2
    <2> QED
      BY <2>3 DEF Shown
  <1>7. evidence \in Seq(Receipt) /\ Len(evidence) <= setting.receipts
    BY <1>1, <1>2
  <1>8. /\ deliveries \in Seq([id : DeliveryIds, run : Runs, conclusion : Conclusions])
        /\ Len(deliveries) <= DeliveriesKept
    BY <1>2, Constants
  <1>9. EvidenceTypeOK
    <2>1. clock = 0 /\ generation = 1 /\ defaultAction = DefaultAction /\ history = {}
          /\ awaiting = [a \in Actions |-> 0]
      BY DEF Init
    <2> HIDE DEF Receipt, Time, Conclusions, Verification, Evaluation
    <2> QED
      BY <1>1, <1>2, <1>3, <1>5, <1>6, <1>7, <1>8, <2>1, Constants DEF EvidenceTypeOK
  <1>10. Calls
    BY <1>4 DEF Init, Calls
  <1>11. Remembered
    BY DEF Init, Remembered
  <1>12. ReceiptsAreAttributed /\ OneCiReceiptPerAction
    BY <1>2 DEF ReceiptsAreAttributed, OneCiReceiptPerAction
  <1>13. EvaluationsRest
    BY NoEvaluationTyped DEF Init, EvaluationsRest, RestsOnItsAction
  <1> QED
    BY <1>9, <1>10, <1>11, <1>12, <1>13 DEF IntakeInv

LEMMA IntakeStep == IntakeInv /\ [Next]_vars => IntakeInv'
  <1> SUFFICES ASSUME IntakeInv, [Next]_vars PROVE IntakeInv'
    OBVIOUS
  <1>1. ASSUME NEW a \in setting.subjects, NEW s \in setting.sources, NEW consistent \in BOOLEAN,
               NEW key \in 1..generation, Collect(a, s, consistent, key)
        PROVE  IntakeInv'
    BY <1>1, CollectPreserves
  <1>2. ASSUME NEW a \in setting.subjects, SelfDeclare(a) PROVE IntakeInv'
    BY <1>2, SelfDeclarePreserves
  <1>3. ASSUME NEW a \in setting.subjects, NEW approvedAt \in 0..(clock + Skew),
               NEW expiresAt \in (clock + 1)..awaiting[a], Approve(a, approvedAt, expiresAt)
        PROVE  IntakeInv'
    BY <1>3, ApprovePreserves
  <1>4. ASSUME NEW a \in setting.subjects, NEW keyOf \in [Collectable -> 1..generation],
               Simulate(a, keyOf)
        PROVE  IntakeInv'
    BY <1>4, SimulatePreserves
  <1>5. ASSUME NEW a \in setting.subjects, Evaluate(a) PROVE IntakeInv'
    BY <1>5, EvaluatePreserves
  <1>6. ASSUME NEW a \in setting.subjects, Persist(a) PROVE IntakeInv'
    BY <1>6, PersistPreserves
  <1>7. ASSUME NEW a \in setting.subjects, AnchorFails(a) PROVE IntakeInv'
    BY <1>7, AnchorFailsPreserves
  <1>8. ASSUME NEW a \in setting.subjects, SimulationExpires(a) PROVE IntakeInv'
    BY <1>8, SimulationExpiresPreserves
  <1>9. ASSUME NEW r \in Runs, NEW conclusion \in Conclusions, NEW artifact \in BOOLEAN,
               NEW ahead \in 0..Skew, RunChanges(r, conclusion, artifact, ahead)
        PROVE  IntakeInv'
    BY <1>9, RunChangesPreserves
  <1>10. ASSUME NEW id \in setting.deliveryIds, NEW event \in history, Deliver(id, event)
         PROVE  IntakeInv'
    BY <1>10, DeliverPreserves
  <1>11. ASSUME NEW c \in setting.callers, NEW a \in setting.subjects, VerifyReuses(c, a)
         PROVE  IntakeInv'
    BY <1>11, VerifyEndsPreserves DEF VerifyReuses
  <1>12. ASSUME NEW c \in setting.callers, NEW a \in setting.subjects,
                NEW named \in {""} \cup setting.deliveryIds,
                VerifyStart(c, a, named) \/ VerifyRefused(c, a, named)
         PROVE  IntakeInv'
    <2>1. CASE VerifyStart(c, a, named)
      BY <2>1, VerifyStartPreserves
    <2>2. CASE VerifyRefused(c, a, named)
      BY <2>2, VerifyEndsPreserves DEF VerifyRefused
    <2> QED
      BY <1>12, <2>1, <2>2
  <1>13. ASSUME NEW c \in setting.callers, NEW r \in Runs, RunAnswers(c, r) PROVE IntakeInv'
    BY <1>13, RunAnswersPreserves
  <1>14. ASSUME NEW c \in setting.callers, ArtifactAnswers(c) PROVE IntakeInv'
    BY <1>14, ArtifactAnswersPreserves
  <1>15. ASSUME NEW c \in setting.callers, VerifyFails(c) PROVE IntakeInv'
    BY <1>15, VerifyEndsPreserves DEF VerifyFails
  <1>16. ASSUME NEW c \in setting.callers, VerifyReadsKey(c) PROVE IntakeInv'
    BY <1>16, VerifyReadsKeyPreserves
  <1>17. ASSUME NEW c \in setting.callers, VerifyStores(c) PROVE IntakeInv'
    BY <1>17, VerifyStoresPreserves
  <1>18. CASE Expire
    BY <1>18, ExpirePreserves
  <1>19. CASE Reset
    BY <1>19, ResetPreserves
  <1>20. CASE Tick
    BY <1>20, TickPreserves
  <1>21. CASE UNCHANGED vars
    <2>1. /\ verifying' \in [Callers -> Verification] /\ Calls'
          /\ UNCHANGED <<setting, clock, database, evaluating, github>>
      <3>1. UNCHANGED <<setting, clock, database, evaluating, verifying, github>>
        BY <1>21 DEF vars
      <3> QED
        BY <3>1, Unmoved DEF github, IntakeInv, EvidenceTypeOK
    <2> QED
      BY <2>1, VerifyingPreserves
  <1> HIDE DEF IntakeInv
  <1> QED
    BY <1>1, <1>2, <1>3, <1>4, <1>5, <1>6, <1>7, <1>8, <1>9, <1>10, <1>11, <1>12, <1>13, <1>14,
       <1>15, <1>16, <1>17, <1>18, <1>19, <1>20, <1>21 DEF Next

\* The inductive invariant of the receipts, calls and evaluations holds in every state.
THEOREM IntakeInvariant == Spec => []IntakeInv
  BY IntakeInit, IntakeStep, PTL DEF Spec

\* Every field keeps its type, with the bounds of what is stored and remembered.
THEOREM IntakeTypeCorrect == Spec => []EvidenceTypeOK
  <1>1. IntakeInv => EvidenceTypeOK
    BY DEF IntakeInv
  <1> QED
    BY <1>1, IntakeInvariant, PTL

\* evaluateEvidencePolicy allows an action exactly when every source it needs
\* testifies for it in this database now and none contradicts.
THEOREM IntakeAllowIsJustified == Spec => []AllowIsJustified
  <1>1. IntakeInv => AllowIsJustified
    BY AllowJustified DEF IntakeInv
  <1> QED
    BY <1>1, IntakeInvariant, PTL

\* The evidence root of a decision stands for one set of receipts, however many there
\* are and whatever levels have an odd number of hashes.
THEOREM IntakeRootsIdentify == Spec => []RootsIdentifyEvidence
  <1>1. IntakeInv => RootsIdentifyEvidence
    <2> SUFFICES ASSUME IntakeInv PROVE RootsIdentifyEvidence
      OBVIOUS
    <2>1. DOMAIN evidence = 1..Len(evidence) /\ Len(evidence) \in Nat
      BY DEF IntakeInv, EvidenceTypeOK
    <2> QED
      BY <2>1, RootsAreAsManyAsSets DEF RootsIdentifyEvidence
  <1> QED
    BY <1>1, IntakeInvariant, PTL

\* The counts that go out with an ALLOW satisfy the asserts of registerDecision.
THEOREM IntakeAllowPassesContract == Spec => []AllowPassesContract
  <1>1. IntakeInv => AllowPassesContract
    BY AllowPasses DEF IntakeInv
  <1> QED
    BY <1>1, IntakeInvariant, PTL

\* Every receipt of the GitHub App tells of a success of a run of its action's commit.
THEOREM IntakeCiReceiptsAreObserved == Spec => []CiReceiptsAreObserved
  <1>1. IntakeInv => CiReceiptsAreObserved
    BY DEF IntakeInv, ReceiptsAreAttributed, Attributed, Observed, CiReceiptsAreObserved
  <1> QED
    BY <1>1, IntakeInvariant, PTL

\* verify-ci requests beside each other leave one receipt of the App in force.
THEOREM IntakeOneCiReceipt == Spec => []OneCiReceiptPerAction
  <1>1. IntakeInv => OneCiReceiptPerAction
    BY DEF IntakeInv
  <1> QED
    BY <1>1, IntakeInvariant, PTL

\* A simulation that ended left no key of what its decision rests on.
THEOREM IntakeSimulationErases == Spec => []SimulationErasesEvidence
  <1>1. IntakeInv => SimulationErasesEvidence
    BY DEF IntakeInv, EvaluationsRest, RestsOnItsAction, SimulationErasesEvidence
  <1> QED
    BY <1>1, IntakeInvariant, PTL

=============================================================================
