-------------------------- MODULE GovernanceProofs --------------------------
(***************************************************************************)
(* Theorems of CortexGovernance, for every set of wallets, mints, nonces,  *)
(* proposals and durations and every bound on the clock.                   *)
(***************************************************************************)
EXTENDS CortexGovernance, FiniteSetTheorems, WellFoundedInduction, TLAPS

-----------------------------------------------------------------------------
(* Sums over finite sets. *)

\* The element a fold takes first.
pick(s) == CHOOSE x \in s : TRUE

\* A sum is the value at the whole set of the function its recursion chooses.
LEMMA SumUnfold == \A f, S :
    SumFunctionOnSet(f, S) =
      (CHOOSE g : g = [s \in SUBSET S |-> IF s = {} THEN 0
                                          ELSE f[pick(s)] + g[s \ {pick(s)}]])[S]
BY Zenon DEF SumFunctionOnSet, FoldFunctionOnSet, MapThenFoldSet, pick

\* Induction over a finite set, for the subsets in a set Q.
LEMMA FiniteInduction ==
    ASSUME NEW S, IsFiniteSet(S), NEW Q, {} \in Q,
           \A T \in SUBSET S, x \in S : T \in Q /\ x \notin T => T \cup {x} \in Q
    PROVE  S \in Q
<1> DEFINE B == {T \in SUBSET S : T \notin Q}
<1>. SUFFICES ASSUME S \notin Q PROVE FALSE
  OBVIOUS
<1>1. IsWellFoundedOn(StrictSubsetOrdering(S), FiniteSubsetsOf(S))
  BY FS_StrictSubsetOrderingWellFounded
<1>2. B \subseteq FiniteSubsetsOf(S) /\ B # {}
  BY FS_Subset DEF FiniteSubsetsOf
<1>3. PICK T \in B : \A U \in B : <<U, T>> \notin StrictSubsetOrdering(S)
  <2>. HIDE DEF B
  <2>. QED  BY <1>1, <1>2, WFMin
<1>4. PICK x \in T : TRUE
  OBVIOUS
<1>5. T \ {x} \in B
  <2>1. T \in SUBSET S /\ T \notin Q /\ x \in S /\ T = (T \ {x}) \cup {x}
    OBVIOUS
  <2> DEFINE U == T \ {x}
  <2>2. U \in SUBSET S /\ x \notin U /\ U \cup {x} \notin Q
    BY <2>1
  <2>. HIDE DEF U
  <2>3. U \notin Q
    BY <2>1, <2>2
  <2>. QED  BY <2>2, <2>3 DEF U
<1>6. <<T \ {x}, T>> \in StrictSubsetOrdering(S)
  BY <1>4 DEF StrictSubsetOrdering
<1>. QED  BY <1>3, <1>5, <1>6

\* The same for well-founded induction over strict subsets.
LEMMA FiniteWF ==
    ASSUME NEW S, IsFiniteSet(S), NEW Q,
           \A T \in SUBSET S : (\A U \in SUBSET T : U # T => U \in Q) => T \in Q
    PROVE  S \in Q
<1> DEFINE B == {T \in SUBSET S : T \notin Q}
<1>. SUFFICES ASSUME S \notin Q PROVE FALSE
  OBVIOUS
<1>1. IsWellFoundedOn(StrictSubsetOrdering(S), FiniteSubsetsOf(S))
  BY FS_StrictSubsetOrderingWellFounded
<1>2. B \subseteq FiniteSubsetsOf(S) /\ B # {}
  BY FS_Subset DEF FiniteSubsetsOf
<1>3. PICK T \in B : \A U \in B : <<U, T>> \notin StrictSubsetOrdering(S)
  <2>. HIDE DEF B
  <2>. QED  BY <1>1, <1>2, WFMin
<1>4. PICK U \in SUBSET T : U # T /\ U \notin Q
  OBVIOUS
<1>5. U \in B /\ <<U, T>> \in StrictSubsetOrdering(S)
  BY <1>4 DEF StrictSubsetOrdering
<1>. QED  BY <1>3, <1>5

\* g solves the recursion of the sum of f over the subsets of S.
SumDef(f, S, g) == g = [s \in SUBSET S |-> IF s = {} THEN 0 ELSE f[pick(s)] + g[s \ {pick(s)}]]

\* A fold takes an element of the set.
LEMMA PickIn == \A s : s # {} => pick(s) \in s
BY DEF pick

\* Solutions over a set and over one of its subsets agree on the subset.
LEMMA SumsUnique ==
    ASSUME NEW f, NEW S, IsFiniteSet(S), NEW T \in SUBSET S,
           NEW g, NEW h, SumDef(f, S, g), SumDef(f, T, h)
    PROVE  g[T] = h[T]
<1> DEFINE Q == {U \in SUBSET T : g[U] = h[U]}
<1>1. ASSUME NEW U \in SUBSET T, \A V \in SUBSET U : V # U => V \in Q
      PROVE  U \in Q
  <2>1. /\ g[U] = IF U = {} THEN 0 ELSE f[pick(U)] + g[U \ {pick(U)}]
        /\ h[U] = IF U = {} THEN 0 ELSE f[pick(U)] + h[U \ {pick(U)}]
    BY Zenon DEF SumDef
  <2>2. U # {} => U \ {pick(U)} \in SUBSET U /\ U \ {pick(U)} # U
    BY PickIn
  <2>3. U # {} => g[U \ {pick(U)}] = h[U \ {pick(U)}]
    BY <1>1, <2>2
  <2>. QED  BY <2>1, <2>3
<1>2. IsFiniteSet(T)
  BY FS_Subset
<1>. HIDE DEF Q
<1>3. T \in Q
  BY <1>1, <1>2, FiniteWF
<1>. QED  BY <1>3 DEF Q

\* The recursion has a solution over every finite set.
LEMMA SumsExist ==
    ASSUME NEW S, IsFiniteSet(S), NEW f, \A x \in S : f[x] \in Int
    PROVE  \E g \in [SUBSET S -> Int] : SumDef(f, S, g)
<1> DEFINE N == Cardinality(S)
           body(h, s) == IF s = {} THEN 0 ELSE f[pick(s)] + h[s \ {pick(s)}]
           Good(n, h) == \A s \in SUBSET S : Cardinality(s) <= n => h[s] = body(h, s)
           Q == {T \in SUBSET S : \E h \in [SUBSET S -> Int] : Good(Cardinality(T), h)}
<1>0. \A T \in SUBSET S : IsFiniteSet(T) /\ Cardinality(T) \in Nat
  BY FS_Subset, FS_CardinalityType
<1>1. {} \in Q
  <2>1. [s \in SUBSET S |-> 0] \in [SUBSET S -> Int]
    OBVIOUS
  <2>2. Good(0, [s \in SUBSET S |-> 0])
    <3>1. \A s \in SUBSET S : Cardinality(s) <= 0 => s = {}
      BY <1>0, FS_EmptySet
    <3>. QED  BY <3>1
  <2>. QED  BY <2>1, <2>2, FS_EmptySet
<1>2. ASSUME NEW T \in SUBSET S, NEW x \in S, T \in Q, x \notin T
      PROVE  T \cup {x} \in Q
  <2> DEFINE n == Cardinality(T)
  <2>1. PICK h \in [SUBSET S -> Int] : Good(n, h)
    BY <1>2
  <2> DEFINE k == [s \in SUBSET S |-> body(h, s)]
  <2>2. \A s \in SUBSET S : s # {} => /\ pick(s) \in S
                                       /\ s \ {pick(s)} \in SUBSET S
                                       /\ Cardinality(s \ {pick(s)}) = Cardinality(s) - 1
    BY <1>0, PickIn, FS_RemoveElement
  <2>3. k \in [SUBSET S -> Int]
    <3>1. ASSUME NEW s \in SUBSET S PROVE body(h, s) \in Int
      <4> DEFINE t == s \ {pick(s)}
      <4>1. s # {} => f[pick(s)] \in Int /\ h[t] \in Int
        BY <2>1, <2>2
      <4>2. body(h, s) = IF s = {} THEN 0 ELSE f[pick(s)] + h[t]
        OBVIOUS
      <4>. HIDE DEF t, body
      <4>. QED  BY <4>1, <4>2
    <3>. HIDE DEF body
    <3>. QED  BY <3>1
  <2>4. Cardinality(T \cup {x}) = n + 1 /\ n \in Nat
    BY <1>0, <1>2, FS_AddElement
  <2>5. ASSUME NEW s \in SUBSET S, Cardinality(s) <= n + 1
        PROVE  k[s] = body(k, s)
    <3>1. CASE s = {}
      BY <3>1
    <3>2. CASE s # {}
      <4> DEFINE t == s \ {pick(s)}
      <4>1. t \in SUBSET S /\ Cardinality(t) <= n
        BY <1>0, <2>2, <2>4, <2>5, <3>2
      <4>2. h[t] = body(h, t)
        BY <2>1, <4>1
      <4>3. k[t] = body(h, t)
        BY <4>1
      <4>. HIDE DEF t
      <4>4. k[s] = f[pick(s)] + h[t]
        BY <3>2 DEF t
      <4>5. body(k, s) = f[pick(s)] + k[t]
        BY <3>2 DEF t
      <4>. HIDE DEF k, body
      <4>. QED  BY <4>2, <4>3, <4>4, <4>5
    <3>. QED  BY <3>1, <3>2
  <2>6. Good(n + 1, k)
    <3>. HIDE DEF k, body, n
    <3>. QED  BY <2>5
  <2>7. T \cup {x} \in SUBSET S
    OBVIOUS
  <2>. HIDE DEF k, Good, n
  <2>. QED  BY <2>3, <2>4, <2>6, <2>7
<1>. HIDE DEF Q
<1>3. S \in Q
  BY <1>1, <1>2, FiniteInduction
<1>4. PICK h \in [SUBSET S -> Int] : Good(N, h)
  BY <1>3 DEF Q
<1>5. \A s \in SUBSET S : h[s] = body(h, s)
  BY <1>0, <1>4, FS_Subset
<1>6. h = [s \in SUBSET S |-> body(h, s)]
  <2>. HIDE DEF body
  <2>. QED  BY <1>4, <1>5
<1>. QED  BY <1>6 DEF SumDef

\* g holds the sums of f over all subsets of S.
IsSums(f, S, g) == /\ g \in [SUBSET S -> Int]
                     /\ SumDef(f, S, g)
                     /\ \A T \in SUBSET S : SumFunctionOnSet(f, T) = g[T]

\* The sums over the subsets of a finite set solve the recursion.
LEMMA SumsDefined ==
    ASSUME NEW S, IsFiniteSet(S), NEW f, \A x \in S : f[x] \in Int
    PROVE  \E g : IsSums(f, S, g)
<1>1. PICK g \in [SUBSET S -> Int] : SumDef(f, S, g)
  BY SumsExist
<1>2. ASSUME NEW T \in SUBSET S PROVE SumFunctionOnSet(f, T) = g[T]
  <2>1. IsFiniteSet(T) /\ \A x \in T : f[x] \in Int
    BY FS_Subset
  <2>2. \E h : SumDef(f, T, h)
    BY <2>1, SumsExist
  <2> DEFINE h == CHOOSE h : SumDef(f, T, h)
  <2>3. SumDef(f, T, h)
    BY <2>2, Zenon
  <2>4. SumFunctionOnSet(f, T) = h[T]
    BY SumUnfold, Zenon DEF SumDef
  <2>. HIDE DEF h
  <2>. QED  BY <1>1, <2>3, <2>4, SumsUnique
<1>. QED  BY <1>1, <1>2, Zenon DEF IsSums

\* A sum of integers is an integer.
LEMMA SumInt ==
    ASSUME NEW S, IsFiniteSet(S), NEW f, \A x \in S : f[x] \in Int
    PROVE  SumFunctionOnSet(f, S) \in Int
<1>1. PICK g : IsSums(f, S, g)
  BY SumsDefined
<1>2. S \in SUBSET S
  OBVIOUS
<1>. QED  BY <1>1, <1>2 DEF IsSums

\* The sum over no index is 0.
LEMMA SumEmpty == \A f : SumFunctionOnSet(f, {}) = 0
<1>. TAKE f
<1>0. IsFiniteSet({}) /\ \A x \in {} : f[x] \in Int
  BY FS_EmptySet
<1>1. PICK g : IsSums(f, {}, g)
  BY <1>0, SumsDefined
<1>2. {} \in SUBSET {}
  OBVIOUS
<1>. QED  BY <1>1, <1>2, Zenon DEF IsSums, SumDef

\* One step of the recursion.
LEMMA SumPick ==
    ASSUME NEW S, IsFiniteSet(S), NEW f, \A x \in S : f[x] \in Int, S # {}
    PROVE  SumFunctionOnSet(f, S) = f[pick(S)] + SumFunctionOnSet(f, S \ {pick(S)})
<1>1. PICK g : IsSums(f, S, g)
  BY SumsDefined
<1>2. S \in SUBSET S /\ S \ {pick(S)} \in SUBSET S
  OBVIOUS
<1>3. g[S] = f[pick(S)] + g[S \ {pick(S)}]
  BY <1>1, <1>2, Zenon DEF IsSums, SumDef
<1>. QED  BY <1>1, <1>2, <1>3 DEF IsSums

\* Any element may be taken first: the order of a sum does not matter.
LEMMA SumRemove ==
    ASSUME NEW S, IsFiniteSet(S), NEW f, \A x \in S : f[x] \in Int, NEW x \in S
    PROVE  SumFunctionOnSet(f, S) = f[x] + SumFunctionOnSet(f, S \ {x})
<1> DEFINE Q == {T \in SUBSET S :
                   \A y \in T : SumFunctionOnSet(f, T) = f[y] + SumFunctionOnSet(f, T \ {y})}
<1>0. \A T \in SUBSET S : IsFiniteSet(T) /\ SumFunctionOnSet(f, T) \in Int
  BY FS_Subset, SumInt
<1>1. ASSUME NEW T \in SUBSET S, \A U \in SUBSET T : U # T => U \in Q, NEW y \in T
      PROVE  SumFunctionOnSet(f, T) = f[y] + SumFunctionOnSet(f, T \ {y})
  <2> DEFINE z == pick(T)
             Tz == T \ {z}
             Ty == T \ {y}
             Tyz == T \ {y, z}
  <2>1. z \in T
    BY PickIn
  <2>2. SumFunctionOnSet(f, T) = f[z] + SumFunctionOnSet(f, Tz)
    BY <1>0, SumPick
  <2>. HIDE DEF z
  <2>3. CASE y = z
    BY <2>2, <2>3
  <2>4. CASE y # z
    <3>1. /\ Tz \in SUBSET T /\ Tz # T /\ y \in Tz /\ Tz \ {y} = Tyz
          /\ Ty \in SUBSET T /\ Ty # T /\ z \in Ty /\ Ty \ {z} = Tyz
          /\ Tyz \in SUBSET S
      BY <2>1, <2>4
    <3>2. Tz \in Q /\ Ty \in Q
      BY <1>1, <3>1
    <3>. HIDE DEF Tz, Ty, Tyz
    <3>3. /\ SumFunctionOnSet(f, Tz) = f[y] + SumFunctionOnSet(f, Tyz)
          /\ SumFunctionOnSet(f, Ty) = f[z] + SumFunctionOnSet(f, Tyz)
      BY <3>1, <3>2
    <3>4. f[y] \in Int /\ f[z] \in Int /\ SumFunctionOnSet(f, Tyz) \in Int
      BY <1>0, <2>1, <3>1
    <3>5. SumFunctionOnSet(f, T) = f[y] + SumFunctionOnSet(f, Ty)
      BY <2>2, <3>3, <3>4
    <3>. QED  BY <3>5 DEF Ty
  <2>. QED  BY <2>3, <2>4
<1>2. \A T \in SUBSET S : (\A U \in SUBSET T : U # T => U \in Q) => T \in Q
  BY <1>1
<1>. HIDE DEF Q
<1>3. S \in Q
  BY <1>2, FiniteWF
<1>. QED  BY <1>3 DEF Q

\* A new index adds its value.
LEMMA SumAdd ==
    ASSUME NEW S, IsFiniteSet(S), NEW f, \A x \in S : f[x] \in Int,
           NEW y, y \notin S, f[y] \in Int
    PROVE  SumFunctionOnSet(f, S \cup {y}) = f[y] + SumFunctionOnSet(f, S)
<1>1. IsFiniteSet(S \cup {y}) /\ (S \cup {y}) \ {y} = S
  BY FS_AddElement
<1>. QED  BY <1>1, SumRemove

\* A sum depends only on the values at its indices.
LEMMA SumSame ==
    ASSUME NEW S, IsFiniteSet(S), NEW f, NEW g, \A x \in S : f[x] \in Int /\ g[x] = f[x]
    PROVE  SumFunctionOnSet(g, S) = SumFunctionOnSet(f, S)
<1> DEFINE Q == {T \in SUBSET S : SumFunctionOnSet(g, T) = SumFunctionOnSet(f, T)}
<1>1. {} \in Q
  BY SumEmpty
<1>2. ASSUME NEW T \in SUBSET S, NEW x \in S, T \in Q, x \notin T PROVE T \cup {x} \in Q
  <2>1. IsFiniteSet(T)
    BY FS_Subset
  <2>2. /\ SumFunctionOnSet(g, T \cup {x}) = g[x] + SumFunctionOnSet(g, T)
        /\ SumFunctionOnSet(f, T \cup {x}) = f[x] + SumFunctionOnSet(f, T)
    BY <1>2, <2>1, SumAdd
  <2>. QED  BY <1>2, <2>2
<1>. HIDE DEF Q
<1>3. S \in Q
  BY <1>1, <1>2, FiniteInduction
<1>. QED  BY <1>3 DEF Q

\* Changing the value at one index changes the sum by the difference.
LEMMA SumChange ==
    ASSUME NEW S, IsFiniteSet(S), NEW f, NEW g, NEW y \in S,
           \A x \in S : f[x] \in Int /\ g[x] \in Int,
           \A x \in S : x # y => g[x] = f[x]
    PROVE  SumFunctionOnSet(g, S) = SumFunctionOnSet(f, S) - f[y] + g[y]
<1> DEFINE T == S \ {y}
<1>1. /\ SumFunctionOnSet(g, S) = g[y] + SumFunctionOnSet(g, T)
      /\ SumFunctionOnSet(f, S) = f[y] + SumFunctionOnSet(f, T)
  BY SumRemove
<1>2. IsFiniteSet(T)
  BY FS_RemoveElement
<1>3. SumFunctionOnSet(g, T) = SumFunctionOnSet(f, T) /\ SumFunctionOnSet(f, T) \in Int
  BY <1>2, SumSame, SumInt
<1>. HIDE DEF T
<1>. QED  BY <1>1, <1>3

\* A sum of naturals is a natural.
LEMMA SumNat ==
    ASSUME NEW S, IsFiniteSet(S), NEW f, \A x \in S : f[x] \in Nat
    PROVE  SumFunctionOnSet(f, S) \in Nat
<1> DEFINE Q == {T \in SUBSET S : SumFunctionOnSet(f, T) \in Nat}
<1>1. {} \in Q
  BY SumEmpty
<1>2. ASSUME NEW T \in SUBSET S, NEW x \in S, T \in Q, x \notin T PROVE T \cup {x} \in Q
  <2>1. IsFiniteSet(T)
    BY FS_Subset
  <2>2. SumFunctionOnSet(f, T \cup {x}) = f[x] + SumFunctionOnSet(f, T)
    BY <1>2, <2>1, SumAdd
  <2>. QED  BY <1>2, <2>2
<1>. HIDE DEF Q
<1>3. S \in Q
  BY <1>1, <1>2, FiniteInduction
<1>. QED  BY <1>3 DEF Q

\* A sum whose terms are matched one to one with larger terms is smaller.
LEMMA SumAtMost ==
    ASSUME NEW S, NEW T, IsFiniteSet(S), IsFiniteSet(T), NEW f, NEW g, NEW sigma \in [S -> T],
           \A x \in S : f[x] \in Nat /\ f[x] <= g[sigma[x]],
           \A y \in T : g[y] \in Nat,
           \A x, y \in S : sigma[x] = sigma[y] => x = y
    PROVE  SumFunctionOnSet(f, S) <= SumFunctionOnSet(g, T)
<1> DEFINE rest(U) == T \ {sigma[x] : x \in U}
           Q == {U \in SUBSET S :
                   SumFunctionOnSet(f, U) + SumFunctionOnSet(g, rest(U)) <= SumFunctionOnSet(g, T)}
<1>0. \A U \in SUBSET S : /\ IsFiniteSet(U) /\ IsFiniteSet(rest(U))
                            /\ SumFunctionOnSet(f, U) \in Nat
                            /\ SumFunctionOnSet(g, rest(U)) \in Nat
  BY FS_Subset, FS_Difference, SumNat
<1>1. {} \in Q
  <2>1. rest({}) = T /\ SumFunctionOnSet(f, {}) = 0 /\ SumFunctionOnSet(g, T) \in Nat
    BY SumEmpty, SumNat
  <2>. QED  BY <2>1
<1>2. ASSUME NEW U \in SUBSET S, NEW x \in S, U \in Q, x \notin U PROVE U \cup {x} \in Q
  <2> DEFINE R == rest(U)
             V == rest(U \cup {x})
  <2>1. SumFunctionOnSet(f, U \cup {x}) = f[x] + SumFunctionOnSet(f, U)
    <3>1. IsFiniteSet(U)
      BY <1>0
    <3>2. f[x] \in Int /\ \A y \in U : f[y] \in Int
      OBVIOUS
    <3>. QED  BY <1>2, <3>1, <3>2, SumAdd
  <2>2. sigma[x] \in R /\ V = R \ {sigma[x]} /\ \A y \in R : g[y] \in Int
    BY <1>2
  <2>3. IsFiniteSet(R) /\ SumFunctionOnSet(g, R) \in Nat /\ SumFunctionOnSet(f, U) \in Nat
    BY <1>0
  <2>4. /\ SumFunctionOnSet(f, U) + SumFunctionOnSet(g, R) <= SumFunctionOnSet(g, T)
        /\ SumFunctionOnSet(g, T) \in Nat
    BY <1>2, SumNat
  <2>5. U \cup {x} \in SUBSET S /\ SumFunctionOnSet(g, V) \in Nat
    BY <1>0
  <2>. HIDE DEF R, V
  <2>6. SumFunctionOnSet(g, R) = g[sigma[x]] + SumFunctionOnSet(g, V)
    BY <2>2, <2>3, SumRemove
  <2>7. SumFunctionOnSet(f, U \cup {x}) + SumFunctionOnSet(g, V) <= SumFunctionOnSet(g, T)
    BY <2>1, <2>3, <2>4, <2>5, <2>6
  <2>. QED  BY <2>5, <2>7 DEF V
<1>. HIDE DEF Q
<1>3. S \in Q
  BY <1>1, <1>2, FiniteInduction
<1>4. SumFunctionOnSet(f, S) + SumFunctionOnSet(g, rest(S)) <= SumFunctionOnSet(g, T)
  BY <1>3 DEF Q
<1>5. SumFunctionOnSet(g, T) \in Nat
  BY SumNat
<1>. HIDE DEF rest
<1>. QED  BY <1>0, <1>4, <1>5

-----------------------------------------------------------------------------
(* The ledger. *)

\* A transfer keeps every balance a u64.
LEMMA TransferType ==
    ASSUME LedgerTypeOK, NEW m \in Mints, NEW from \in Holders, NEW to \in Holders,
           NEW amount \in Amounts, transfer(m, from, to, amount)
    PROVE  LedgerTypeOK'
<1>. U64Max \in Nat /\ amount \in Nat
  BY LedgerAssumption
<1> DEFINE b == balances[m]
           c == [h \in Holders |-> b[h] - (IF h = from THEN amount ELSE 0)
                                        + (IF h = to THEN amount ELSE 0)]
<1>1. /\ b \in [Holders -> 0 .. U64Max]
      /\ b[from] >= amount
      /\ from # to => b[to] + amount <= U64Max
  BY DEF LedgerTypeOK, transfer
<1>2. balances' = [balances EXCEPT ![m] = c]
  BY DEF transfer
<1>. HIDE DEF b
<1>3. c \in [Holders -> 0 .. U64Max]
  BY <1>1
<1>. HIDE DEF c
<1>. QED  BY <1>2, <1>3 DEF LedgerTypeOK, transfer

\* A mint keeps every balance and supply a u64.
LEMMA MintType ==
    ASSUME LedgerTypeOK, NEW m \in Mints, NEW to \in Holders, NEW amount \in Amounts,
           mint_to(m, to, amount)
    PROVE  LedgerTypeOK'
<1>. U64Max \in Nat /\ amount \in Nat
  BY LedgerAssumption
<1>1. balances[m] \in [Holders -> 0 .. U64Max] /\ supply[m] \in 0 .. U64Max
  BY DEF LedgerTypeOK
<1>2. balances[m][to] + amount \in 0 .. U64Max /\ supply[m] + amount \in 0 .. U64Max
  BY <1>1 DEF mint_to
<1>. QED  BY <1>1, <1>2 DEF LedgerTypeOK, mint_to

-----------------------------------------------------------------------------
(* The accounts of both programs. *)

\* Wallets, treasuries and the stake vault hold tokens.
LEMMA HoldersOf == \A u \in Users : {Wallet(u), TreasuryOf(u), StakeVault} \subseteq Holders
BY DEF Holders

\* The programs start with no account.
LEMMA InitType == Init => TypeOK
<1>. SUFFICES ASSUME Init PROVE TypeOK
  OBVIOUS
<1>1. LedgerTypeOK
  BY LedgerAssumption DEF Init, LedgerInit, LedgerTypeOK
<1>2. TokenTypeOK
  BY TokenAssumption DEF Init, TokenInit, TokenTypeOK
<1>3. TreasuryTypeOK
  BY DEF Init, TreasuryInit, TreasuryTypeOK
<1>. QED  BY <1>1, <1>2, <1>3 DEF TypeOK

\* Every instruction of cortex_token keeps the type.
LEMMA TokenStepType ==
    ASSUME TypeOK, TokenStep
    PROVE  LedgerTypeOK' /\ TokenTypeOK'
<1>. LedgerTypeOK /\ TokenTypeOK
  BY DEF TypeOK
<1>. \A x \in Amounts : x \in Nat
  BY LedgerAssumption
<1>1. CASE Tick
  <2>1. now' \in 0 .. MaxTime
    BY <1>1, TokenAssumption DEF Tick, TokenTypeOK
  <2>. QED  BY <1>1, <2>1 DEF Tick, ledgerVars, LedgerTypeOK, TokenTypeOK
<1>2. ASSUME NEW m \in Mints, NEW h \in Holders, NEW x \in Amounts, mint_to_treasury(m, h, x)
      PROVE  LedgerTypeOK' /\ TokenTypeOK'
  BY <1>2, MintType DEF mint_to_treasury, tokenVars, TokenTypeOK
<1>3. ASSUME NEW m \in Mints, NEW u \in Users, NEW h \in Holders, NEW x \in Amounts,
             transfer_tokens(m, u, h, x)
      PROVE  LedgerTypeOK' /\ TokenTypeOK'
  BY <1>3, HoldersOf, TransferType DEF transfer_tokens, tokenVars, TokenTypeOK
<1>4. ASSUME NEW m \in Mints, NEW u \in Users, NEW n \in Nonces, NEW x \in Amounts,
             stake_for_vesal(u, n, m, x)
      PROVE  LedgerTypeOK' /\ TokenTypeOK'
  <2> DEFINE s == [owner |-> u, nonce |-> n]
             e == [mint |-> m, amount |-> x]
  <2>1. LedgerTypeOK'
    BY <1>4, HoldersOf, TransferType DEF stake_for_vesal
  <2>2. s \in StakeAddress /\ e \in StakeEntry
    BY DEF StakeAddress, StakeEntry
  <2>3. stakes' = put(stakes, s, e) /\ UNCHANGED <<now, vesals, proposals, votes>>
    BY <1>4 DEF stake_for_vesal
  <2>. HIDE DEF s, e
  <2>. QED  BY <2>1, <2>2, <2>3 DEF TokenTypeOK, put
<1>5. ASSUME NEW s \in DOMAIN stakes, NEW d \in Durations, lock_vesal(s, d)
      PROVE  LedgerTypeOK' /\ TokenTypeOK'
  <2> DEFINE e == [amount |-> stakes[s].amount, lock_end |-> now + d]
  <2>1. e \in VeSal
    BY <1>5 DEF lock_vesal, TokenTypeOK, StakeEntry, VeSal
  <2>2. vesals' = put(vesals, s, e) /\ UNCHANGED <<ledgerVars, now, stakes, proposals, votes>>
    BY <1>5 DEF lock_vesal
  <2>. HIDE DEF e
  <2>. QED  BY <2>1, <2>2 DEF LedgerTypeOK, ledgerVars, TokenTypeOK, put
<1>6. ASSUME NEW u \in Users, NEW id \in ProposalIds, create_proposal(u, id)
      PROVE  LedgerTypeOK' /\ TokenTypeOK'
  <2> DEFINE p == [proposer |-> u, id |-> id]
             e == [yes_votes |-> 0, no_votes |-> 0]
  <2>1. p \in ProposalAddress /\ e \in Proposal
    BY LedgerAssumption DEF ProposalAddress, Proposal
  <2>2. proposals' = put(proposals, p, e) /\ UNCHANGED <<ledgerVars, now, stakes, vesals, votes>>
    BY <1>6 DEF create_proposal
  <2>. HIDE DEF p, e
  <2>. QED  BY <2>1, <2>2 DEF LedgerTypeOK, ledgerVars, TokenTypeOK, put
<1>7. ASSUME NEW s \in DOMAIN vesals, NEW p \in DOMAIN proposals, NEW side \in {0, 1},
             vote(s, p, side)
      PROVE  LedgerTypeOK' /\ TokenTypeOK'
  <2> DEFINE v == [proposal |-> p, voter |-> s.owner]
             e == tallied(proposals[p], side, vesals[s].amount)
             r == [weight |-> vesals[s].amount, side |-> side]
  <2>1. s.owner \in Users /\ vesals[s].amount \in Nat
    BY DEF TokenTypeOK, StakeAddress, VeSal
  <2>2. v \in [proposal : DOMAIN proposals, voter : Users] /\ r \in VoteReceipt
    BY <2>1 DEF VoteReceipt
  <2>3. /\ e \in Proposal
        /\ proposals' = put(proposals, p, e) /\ votes' = put(votes, v, r)
        /\ UNCHANGED <<ledgerVars, now, stakes, vesals>>
    BY <1>7 DEF vote
  <2>. HIDE DEF v, e, r
  <2>4. DOMAIN proposals' = DOMAIN proposals /\ DOMAIN votes' = DOMAIN votes \cup {v}
    BY <2>3 DEF put
  <2>. QED  BY <2>2, <2>3, <2>4 DEF LedgerTypeOK, ledgerVars, TokenTypeOK, put
<1>. QED  BY <1>1, <1>2, <1>3, <1>4, <1>5, <1>6, <1>7 DEF TokenStep

\* Every instruction of cortex_treasury keeps the type.
LEMMA TreasuryStepType ==
    ASSUME TypeOK, TreasuryStep
    PROVE  LedgerTypeOK' /\ TreasuryTypeOK'
<1>. LedgerTypeOK /\ TreasuryTypeOK
  BY DEF TypeOK
<1>1. ASSUME NEW u \in Users, NEW m \in Mints, initialize(u, m)
      PROVE  LedgerTypeOK' /\ TreasuryTypeOK'
  BY <1>1 DEF initialize, ledgerVars, LedgerTypeOK, TreasuryTypeOK
<1>2. ASSUME NEW u \in Users, NEW x \in Amounts, deposit(u, x)
      PROVE  LedgerTypeOK' /\ TreasuryTypeOK'
  BY <1>2, HoldersOf, TransferType DEF deposit, TreasuryTypeOK
<1>3. ASSUME NEW u \in Users, NEW h \in Holders, NEW x \in Amounts, withdraw(u, h, x)
      PROVE  LedgerTypeOK' /\ TreasuryTypeOK'
  BY <1>3, HoldersOf, TransferType DEF withdraw, TreasuryTypeOK
<1>. QED  BY <1>1, <1>2, <1>3 DEF TreasuryStep

\* Every instruction of either program keeps the type.
LEMMA NextType == TypeOK /\ [Next]_vars => TypeOK'
<1>. SUFFICES ASSUME TypeOK, [Next]_vars PROVE TypeOK'
  OBVIOUS
<1>1. CASE TokenStep /\ UNCHANGED treasuries
  BY <1>1, TokenStepType DEF TypeOK, TreasuryTypeOK
<1>2. CASE TreasuryStep /\ UNCHANGED tokenVars
  BY <1>2, TreasuryStepType DEF TypeOK, tokenVars, TokenTypeOK
<1>3. CASE UNCHANGED vars
  BY <1>3 DEF vars, ledgerVars, tokenVars, TypeOK, LedgerTypeOK, TokenTypeOK, TreasuryTypeOK
<1>. QED  BY <1>1, <1>2, <1>3 DEF Next

\* Every account of both programs and of the ledger stays well formed: no balance
\* or tally leaves u64, a lock belongs to a stake and a vote to a proposal.
THEOREM GovernanceTypeCorrect == Spec => []TypeOK
BY InitType, NextType, PTL DEF Spec

\* A vote that counted is never changed or withdrawn, whatever the voter stakes or
\* locks later, and a treasury keeps its mint however often it is initialised.
THEOREM BindingsAreFinal == Spec => BindingsFinal
<1> DEFINE Votes == \A v \in DOMAIN votes :
                      votes[v].weight > 0 => v \in DOMAIN votes' /\ votes'[v] = votes[v]
           Mintings == \A a \in DOMAIN treasuries :
                         a \in DOMAIN treasuries' /\ treasuries'[a] = treasuries[a]
<1>1. ASSUME Next PROVE Votes
  <2>1. CASE UNCHANGED votes
    BY <2>1
  <2>2. ASSUME NEW s, NEW p, NEW side, vote(s, p, side) PROVE Votes
    <3> DEFINE w == [proposal |-> p, voter |-> s.owner]
    <3>1. w \in DOMAIN votes => votes[w].weight = 0
      BY <2>2 DEF vote, weightOf
    <3>2. \A v \in DOMAIN votes : v # w => v \in DOMAIN votes' /\ votes'[v] = votes[v]
      BY <2>2 DEF vote, put
    <3>. HIDE DEF w
    <3>. QED  BY <3>1, <3>2
  <2>. QED  BY <1>1, <2>1, <2>2 DEF Next, TokenStep, tokenVars, Tick, mint_to_treasury,
                                    transfer_tokens, stake_for_vesal, lock_vesal, create_proposal
<1>2. ASSUME Next PROVE Mintings
  <2>1. ASSUME NEW u, NEW m, initialize(u, m) PROVE Mintings
    BY <2>1 DEF initialize
  <2>. QED  BY <1>2, <2>1 DEF Next, TreasuryStep, deposit, withdraw
<1>3. [Next]_vars => [Votes /\ Mintings]_vars
  BY <1>1, <1>2
<1>. QED  BY <1>3, PTL DEF Spec, BindingsFinal

-----------------------------------------------------------------------------
(* The inductive invariant. *)

\* The mints' shares of the staked tokens add up to all of them.
StakesAddUp == SumFunction([m \in Mints |-> stakedOf(m)]) = SumFunction(stakedAmounts)

\* Both tallies of a proposal together are the weights of all its receipts.
BallotsAddUp ==
    \A p \in DOMAIN proposals :
      proposals[p].yes_votes + proposals[p].no_votes =
        SumFunctionOnSet(voteWeights, {v \in DOMAIN votes : v.proposal = p})

\* A lock is of the whole stake, and a receipt's weight is a stake of the voter.
LocksWhole == \A s \in DOMAIN vesals : vesals[s].amount = stakes[s].amount
VotesStaked == \A v \in DOMAIN votes : \E s \in DOMAIN stakes :
                 s.owner = v.voter /\ stakes[s].amount = votes[v].weight

StakeInv == IsFiniteSet(DOMAIN stakes) /\ StakesBacked /\ StakesAddUp
VoteInv == IsFiniteSet(DOMAIN votes) /\ VotesTallied /\ BallotsAddUp /\ LocksWhole /\ VotesStaked

GovernanceInv == TypeOK /\ StakeInv /\ VoteInv

\* Writing the value at v, where the value was 0 or v was no index, adds it to the
\* sum over the indices it belongs to and leaves the sum over others.
LEMMA SumPut ==
    ASSUME NEW D, IsFiniteSet(D), NEW f, NEW g, NEW v, NEW K \in SUBSET D,
           NEW L \in SUBSET (D \cup {v}), L \ {v} = K \ {v},
           \A w \in D : f[w] \in Int, v \in D => f[v] = 0,
           g[v] \in Int, \A w \in D : w # v => g[w] = f[w]
    PROVE  SumFunctionOnSet(g, L) = SumFunctionOnSet(f, K) + (IF v \in L THEN g[v] ELSE 0)
<1> DEFINE J == K \ {v}
<1>1. IsFiniteSet(K) /\ IsFiniteSet(J)
  BY FS_Subset
<1>2. IsFiniteSet(L)
  <2>1. IsFiniteSet(D \cup {v})
    BY FS_AddElement
  <2>. QED  BY <2>1, FS_Subset
<1>3. SumFunctionOnSet(f, K) = SumFunctionOnSet(f, J) /\ SumFunctionOnSet(f, J) \in Int
  <2>1. SumFunctionOnSet(f, J) \in Int
    BY <1>1, SumInt
  <2>2. CASE v \in K
    <3>1. SumFunctionOnSet(f, K) = f[v] + SumFunctionOnSet(f, J)
      BY <1>1, <2>2, SumRemove
    <3>. QED  BY <2>1, <2>2, <3>1
  <2>3. CASE v \notin K
    <3>1. J = K
      BY <2>3
    <3>. QED  BY <2>1, <3>1
  <2>. QED  BY <2>2, <2>3
<1>4. SumFunctionOnSet(g, J) = SumFunctionOnSet(f, J)
  BY <1>1, SumSame
<1>5. CASE v \in L
  <2>1. SumFunctionOnSet(g, L) = g[v] + SumFunctionOnSet(g, L \ {v})
    <3>1. \A w \in L : g[w] \in Int
      OBVIOUS
    <3>. QED  BY <1>2, <1>5, <3>1, SumRemove
  <2>2. L \ {v} = J
    OBVIOUS
  <2>. HIDE DEF J
  <2>3. SumFunctionOnSet(g, L) = g[v] + SumFunctionOnSet(f, K)
    BY <1>3, <1>4, <2>1, <2>2, Zenon
  <2>4. SumFunctionOnSet(f, K) \in Int /\ g[v] \in Int
    BY <1>3
  <2>. QED  BY <1>5, <2>3, <2>4
<1>6. CASE v \notin L
  <2>1. L = J
    BY <1>6
  <2>. QED  BY <1>3, <1>4, <1>6, <2>1
<1>. QED  BY <1>5, <1>6

-----------------------------------------------------------------------------
(* Stakes. *)

Staking(st) == [s \in DOMAIN st |-> st[s].amount]
StakedIn(st, m) == SumFunctionOnSet(Staking(st), {s \in DOMAIN st : st[s].mint = m})

\* The sums of the model are those of its current stakes.
LEMMA StakedNow ==
    /\ stakedAmounts = Staking(stakes) /\ stakedAmounts' = Staking(stakes')
    /\ \A m : stakedOf(m) = StakedIn(stakes, m) /\ stakedOf(m)' = StakedIn(stakes', m)
BY DEF stakedAmounts, stakedOf, Staking, StakedIn

\* The stakes of a mint add up to a natural number.
LEMMA StakedNat ==
    ASSUME TokenTypeOK, IsFiniteSet(DOMAIN stakes), NEW m
    PROVE  StakedIn(stakes, m) \in Nat
<1> DEFINE K == {s \in DOMAIN stakes : stakes[s].mint = m}
<1>1. IsFiniteSet(K) /\ K \subseteq DOMAIN stakes
  BY FS_Subset
<1>2. \A s \in K : Staking(stakes)[s] \in Nat
  BY DEF TokenTypeOK, StakeEntry, Staking
<1>. HIDE DEF K
<1>3. SumFunctionOnSet(Staking(stakes), K) \in Nat
  BY <1>1, <1>2, SumNat
<1>. QED  BY <1>3 DEF StakedIn, K

\* A new stake adds its amount to the stakes of its mint and to all stakes.
LEMMA StakedPut ==
    ASSUME TokenTypeOK, IsFiniteSet(DOMAIN stakes), NEW a, a \notin DOMAIN stakes,
           NEW mnt, NEW x \in Nat, NEW st, st = put(stakes, a, [mint |-> mnt, amount |-> x])
    PROVE  /\ IsFiniteSet(DOMAIN st)
           /\ \A m : StakedIn(st, m) = StakedIn(stakes, m) + (IF m = mnt THEN x ELSE 0)
           /\ SumFunction(Staking(st)) = SumFunction(Staking(stakes)) + x
<1> DEFINE D == DOMAIN stakes
           f == Staking(stakes)
           g == Staking(st)
<1>1. DOMAIN st = D \cup {a} /\ st[a].amount = x /\ st[a].mint = mnt
  BY DEF put
<1>2. \A s \in D : st[s] = stakes[s] /\ s # a
  BY DEF put
<1>3. IsFiniteSet(DOMAIN st)
  BY <1>1, FS_AddElement
<1>4. \A s \in D : f[s] \in Int /\ g[s] = f[s]
  BY <1>1, <1>2 DEF Staking, TokenTypeOK, StakeEntry
<1>5. g[a] = x /\ DOMAIN f = D /\ DOMAIN g = D \cup {a}
  BY <1>1 DEF Staking
<1>6. ASSUME NEW m PROVE StakedIn(st, m) = StakedIn(stakes, m) + (IF m = mnt THEN x ELSE 0)
  <2> DEFINE K == {s \in D : stakes[s].mint = m}
             L == {s \in DOMAIN st : st[s].mint = m}
  <2>1. K \in SUBSET D /\ L \in SUBSET (D \cup {a}) /\ L \ {a} = K \ {a} /\ (a \in L <=> m = mnt)
    BY <1>1, <1>2
  <2>2. StakedIn(stakes, m) = SumFunctionOnSet(f, K) /\ StakedIn(st, m) = SumFunctionOnSet(g, L)
    BY DEF StakedIn
  <2>. HIDE DEF f, g, K, L, D
  <2>3. SumFunctionOnSet(g, L) = SumFunctionOnSet(f, K) + (IF a \in L THEN g[a] ELSE 0)
    BY <1>4, <1>5, <2>1, SumPut DEF D
  <2>. QED  BY <1>5, <2>1, <2>2, <2>3
<1>7. SumFunctionOnSet(g, D \cup {a}) = SumFunctionOnSet(f, D) + x
  <2>. HIDE DEF f, g
  <2>1. SumFunctionOnSet(g, D \cup {a})
          = SumFunctionOnSet(f, D) + (IF a \in D \cup {a} THEN g[a] ELSE 0)
    BY <1>4, <1>5, SumPut
  <2>. QED  BY <1>5, <2>1
<1>. QED  BY <1>3, <1>5, <1>6, <1>7 DEF SumFunction

\* The stake vault has an account of every mint.
LEMMA VaultBalance ==
    ASSUME LedgerTypeOK, NEW m \in Mints
    PROVE  balances[m][StakeVault] \in Int
<1>1. StakeVault \in Holders /\ balances[m] \in [Holders -> 0 .. U64Max]
  BY DEF LedgerTypeOK, Holders
<1>. QED  BY <1>1, LedgerAssumption

\* And so it has after a step.
LEMMA VaultBalanceNext ==
    ASSUME LedgerTypeOK', NEW m \in Mints
    PROVE  balances'[m][StakeVault] \in Int
<1>1. StakeVault \in Holders /\ balances'[m] \in [Holders -> 0 .. U64Max]
  BY DEF LedgerTypeOK, Holders
<1>. QED  BY <1>1, LedgerAssumption

\* A transfer from another account never lowers the stake vault's balance.
LEMMA VaultReceives ==
    ASSUME LedgerTypeOK, NEW m \in Mints, NEW from \in Holders, from # StakeVault,
           NEW to \in Holders, NEW amount \in Amounts, transfer(m, from, to, amount)
    PROVE  \A mm \in Mints : balances'[mm][StakeVault] >= balances[mm][StakeVault]
                               + (IF mm = m /\ to = StakeVault THEN amount ELSE 0)
<1>. amount \in Nat /\ U64Max \in Nat /\ StakeVault \in Holders
  BY LedgerAssumption DEF Holders
<1>1. TAKE mm \in Mints
<1>2. balances[mm][StakeVault] \in Nat
  BY DEF LedgerTypeOK
<1>3. CASE mm = m
  <2>1. balances'[m][StakeVault] = balances[m][StakeVault] + (IF to = StakeVault THEN amount ELSE 0)
    BY <1>2, <1>3 DEF transfer, LedgerTypeOK
  <2>. QED  BY <1>2, <1>3, <2>1
<1>4. CASE mm # m
  <2>1. balances'[mm] = balances[mm]
    BY <1>4 DEF transfer, LedgerTypeOK
  <2>. QED  BY <1>2, <1>4, <2>1
<1>. QED  BY <1>3, <1>4

\* The same without the amount.
LEMMA FromOther ==
    ASSUME LedgerTypeOK, NEW m \in Mints, NEW from \in Holders, from # StakeVault,
           NEW to \in Holders, NEW amount \in Amounts, transfer(m, from, to, amount)
    PROVE  \A mm \in Mints : balances'[mm][StakeVault] >= balances[mm][StakeVault]
<1>1. amount \in Nat
  BY LedgerAssumption
<1>2. LedgerTypeOK'
  BY TransferType
<1>. TAKE mm \in Mints
<1>3. balances[mm][StakeVault] \in Int /\ balances'[mm][StakeVault] \in Int
  BY <1>2, VaultBalance, VaultBalanceNext
<1>4. balances'[mm][StakeVault] >= balances[mm][StakeVault]
                                     + (IF mm = m /\ to = StakeVault THEN amount ELSE 0)
  BY VaultReceives
<1>. QED  BY <1>1, <1>3, <1>4

\* Wallets and treasuries are not the stake vault.
LEMMA VaultApart == \A u \in Users : Wallet(u) # StakeVault /\ TreasuryOf(u) # StakeVault
BY DEF Wallet, TreasuryOf, StakeVault

\* Steps that leave the stakes alone and do not take from the stake vault.
LEMMA StakesKept ==
    ASSUME TypeOK, StakeInv, stakes' = stakes, LedgerTypeOK',
           \A m \in Mints : balances'[m][StakeVault] >= balances[m][StakeVault]
    PROVE  StakeInv'
<1>1. \A m \in Mints : StakedIn(stakes, m) \in Nat
  BY StakedNat DEF TypeOK, StakeInv
<1>2. ASSUME NEW m \in Mints PROVE stakedOf(m)' <= balances'[m][StakeVault]
  <2>1. balances[m][StakeVault] \in Int /\ balances'[m][StakeVault] \in Int
    BY VaultBalance, VaultBalanceNext DEF TypeOK
  <2>2. stakedOf(m) <= balances[m][StakeVault]
    BY DEF StakeInv, StakesBacked
  <2>. QED  BY <1>1, <2>1, <2>2, StakedNow
<1>3. StakesBacked'
  BY <1>2 DEF StakesBacked
<1>4. StakesAddUp'
  BY StakedNow DEF StakeInv, StakesAddUp
<1>. QED  BY <1>3, <1>4 DEF StakeInv

\* A new stake is backed by the tokens that move with it.
LEMMA StakeKeeps ==
    ASSUME TypeOK, StakeInv, NEW m \in Mints, NEW u \in Users, NEW n \in Nonces,
           NEW x \in Amounts, stake_for_vesal(u, n, m, x)
    PROVE  StakeInv'
<1>. x \in Nat
  BY LedgerAssumption
<1> DEFINE a == [owner |-> u, nonce |-> n]
<1>1. /\ a \notin DOMAIN stakes
      /\ transfer(m, Wallet(u), StakeVault, x)
      /\ stakes' = put(stakes, a, [mint |-> m, amount |-> x])
  BY DEF stake_for_vesal
<1>2. Wallet(u) \in Holders /\ StakeVault \in Holders
  BY DEF Holders
<1>3. LedgerTypeOK'
  BY <1>1, <1>2, TransferType DEF TypeOK
<1>4. \A mm \in Mints : balances'[mm][StakeVault] >= balances[mm][StakeVault]
                                                      + (IF mm = m THEN x ELSE 0)
  BY <1>1, <1>2, VaultReceives, VaultApart DEF TypeOK
<1>. HIDE DEF a
<1>5. /\ IsFiniteSet(DOMAIN stakes')
      /\ \A mm : StakedIn(stakes', mm) = StakedIn(stakes, mm) + (IF mm = m THEN x ELSE 0)
      /\ SumFunction(Staking(stakes')) = SumFunction(Staking(stakes)) + x
  BY <1>1, StakedPut DEF TypeOK, StakeInv
<1>6. \A mm \in Mints : StakedIn(stakes, mm) \in Nat
  BY StakedNat DEF TypeOK, StakeInv
<1>7. ASSUME NEW mm \in Mints PROVE stakedOf(mm)' <= balances'[mm][StakeVault]
  <2>1. balances[mm][StakeVault] \in Int /\ balances'[mm][StakeVault] \in Int
    BY <1>3, VaultBalance, VaultBalanceNext DEF TypeOK
  <2>2. StakedIn(stakes, mm) <= balances[mm][StakeVault]
    BY StakedNow DEF StakeInv, StakesBacked
  <2>3. StakedIn(stakes', mm) <= balances'[mm][StakeVault]
    BY <1>4, <1>5, <1>6, <2>1, <2>2
  <2>. QED  BY <2>3, StakedNow
<1>8. StakesAddUp'
  <2> DEFINE f == [mm \in Mints |-> StakedIn(stakes, mm)]
             g == [mm \in Mints |-> StakedIn(stakes', mm)]
  <2>1. /\ \A mm \in Mints : f[mm] \in Int /\ g[mm] \in Int
        /\ \A mm \in Mints : mm # m => g[mm] = f[mm]
        /\ g[m] = f[m] + x /\ f[m] \in Int
    BY <1>5, <1>6
  <2>2. DOMAIN f = Mints /\ DOMAIN g = Mints
    OBVIOUS
  <2>3. /\ SumFunction(f) = SumFunction(Staking(stakes))
        /\ StakesAddUp' <=> SumFunction(g) = SumFunction(Staking(stakes'))
    BY StakedNow DEF StakeInv, StakesAddUp
  <2>. HIDE DEF f, g
  <2>4. SumFunctionOnSet(g, Mints) = SumFunctionOnSet(f, Mints) - f[m] + g[m]
    BY <2>1, KeysAssumption, SumChange
  <2>5. SumFunctionOnSet(f, Mints) \in Int
    BY <2>1, KeysAssumption, SumInt
  <2>6. SumFunctionOnSet(g, Mints) = SumFunctionOnSet(f, Mints) + x
    BY <2>1, <2>4, <2>5
  <2>. QED  BY <1>5, <2>2, <2>3, <2>6 DEF SumFunction
<1>. QED  BY <1>5, <1>7, <1>8 DEF StakeInv, StakesBacked

-----------------------------------------------------------------------------
(* Votes. *)

Weighing(vt) == [v \in DOMAIN vt |-> vt[v].weight]
CastOn(vt, p) == {v \in DOMAIN vt : v.proposal = p}
CastFor(vt, p, side) == {v \in DOMAIN vt : v.proposal = p /\ vt[v].side = side}

\* The sums of the model are those of its current receipts.
LEMMA VotesNow ==
    /\ voteWeights = Weighing(votes) /\ voteWeights' = Weighing(votes')
    /\ \A p, k : /\ votesOf(p, k) = SumFunctionOnSet(Weighing(votes), CastFor(votes, p, k))
                  /\ votesOf(p, k)' = SumFunctionOnSet(Weighing(votes'), CastFor(votes', p, k))
BY DEF voteWeights, votesOf, Weighing, CastFor

\* The receipts' invariant in those terms, and its value after a step.
LEMMA TalliesNow ==
    /\ VotesTallied <=>
         \A p \in DOMAIN proposals :
           /\ proposals[p].yes_votes = SumFunctionOnSet(Weighing(votes), CastFor(votes, p, 1))
           /\ proposals[p].no_votes = SumFunctionOnSet(Weighing(votes), CastFor(votes, p, 0))
    /\ VotesTallied' <=>
         \A p \in DOMAIN proposals' :
           /\ proposals'[p].yes_votes = SumFunctionOnSet(Weighing(votes'), CastFor(votes', p, 1))
           /\ proposals'[p].no_votes = SumFunctionOnSet(Weighing(votes'), CastFor(votes', p, 0))
    /\ BallotsAddUp <=>
         \A p \in DOMAIN proposals :
           proposals[p].yes_votes + proposals[p].no_votes
             = SumFunctionOnSet(Weighing(votes), CastOn(votes, p))
    /\ BallotsAddUp' <=>
         \A p \in DOMAIN proposals' :
           proposals'[p].yes_votes + proposals'[p].no_votes
             = SumFunctionOnSet(Weighing(votes'), CastOn(votes', p))
BY VotesNow DEF VotesTallied, BallotsAddUp, CastOn

\* A proposal without receipts has no votes.
LEMMA NoVotes ==
    ASSUME NEW vt, NEW p, CastOn(vt, p) = {}
    PROVE  /\ SumFunctionOnSet(Weighing(vt), CastOn(vt, p)) = 0
           /\ \A side : SumFunctionOnSet(Weighing(vt), CastFor(vt, p, side)) = 0
<1>1. \A side : CastFor(vt, p, side) = {}
  BY DEF CastFor, CastOn
<1>. QED  BY <1>1, SumEmpty

\* A receipt that is new or had weight 0 adds its weight on its proposal and side.
LEMMA VotePut ==
    ASSUME TokenTypeOK, IsFiniteSet(DOMAIN votes), NEW v, weightOf(v) = 0,
           NEW x \in Nat, NEW side, NEW vt, vt = put(votes, v, [weight |-> x, side |-> side])
    PROVE  /\ IsFiniteSet(DOMAIN vt)
           /\ \A p : SumFunctionOnSet(Weighing(vt), CastOn(vt, p))
                       = SumFunctionOnSet(Weighing(votes), CastOn(votes, p))
                         + (IF v.proposal = p THEN x ELSE 0)
           /\ \A p, k : SumFunctionOnSet(Weighing(vt), CastFor(vt, p, k))
                          = SumFunctionOnSet(Weighing(votes), CastFor(votes, p, k))
                            + (IF v.proposal = p /\ side = k THEN x ELSE 0)
<1> DEFINE D == DOMAIN votes
           f == Weighing(votes)
           g == Weighing(vt)
<1>1. DOMAIN vt = D \cup {v} /\ vt[v].weight = x /\ vt[v].side = side
  BY DEF put
<1>2. \A w \in D : w # v => vt[w] = votes[w]
  BY DEF put
<1>3. IsFiniteSet(DOMAIN vt)
  BY <1>1, FS_AddElement
<1>4. (\A w \in D : f[w] \in Int) /\ (\A w \in D : w # v => g[w] = f[w])
  BY <1>1, <1>2 DEF Weighing, TokenTypeOK, VoteReceipt
<1>5. g[v] = x /\ (v \in D => f[v] = 0)
  BY <1>1 DEF Weighing, weightOf
<1>6. ASSUME NEW p
      PROVE  SumFunctionOnSet(g, CastOn(vt, p))
               = SumFunctionOnSet(f, CastOn(votes, p)) + (IF v.proposal = p THEN x ELSE 0)
  <2> DEFINE K == CastOn(votes, p)
             L == CastOn(vt, p)
  <2>1. /\ K \in SUBSET D /\ L \in SUBSET (D \cup {v}) /\ L \ {v} = K \ {v}
        /\ v \in L <=> v.proposal = p
    BY <1>1, <1>2 DEF CastOn
  <2>. HIDE DEF f, g, K, L
  <2>2. SumFunctionOnSet(g, L) = SumFunctionOnSet(f, K) + (IF v \in L THEN g[v] ELSE 0)
    BY <1>4, <1>5, <2>1, SumPut
  <2>3. SumFunctionOnSet(g, L) = SumFunctionOnSet(f, K) + (IF v.proposal = p THEN x ELSE 0)
    BY <1>5, <2>1, <2>2
  <2>. QED  BY <2>3 DEF K, L
<1>7. ASSUME NEW p, NEW k
      PROVE  SumFunctionOnSet(g, CastFor(vt, p, k))
               = SumFunctionOnSet(f, CastFor(votes, p, k))
                 + (IF v.proposal = p /\ side = k THEN x ELSE 0)
  <2> DEFINE K == CastFor(votes, p, k)
             L == CastFor(vt, p, k)
  <2>1. /\ K \in SUBSET D /\ L \in SUBSET (D \cup {v}) /\ L \ {v} = K \ {v}
        /\ v \in L <=> v.proposal = p /\ side = k
    BY <1>1, <1>2 DEF CastFor
  <2>. HIDE DEF f, g, K, L
  <2>2. SumFunctionOnSet(g, L) = SumFunctionOnSet(f, K) + (IF v \in L THEN g[v] ELSE 0)
    BY <1>4, <1>5, <2>1, SumPut
  <2>3. SumFunctionOnSet(g, L)
          = SumFunctionOnSet(f, K) + (IF v.proposal = p /\ side = k THEN x ELSE 0)
    BY <1>5, <2>1, <2>2
  <2>. QED  BY <2>3 DEF K, L
<1>. QED  BY <1>3, <1>6, <1>7

\* A vote moves its weight into the tally of its side.
LEMMA VoteKeeps ==
    ASSUME TypeOK, VoteInv, NEW s \in DOMAIN vesals, NEW p \in DOMAIN proposals,
           NEW side \in {0, 1}, vote(s, p, side)
    PROVE  VoteInv'
<1>. TokenTypeOK
  BY DEF TypeOK
<1> DEFINE v == [proposal |-> p, voter |-> s.owner]
           x == vesals[s].amount
           e == tallied(proposals[p], side, x)
<1>1. /\ weightOf(v) = 0
      /\ proposals' = put(proposals, p, e)
      /\ votes' = put(votes, v, [weight |-> x, side |-> side])
      /\ UNCHANGED <<stakes, vesals>>
  BY DEF vote
<1>2. x \in Nat /\ v.proposal = p /\ v.voter = s.owner
  BY DEF TokenTypeOK, VeSal
<1>3. proposals[p] \in Proposal
  BY DEF TokenTypeOK
<1>4. /\ e.yes_votes = proposals[p].yes_votes + (IF side = 1 THEN x ELSE 0)
      /\ e.no_votes = proposals[p].no_votes + (IF side = 0 THEN x ELSE 0)
  BY <1>2, <1>3, LedgerAssumption DEF tallied, Proposal
<1>5. s \in DOMAIN stakes /\ stakes[s].amount = x
  BY DEF TokenTypeOK, VoteInv, LocksWhole
<1>. HIDE DEF v, x, e
<1>6. /\ IsFiniteSet(DOMAIN votes')
      /\ \A q : SumFunctionOnSet(Weighing(votes'), CastOn(votes', q))
                  = SumFunctionOnSet(Weighing(votes), CastOn(votes, q))
                    + (IF p = q THEN x ELSE 0)
      /\ \A q, k : SumFunctionOnSet(Weighing(votes'), CastFor(votes', q, k))
                     = SumFunctionOnSet(Weighing(votes), CastFor(votes, q, k))
                       + (IF p = q /\ side = k THEN x ELSE 0)
  BY <1>1, <1>2, VotePut DEF VoteInv
<1>7. /\ DOMAIN proposals' = DOMAIN proposals /\ proposals'[p] = e
      /\ \A q \in DOMAIN proposals : q # p => proposals'[q] = proposals[q]
  BY <1>1 DEF put
<1>8. \A q \in DOMAIN proposals : proposals[q].yes_votes \in Nat /\ proposals[q].no_votes \in Nat
  BY LedgerAssumption DEF TokenTypeOK, Proposal
<1>9. ASSUME NEW q \in DOMAIN proposals
      PROVE  /\ proposals'[q].yes_votes = SumFunctionOnSet(Weighing(votes'), CastFor(votes', q, 1))
             /\ proposals'[q].no_votes = SumFunctionOnSet(Weighing(votes'), CastFor(votes', q, 0))
             /\ proposals'[q].yes_votes + proposals'[q].no_votes
                  = SumFunctionOnSet(Weighing(votes'), CastOn(votes', q))
  <2> DEFINE Y == SumFunctionOnSet(Weighing(votes), CastFor(votes, q, 1))
             N == SumFunctionOnSet(Weighing(votes), CastFor(votes, q, 0))
             B == SumFunctionOnSet(Weighing(votes), CastOn(votes, q))
  <2>1. /\ proposals[q].yes_votes = Y /\ proposals[q].no_votes = N
        /\ proposals[q].yes_votes + proposals[q].no_votes = B
    BY TalliesNow DEF VoteInv
  <2>2. Y \in Nat /\ N \in Nat /\ B = Y + N
    BY <1>8, <2>1
  <2>3. /\ SumFunctionOnSet(Weighing(votes'), CastFor(votes', q, 1))
             = Y + (IF p = q /\ side = 1 THEN x ELSE 0)
        /\ SumFunctionOnSet(Weighing(votes'), CastFor(votes', q, 0))
             = N + (IF p = q /\ side = 0 THEN x ELSE 0)
        /\ SumFunctionOnSet(Weighing(votes'), CastOn(votes', q)) = B + (IF p = q THEN x ELSE 0)
    BY <1>6
  <2>. HIDE DEF Y, N, B
  <2>4. /\ proposals'[q].yes_votes = Y + (IF p = q /\ side = 1 THEN x ELSE 0)
        /\ proposals'[q].no_votes = N + (IF p = q /\ side = 0 THEN x ELSE 0)
    BY <1>4, <1>7, <2>1, <2>2
  <2>. QED  BY <1>2, <2>2, <2>3, <2>4
<1>10. VotesTallied' /\ BallotsAddUp'
  BY <1>7, <1>9, TalliesNow
<1>11. LocksWhole'
  BY <1>1 DEF VoteInv, LocksWhole
<1>12. VotesStaked'
  <2>1. /\ DOMAIN votes' = DOMAIN votes \cup {v} /\ votes'[v].weight = x
        /\ \A w \in DOMAIN votes : w # v => votes'[w] = votes[w]
    BY <1>1 DEF put
  <2>. QED  BY <1>1, <1>2, <1>5, <2>1 DEF VoteInv, VotesStaked
<1>. QED  BY <1>6, <1>10, <1>11, <1>12 DEF VoteInv

\* A new proposal has no receipts yet.
LEMMA ProposalKeeps ==
    ASSUME TypeOK, VoteInv, NEW u \in Users, NEW id \in ProposalIds, create_proposal(u, id)
    PROVE  VoteInv'
<1> DEFINE p == [proposer |-> u, id |-> id]
           e == [yes_votes |-> 0, no_votes |-> 0]
<1>1. /\ p \notin DOMAIN proposals /\ proposals' = put(proposals, p, e)
      /\ UNCHANGED <<stakes, vesals, votes>>
  BY DEF create_proposal
<1>2. e.yes_votes = 0 /\ e.no_votes = 0
  OBVIOUS
<1>. HIDE DEF p, e
<1>3. CastOn(votes, p) = {}
  BY <1>1 DEF CastOn, TypeOK, TokenTypeOK
<1>4. /\ DOMAIN proposals' = DOMAIN proposals \cup {p} /\ proposals'[p] = e
      /\ \A q \in DOMAIN proposals : proposals'[q] = proposals[q]
  BY <1>1 DEF put
<1>5. /\ SumFunctionOnSet(Weighing(votes), CastOn(votes, p)) = 0
      /\ \A k : SumFunctionOnSet(Weighing(votes), CastFor(votes, p, k)) = 0
  BY <1>3, NoVotes
<1>6. ASSUME NEW q \in DOMAIN proposals'
      PROVE  /\ proposals'[q].yes_votes = SumFunctionOnSet(Weighing(votes'), CastFor(votes', q, 1))
             /\ proposals'[q].no_votes = SumFunctionOnSet(Weighing(votes'), CastFor(votes', q, 0))
             /\ proposals'[q].yes_votes + proposals'[q].no_votes
                  = SumFunctionOnSet(Weighing(votes'), CastOn(votes', q))
  <2>1. CASE q = p
    BY <1>1, <1>2, <1>4, <1>5, <2>1
  <2>2. CASE q # p
    <3>1. q \in DOMAIN proposals /\ proposals'[q] = proposals[q] /\ votes' = votes
      BY <1>1, <1>4, <2>2
    <3>. QED  BY <3>1, TalliesNow DEF VoteInv
  <2>. QED  BY <2>1, <2>2
<1>7. VotesTallied' /\ BallotsAddUp'
  BY <1>6, TalliesNow
<1>. QED  BY <1>1, <1>7 DEF VoteInv, LocksWhole, VotesStaked

\* Steps that leave votes and proposals alone and only add stakes.
LEMMA VotesKept ==
    ASSUME VoteInv, UNCHANGED <<votes, proposals>>, LocksWhole',
           \A s \in DOMAIN stakes : s \in DOMAIN stakes' /\ stakes'[s] = stakes[s]
    PROVE  VoteInv'
<1>1. VotesTallied' /\ BallotsAddUp'
  BY TalliesNow DEF VoteInv
<1>2. VotesStaked'
  BY DEF VoteInv, VotesStaked
<1>. QED  BY <1>1, <1>2 DEF VoteInv

\* With no account every sum is zero.
LEMMA GovernanceInit == Init => GovernanceInv
<1>. SUFFICES ASSUME Init PROVE GovernanceInv
  OBVIOUS
<1>1. TypeOK
  BY InitType
<1>2. DOMAIN stakes = {} /\ DOMAIN vesals = {} /\ DOMAIN proposals = {} /\ DOMAIN votes = {}
  BY DEF Init, TokenInit
<1>3. \A m : StakedIn(stakes, m) = 0
  <2>. TAKE m
  <2>1. {s \in DOMAIN stakes : stakes[s].mint = m} = {}
    BY <1>2
  <2>. QED  BY <2>1, SumEmpty DEF StakedIn
<1>4. \A S, f : IsFiniteSet(S) /\ (\A x \in S : f[x] = 0) => SumFunctionOnSet(f, S) = 0
  <2>. SUFFICES ASSUME NEW S, NEW f, IsFiniteSet(S), \A x \in S : f[x] = 0
                PROVE  SumFunctionOnSet(f, S) = 0
    OBVIOUS
  <2> DEFINE Q == {T \in SUBSET S : SumFunctionOnSet(f, T) = 0}
  <2>1. {} \in Q
    BY SumEmpty
  <2>2. ASSUME NEW T \in SUBSET S, NEW x \in S, T \in Q, x \notin T PROVE T \cup {x} \in Q
    <3>1. IsFiniteSet(T)
      BY FS_Subset
    <3>2. SumFunctionOnSet(f, T \cup {x}) = f[x] + SumFunctionOnSet(f, T)
      BY <2>2, <3>1, SumAdd
    <3>. QED  BY <2>2, <3>2
  <2>. HIDE DEF Q
  <2>3. S \in Q
    BY <2>1, <2>2, FiniteInduction
  <2>. QED  BY <2>3 DEF Q
<1>6. StakesBacked
  <2>1. ASSUME NEW m \in Mints PROVE stakedOf(m) <= balances[m][StakeVault]
    <3>1. balances[m][StakeVault] = 0
      BY DEF Init, LedgerInit, Holders
    <3>. QED  BY <1>3, <3>1, StakedNow
  <2>. QED  BY <2>1 DEF StakesBacked
<1>7. StakesAddUp
  <2> DEFINE f == [m \in Mints |-> stakedOf(m)]
  <2>1. DOMAIN f = Mints /\ \A m \in Mints : f[m] = 0
    BY <1>3, StakedNow
  <2>. HIDE DEF f
  <2>2. SumFunctionOnSet(f, Mints) = 0
    BY <1>4, <2>1, KeysAssumption
  <2>3. DOMAIN stakedAmounts = {}
    BY <1>2 DEF stakedAmounts
  <2>4. SumFunction(f) = 0 /\ SumFunction(stakedAmounts) = 0
    BY <2>1, <2>2, <2>3, SumEmpty DEF SumFunction
  <2>. QED  BY <2>4 DEF f, StakesAddUp
<1>8. StakeInv
  BY <1>2, <1>6, <1>7, FS_EmptySet DEF StakeInv
<1>9. VoteInv
  BY <1>2, FS_EmptySet DEF VoteInv, VotesTallied, BallotsAddUp, LocksWhole, VotesStaked
<1>. QED  BY <1>1, <1>8, <1>9 DEF GovernanceInv

\* An instruction of cortex_token, one step for each.
LEMMA TokenStepKeeps ==
    ASSUME GovernanceInv, TokenStep
    PROVE  StakeInv' /\ VoteInv'
<1>. /\ TypeOK /\ LedgerTypeOK /\ TokenTypeOK /\ LedgerTypeOK'
     /\ StakeInv /\ VoteInv
  BY TokenStepType DEF GovernanceInv, TypeOK
<1>0. \A m \in Mints : balances[m][StakeVault] \in Int
  BY VaultBalance
<1>b. ASSUME UNCHANGED ledgerVars, stakes' = stakes PROVE StakeInv'
  BY <1>b, <1>0, StakesKept DEF ledgerVars
<1>c. ASSUME UNCHANGED <<votes, proposals, vesals, stakes>> PROVE VoteInv'
  <2>1. LocksWhole'
    BY <1>c DEF VoteInv, LocksWhole
  <2>. QED  BY <1>c, <2>1, VotesKept
<1>1. CASE Tick
  BY <1>1, <1>b, <1>c DEF Tick
<1>2. ASSUME NEW m \in Mints, NEW h \in Holders, NEW x \in Amounts, mint_to_treasury(m, h, x)
      PROVE  StakeInv' /\ VoteInv'
  <2>2. \A mm \in Mints : balances'[mm][StakeVault] >= balances[mm][StakeVault]
    <3>1. x \in Nat /\ StakeVault \in Holders
      BY LedgerAssumption DEF Holders
    <3>2. /\ balances \in [Mints -> [Holders -> 0 .. U64Max]]
          /\ balances' = [balances EXCEPT ![m][h] = balances[m][h] + x]
      BY <1>2 DEF mint_to_treasury, mint_to, LedgerTypeOK
    <3>. QED  BY <1>0, <3>1, <3>2
  <2>3. UNCHANGED tokenVars
    BY <1>2 DEF mint_to_treasury
  <2>4. StakeInv'
    BY <2>2, <2>3, StakesKept DEF tokenVars
  <2>. QED  BY <1>c, <2>3, <2>4 DEF tokenVars
<1>3. ASSUME NEW m \in Mints, NEW u \in Users, NEW h \in Holders, NEW x \in Amounts,
             transfer_tokens(m, u, h, x)
      PROVE  StakeInv' /\ VoteInv'
  <2>1. transfer(m, Wallet(u), h, x) /\ UNCHANGED tokenVars /\ Wallet(u) \in Holders
    BY <1>3 DEF transfer_tokens, Holders
  <2>3. \A mm \in Mints : balances'[mm][StakeVault] >= balances[mm][StakeVault]
    BY <2>1, FromOther, VaultApart
  <2>4. StakeInv'
    BY <2>1, <2>3, StakesKept DEF tokenVars
  <2>. QED  BY <1>c, <2>1, <2>4 DEF tokenVars
<1>4. ASSUME NEW m \in Mints, NEW u \in Users, NEW n \in Nonces, NEW x \in Amounts,
             stake_for_vesal(u, n, m, x)
      PROVE  StakeInv' /\ VoteInv'
  <2> DEFINE a == [owner |-> u, nonce |-> n]
  <2>1. /\ a \notin DOMAIN stakes /\ transfer(m, Wallet(u), StakeVault, x)
        /\ stakes' = put(stakes, a, [mint |-> m, amount |-> x])
        /\ UNCHANGED <<vesals, proposals, votes>>
    BY <1>4 DEF stake_for_vesal
  <2>. HIDE DEF a
  <2>2. Wallet(u) \in Holders /\ StakeVault \in Holders
    BY DEF Holders
  <2>4. \A s \in DOMAIN stakes : s \in DOMAIN stakes' /\ stakes'[s] = stakes[s]
    BY <2>1 DEF put
  <2>5. LocksWhole'
    BY <2>1, <2>4 DEF VoteInv, LocksWhole, TokenTypeOK
  <2>6. VoteInv'
    BY <2>1, <2>4, <2>5, VotesKept
  <2>. QED  BY <1>4, <2>6, StakeKeeps
<1>5. ASSUME NEW s \in DOMAIN stakes, NEW d \in Durations, lock_vesal(s, d)
      PROVE  StakeInv' /\ VoteInv'
  <2>1. /\ vesals' = put(vesals, s, [amount |-> stakes[s].amount, lock_end |-> now + d])
        /\ UNCHANGED <<ledgerVars, stakes, proposals, votes>>
    BY <1>5 DEF lock_vesal
  <2>2. LocksWhole'
    BY <2>1 DEF put, VoteInv, LocksWhole
  <2>3. VoteInv'
    BY <2>1, <2>2, VotesKept
  <2>. QED  BY <1>b, <2>1, <2>3
<1>6. ASSUME NEW u \in Users, NEW id \in ProposalIds, create_proposal(u, id)
      PROVE  StakeInv' /\ VoteInv'
  <2>1. UNCHANGED <<ledgerVars, stakes>>
    BY <1>6 DEF create_proposal
  <2>. QED  BY <1>b, <1>6, <2>1, ProposalKeeps
<1>7. ASSUME NEW s \in DOMAIN vesals, NEW p \in DOMAIN proposals, NEW side \in {0, 1},
             vote(s, p, side)
      PROVE  StakeInv' /\ VoteInv'
  <2>1. UNCHANGED <<ledgerVars, stakes>>
    BY <1>7 DEF vote
  <2>. QED  BY <1>b, <1>7, <2>1, VoteKeeps
<1>. QED  BY <1>1, <1>2, <1>3, <1>4, <1>5, <1>6, <1>7 DEF TokenStep

\* An instruction of cortex_treasury, one step for each.
LEMMA TreasuryStepKeeps ==
    ASSUME GovernanceInv, TreasuryStep, UNCHANGED tokenVars
    PROVE  StakeInv' /\ VoteInv'
<1>. /\ TypeOK /\ LedgerTypeOK /\ TreasuryTypeOK /\ LedgerTypeOK'
     /\ StakeInv /\ VoteInv
  BY TreasuryStepType DEF GovernanceInv, TypeOK
<1>0. \A m \in Mints : balances[m][StakeVault] \in Int
  BY VaultBalance
<1>1. VoteInv'
  <2>1. LocksWhole' /\ UNCHANGED <<votes, proposals, stakes>>
    BY DEF VoteInv, LocksWhole, tokenVars
  <2>. QED  BY <2>1, VotesKept
<1>2. ASSUME NEW u \in Users, NEW m \in Mints, NEW from \in {Wallet(u), TreasuryOf(u)},
             NEW h \in Holders, NEW x \in Amounts, transfer(m, from, h, x)
      PROVE  StakeInv'
  <2>1. from \in Holders /\ from # StakeVault
    BY HoldersOf, VaultApart
  <2>3. \A mm \in Mints : balances'[mm][StakeVault] >= balances[mm][StakeVault]
    BY <1>2, <2>1, FromOther
  <2>. QED  BY <2>3, StakesKept DEF tokenVars
<1>3. ASSUME NEW u \in Users, NEW m \in Mints, initialize(u, m)
      PROVE  StakeInv'
  BY <1>0, <1>3, StakesKept DEF initialize, ledgerVars, tokenVars
<1>4. ASSUME NEW u \in Users, NEW x \in Amounts, deposit(u, x)
      PROVE  StakeInv'
  BY <1>2, <1>4, HoldersOf DEF deposit, TreasuryTypeOK
<1>5. ASSUME NEW u \in Users, NEW h \in Holders, NEW x \in Amounts, withdraw(u, h, x)
      PROVE  StakeInv'
  BY <1>2, <1>5, HoldersOf DEF withdraw, TreasuryTypeOK
<1>. QED  BY <1>1, <1>3, <1>4, <1>5 DEF TreasuryStep

\* Every instruction keeps the sums in step.
LEMMA GovernanceNext == GovernanceInv /\ [Next]_vars => GovernanceInv'
<1>. SUFFICES ASSUME GovernanceInv, [Next]_vars PROVE GovernanceInv'
  OBVIOUS
<1>1. TypeOK'
  BY NextType DEF GovernanceInv
<1>2. CASE TokenStep
  BY <1>1, <1>2, TokenStepKeeps DEF GovernanceInv
<1>3. CASE TreasuryStep /\ UNCHANGED tokenVars
  BY <1>1, <1>3, TreasuryStepKeeps DEF GovernanceInv
<1>4. CASE UNCHANGED vars
  BY <1>1, <1>4 DEF vars, ledgerVars, tokenVars, GovernanceInv, StakeInv,
     StakesBacked, StakesAddUp, stakedOf, stakedAmounts, VoteInv, VotesTallied, BallotsAddUp,
     votesOf, voteWeights, LocksWhole, VotesStaked
<1>. QED  BY <1>2, <1>3, <1>4 DEF Next

\* The votes on a proposal are matched one to one with stakes of their voters.
LEMMA VotesWithinStakes == GovernanceInv => VotesBackedByStake
<1>. SUFFICES ASSUME GovernanceInv, NEW p \in DOMAIN proposals
              PROVE  proposals[p].yes_votes + proposals[p].no_votes
                       <= SumFunction([m \in Mints |-> stakedOf(m)])
  BY DEF VotesBackedByStake
<1> DEFINE V == {v \in DOMAIN votes : v.proposal = p}
           sigma == [v \in V |-> CHOOSE s \in DOMAIN stakes :
                                    s.owner = v.voter /\ stakes[s].amount = votes[v].weight]
<1>1. /\ TokenTypeOK /\ IsFiniteSet(DOMAIN stakes) /\ IsFiniteSet(V)
  BY FS_Subset DEF GovernanceInv, TypeOK, StakeInv, VoteInv
<1>2. \A v \in V : /\ sigma[v] \in DOMAIN stakes
                    /\ sigma[v].owner = v.voter
                    /\ stakes[sigma[v]].amount = votes[v].weight
  BY DEF GovernanceInv, VoteInv, VotesStaked
<1>3. sigma \in [V -> DOMAIN stakes]
  BY <1>2
<1>4. \A v, w \in V : v.voter = w.voter => v = w
  BY <1>1 DEF TokenTypeOK
<1>5. \A v \in V : voteWeights[v] \in Nat /\ voteWeights[v] = votes[v].weight
  BY <1>1 DEF voteWeights, TokenTypeOK, VoteReceipt
<1>6. /\ DOMAIN stakedAmounts = DOMAIN stakes
      /\ \A s \in DOMAIN stakes : stakedAmounts[s] \in Nat /\ stakedAmounts[s] = stakes[s].amount
  BY <1>1 DEF stakedAmounts, TokenTypeOK, StakeEntry
<1>. HIDE DEF sigma
<1>7. /\ \A v \in V : voteWeights[v] <= stakedAmounts[sigma[v]]
      /\ \A v, w \in V : sigma[v] = sigma[w] => v = w
  BY <1>2, <1>4, <1>5, <1>6
<1>8. proposals[p].yes_votes + proposals[p].no_votes = SumFunctionOnSet(voteWeights, V)
  BY DEF GovernanceInv, VoteInv, BallotsAddUp
<1>. HIDE DEF V
<1>9. SumFunctionOnSet(voteWeights, V) <= SumFunctionOnSet(stakedAmounts, DOMAIN stakes)
  BY <1>1, <1>3, <1>5, <1>6, <1>7, SumAtMost
<1>10. SumFunction([m \in Mints |-> stakedOf(m)]) = SumFunctionOnSet(stakedAmounts, DOMAIN stakes)
  BY <1>6 DEF GovernanceInv, StakeInv, StakesAddUp, SumFunction
<1>. QED  BY <1>8, <1>9, <1>10

\* Every recorded stake is backed by tokens in the stake vault, for good.
THEOREM StakesStayBacked == Spec => []StakesBacked
<1>1. GovernanceInv => StakesBacked
  BY DEF GovernanceInv, StakeInv
<1>. QED  BY <1>1, GovernanceInit, GovernanceNext, PTL DEF Spec

\* The tallies of a proposal are the sums of its receipts, although a receipt of
\* weight 0 may be overwritten.
THEOREM TalliesAreReceipts == Spec => []VotesTallied
<1>1. GovernanceInv => VotesTallied
  BY DEF GovernanceInv, VoteInv
<1>. QED  BY <1>1, GovernanceInit, GovernanceNext, PTL DEF Spec

\* No proposal gathers more votes than there are staked tokens.
THEOREM VotesNeverExceedStakes == Spec => []VotesBackedByStake
BY VotesWithinStakes, GovernanceInit, GovernanceNext, PTL DEF Spec
=====================
