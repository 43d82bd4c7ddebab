---------------------------- MODULE ListLemmas ----------------------------
(***************************************************************************)
(* Lists: what posting and taking do to the places of a queue, and how one *)
(* reasons along a list.  No prover here takes the induction theorems of   *)
(* the library, whose parameter is a predicate; but that the finite sets   *)
(* are well founded is a fact about sets, and induction follows from it    *)
(* for sets of numbers, and that a list may be worked through by recursion.*)
(***************************************************************************)
EXTENDS Integers, Sequences, SequenceTheorems, FiniteSetTheorems, TLAPS

\* A message that is posted comes last, and moves no other.
LEMMA Appended ==
    ASSUME NEW S, NEW s \in Seq(S), NEW x \in S
    PROVE  /\ Append(s, x) \in Seq(S) /\ Append(s, x) # <<>>
           /\ Len(s) \in Nat /\ DOMAIN s = 1..Len(s) /\ Len(s) + 1 \notin DOMAIN s
           /\ DOMAIN Append(s, x) = 1..(Len(s) + 1)
           /\ \A i \in DOMAIN s : i \in DOMAIN Append(s, x) /\ Append(s, x)[i] = s[i]
           /\ \A i \in DOMAIN Append(s, x) : i \in DOMAIN s \/ i = Len(s) + 1
           /\ Len(s) + 1 \in DOMAIN Append(s, x)
           /\ Append(s, x)[Len(s) + 1] = x
<1> DEFINE q == Append(s, x)
<1>1. /\ q \in Seq(S) /\ Len(q) = Len(s) + 1
      /\ \A i \in 1..Len(s) : q[i] = s[i]
      /\ q[Len(s) + 1] = x
    BY AppendProperties
<1>2. Len(s) \in Nat /\ DOMAIN s = 1..Len(s) /\ DOMAIN q = 1..Len(q)
    BY <1>1, LenProperties
<1>3. q # <<>>
    BY <1>1, <1>2, EmptySeq
<1> HIDE DEF q
<1> QED BY <1>1, <1>2, <1>3 DEF q

\* When the first message is taken, the others move up by one place.
LEMMA Shortened ==
    ASSUME NEW S, NEW s \in Seq(S), s # <<>>
    PROVE  /\ Tail(s) \in Seq(S) /\ Head(s) \in S /\ Head(s) = s[1] /\ 1 \in DOMAIN s
           /\ DOMAIN s = 1..Len(s) /\ Len(s) \in Nat \ {0}
           /\ DOMAIN Tail(s) = 1..(Len(s) - 1)
           /\ \A i \in DOMAIN Tail(s) : i + 1 \in DOMAIN s /\ Tail(s)[i] = s[i + 1]
           /\ \A i \in DOMAIN s : i > 1 => i - 1 \in DOMAIN Tail(s) /\ Tail(s)[i - 1] = s[i]
<1> DEFINE q == Tail(s)
<1>1. /\ Head(s) \in S /\ q \in Seq(S) /\ Len(q) = Len(s) - 1
      /\ \A i \in 1..Len(q) : q[i] = s[i + 1]
    BY HeadTailProperties
<1>2. Len(s) \in Nat \ {0} /\ DOMAIN s = 1..Len(s) /\ DOMAIN q = 1..Len(q)
    BY <1>1, LenProperties, EmptySeq
<1>3. Head(s) = s[1]
    OBVIOUS
<1> HIDE DEF q
<1>4. \A i \in DOMAIN q : i + 1 \in DOMAIN s /\ q[i] = s[i + 1]
    BY <1>1, <1>2
<1>5. \A i \in DOMAIN s : i > 1 => i - 1 \in DOMAIN q /\ q[i - 1] = s[i]
    BY <1>1, <1>2
<1> QED BY <1>1, <1>2, <1>3, <1>4, <1>5 DEF q

\* Every message of a queue is a message.
LEMMA ElementsTyped ==
    ASSUME NEW S, NEW s \in Seq(S)
    PROVE  \A i \in DOMAIN s : s[i] \in S
BY LenProperties, ElementOfSeq

\* Messages that are posted together come after the others, in their order.
LEMMA Joined ==
    ASSUME NEW S, NEW s \in Seq(S), NEW t \in Seq(S)
    PROVE  /\ s \o t \in Seq(S)
           /\ \A i \in DOMAIN s : i \in DOMAIN (s \o t) /\ (s \o t)[i] = s[i]
           /\ \A i \in DOMAIN t :
                 Len(s) + i \in DOMAIN (s \o t) /\ (s \o t)[Len(s) + i] = t[i]
           /\ \A i \in DOMAIN (s \o t) :
                 \/ i \in DOMAIN s
                 \/ i - Len(s) \in DOMAIN t /\ (s \o t)[i] = t[i - Len(s)]
           /\ Len(s) \in Nat /\ DOMAIN s = 1..Len(s)
           /\ Len(t) \in Nat /\ DOMAIN t = 1..Len(t) /\ DOMAIN (s \o t) \subseteq Nat
<1> DEFINE q == s \o t
<1>1. /\ q \in Seq(S)
      /\ Len(q) = Len(s) + Len(t)
      /\ \A i \in 1..Len(q) : q[i] = IF i <= Len(s) THEN s[i] ELSE t[i - Len(s)]
    BY ConcatProperties
<1>2. /\ Len(s) \in Nat /\ DOMAIN s = 1..Len(s)
      /\ Len(t) \in Nat /\ DOMAIN t = 1..Len(t)
      /\ DOMAIN q = 1..Len(q)
    BY <1>1, LenProperties
<1> HIDE DEF q
<1>3. \A i \in DOMAIN s : i \in DOMAIN q /\ q[i] = s[i]
    BY <1>1, <1>2
<1>4. \A i \in DOMAIN t : Len(s) + i \in DOMAIN q /\ q[Len(s) + i] = t[i]
    BY <1>1, <1>2
<1>5. \A i \in DOMAIN q : \/ i \in DOMAIN s
                          \/ i - Len(s) \in DOMAIN t /\ q[i] = t[i - Len(s)]
    BY <1>1, <1>2
<1>6. DOMAIN q \subseteq Nat
    BY <1>1, <1>2
<1> QED BY <1>1, <1>2, <1>3, <1>4, <1>5, <1>6 DEF q
---------------------------------------------------------------------------
\* Of the sets 1..n with n in a set of numbers, one has no other below it.
LEMMA LeastNumber ==
    ASSUME NEW T, T \subseteq Nat, T # {}
    PROVE  \E x \in T : \A y \in T : x <= y
<1> DEFINE F == {1..x : x \in T}
<1>1. F \subseteq FiniteSubsetsOf(Nat)
    BY FS_Interval DEF FiniteSubsetsOf
<1>0. F # {}
    OBVIOUS
<1> HIDE DEF F
<1>2. PICK m \in F : \A y \in F : <<y, m>> \notin StrictSubsetOrdering(Nat)
    BY <1>0, <1>1, FS_StrictSubsetOrderingWellFounded, WFMin
<1>3. PICK x \in T : m = 1..x
    BY DEF F
<1>4. ASSUME NEW y \in T, y < x PROVE FALSE
  <2>1. 1..y \in F
      BY DEF F
  <2>2. x \in 1..x /\ x \notin 1..y /\ 1..y \subseteq 1..x
      BY <1>4
  <2>3. <<1..y, 1..x>> \in StrictSubsetOrdering(Nat)
      BY <2>2 DEF StrictSubsetOrdering
  <2> QED BY <1>2, <1>3, <2>1, <2>3
<1> QED BY <1>4

\* Induction up to a bound.
LEMMA Induction ==
    ASSUME NEW m \in Nat, NEW T, 0 \in T, \A n \in 0..(m - 1) : n \in T => n + 1 \in T
    PROVE  \A n \in 0..m : n \in T
<1> DEFINE Rest == {n \in 0..m : n \notin T}
<1> SUFFICES ASSUME Rest # {} PROVE FALSE
    OBVIOUS
<1>1. Rest \subseteq Nat
    OBVIOUS
<1> HIDE DEF Rest
<1>2. PICK x \in Rest : \A y \in Rest : x <= y
    BY <1>1, LeastNumber
<1>3. x \in 0..m /\ x \notin T /\ x # 0
    BY <1>2 DEF Rest
<1>4. x - 1 \in 0..(m - 1) /\ x - 1 \notin Rest
    BY <1>2, <1>3 DEF Rest
<1>5. x - 1 \in T
    BY <1>3, <1>4 DEF Rest
<1> QED BY <1>3, <1>4, <1>5

\* A loop over the places 1..m, whose state is in S: what each turn makes of the
\* state it finds, and the states of a run.
IsLoop(step, m, S) == step \in [(1..m) \X S -> S]
Runs(f, step, m, start, S) ==
    f \in [0..m -> S] /\ f[0] = start /\ \A i \in 1..m : f[i] = step[<<i, f[i - 1]>>]

\* Every loop runs, from wherever it starts.
LEMMA Recursion ==
    ASSUME NEW S, NEW m \in Nat, NEW start \in S, NEW step, IsLoop(step, m, S)
    PROVE  \E f : Runs(f, step, m, start, S)
<1>0. \A i \in 1..m : \A s \in S : step[<<i, s>>] \in S
    BY DEF IsLoop
<1> DEFINE Good(k, f) == f[0] = start /\ \A i \in 1..k : f[i] = step[<<i, f[i - 1]>>]
           T == {k \in 0..m : \E f \in [0..k -> S] : Good(k, f)}
<1>1. 0 \in T
  <2> DEFINE g == [i \in 0..0 |-> start]
  <2>1. Good(0, g) /\ g \in [0..0 -> S] /\ 0 \in 0..m
      OBVIOUS
  <2> HIDE DEF g, Good
  <2> QED BY <2>1
<1>2. ASSUME NEW k \in 0..(m - 1), k \in T PROVE k + 1 \in T
  <2>1. PICK f \in [0..k -> S] : Good(k, f)
      BY <1>2
  <2> DEFINE g == [i \in 0..(k + 1) |-> IF i <= k THEN f[i] ELSE step[<<k + 1, f[k]>>]]
  <2>2. k + 1 \in 1..m /\ f[k] \in S
      OBVIOUS
  <2>3. step[<<k + 1, f[k]>>] \in S
      BY <1>0, <2>2, Zenon
  <2>4. g \in [0..(k + 1) -> S] /\ g[0] = start
      BY <2>1, <2>3
  <2>5. ASSUME NEW i \in 1..(k + 1) PROVE g[i] = step[<<i, g[i - 1]>>]
    <3>1. CASE i = k + 1
      <4>1. k \in Nat /\ i - 1 = k /\ ~(i <= k)
          BY <3>1
      <4>2. g[i] = step[<<k + 1, f[k]>>] /\ g[k] = f[k]
          BY <4>1
      <4> QED BY <3>1, <4>1, <4>2
    <3>2. CASE i \in 1..k
        BY <2>1, <3>2
    <3> QED BY <3>1, <3>2
  <2>6. Good(k + 1, g)
      BY <2>4, <2>5
  <2> HIDE DEF g, Good
  <2> QED BY <2>2, <2>4, <2>6
<1> HIDE DEF T
<1>3. m \in T
  <2>1. m \in 0..m /\ \A k \in 0..(m - 1) : k \in T => k + 1 \in T
      BY <1>2
  <2>2. \A k \in 0..m : k \in T
      BY <1>1, <2>1, Induction
  <2> QED BY <2>1, <2>2
<1> QED BY <1>3 DEF T, Runs
=============================================================================
