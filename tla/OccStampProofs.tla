----------------------------- MODULE OccStampProofs -----------------------------
(***************************************************************************)
(* Proofs about the PR metadata stamp for every body: any texts, any lines *)
(* in any number and order.                                                *)
(*                                                                         *)
(* Parsing and rendering are folds over the lines, so the proofs are       *)
(* inductions on the body. The induction principle comes from the library's*)
(* WFMin, over a set of bodies instead of a predicate: a set of sequences  *)
(* that holds the empty one and is closed under Append holds them all. What*)
(* FoldLeft computes is reached the same way: the function it iterates     *)
(* exists, and its values on the prefixes 1..k obey the step. From there on*)
(* each parser has two laws, its value on <<>> and on Append(b, l), and the*)
(* definition of FoldLeft is not opened again.                             *)
(***************************************************************************)
EXTENDS OccStamp, SequenceTheorems, FiniteSetTheorems, WellFoundedInduction, TLAPS

-----------------------------------------------------------------------------
(* Induction on numbers and on sequences *)

\* A set of numbers with 0 and with every successor is Nat.
LEMMA NatSetInduction ==
  ASSUME NEW S \in SUBSET Nat, 0 \in S, \A n \in S : n + 1 \in S
  PROVE  S = Nat
<1> DEFINE R == {p \in Nat \X Nat : p[1] < p[2]}
           T == Nat \ S
<1>1. IsWellFoundedOn(R, Nat)
  <2>1. R = OpToRel(<, Nat)
    BY DEF OpToRel
  <2> QED  BY <2>1, NatLessThanWellFounded
<1>2. SUFFICES ASSUME T # {}  PROVE FALSE
  OBVIOUS
<1>3. PICK x \in T : \A y \in T : ~(<<y, x>> \in R)
  <2>1. T \subseteq Nat
    OBVIOUS
  <2> HIDE DEF T, R
  <2> QED  BY <1>1, <1>2, <2>1, WFMin
<1>4. x # 0 /\ x - 1 \in Nat /\ x - 1 \notin S
  BY <1>3
<1>5. <<x - 1, x>> \in R
  BY <1>4, <1>3
<1> QED  BY <1>3, <1>4, <1>5

\* A set of sequences with the empty one and closed under Append is all of them.
LEMMA SeqSetInduction ==
  ASSUME NEW L, NEW S \in SUBSET Seq(L), <<>> \in S, \A s \in S, x \in L : Append(s, x) \in S
  PROVE  S = Seq(L)
<1> DEFINE N == {n \in Nat : \A s \in Seq(L) : Len(s) = n => s \in S}
<1>1. 0 \in N
  <2>1. \A s \in Seq(L) : Len(s) = 0 => s = <<>>
    BY EmptySeq
  <2> QED  BY <2>1
<1>2. ASSUME NEW n \in N  PROVE n + 1 \in N
  <2> SUFFICES ASSUME NEW s \in Seq(L), Len(s) = n + 1  PROVE s \in S
    OBVIOUS
  <2> DEFINE front == SubSeq(s, 1, n)
  <2>1. front \in Seq(L) /\ Len(front) = n
    BY SubSeqProperties, ElementOfSeq
  <2>2. s[n + 1] \in L
    BY ElementOfSeq
  <2>3. s = Append(front, s[n + 1])
    <3>1. Append(front, s[n + 1]) \in Seq(L) /\ Len(Append(front, s[n + 1])) = n + 1
      BY <2>1, <2>2
    <3>2. \A i \in 1..(n + 1) : Append(front, s[n + 1])[i] = s[i]
      BY <2>1, <2>2
    <3> QED  BY <3>1, <3>2, SeqEqual
  <2>4. front \in S
    BY <2>1
  <2> QED  BY <2>2, <2>3, <2>4
<1>3. N = Nat
  <2> N \in SUBSET Nat
    OBVIOUS
  <2> HIDE DEF N
  <2> QED  BY <1>1, <1>2, NatSetInduction
<1> QED
  <2>1. \A s \in Seq(L) : Len(s) \in Nat
    OBVIOUS
  <2> QED  BY <1>3, <2>1

-----------------------------------------------------------------------------
(* What FoldLeft computes *)

\* Max is the greatest element.
LEMMA MaxIn ==
  ASSUME NEW n \in Nat, NEW t \in SUBSET (0..n), t # {}
  PROVE  Max(t) \in t /\ \A y \in t : Max(t) >= y
<1> DEFINE N == {k \in Nat : \A u \in SUBSET (0..k) : u # {} => \E x \in u : \A y \in u : x >= y}
<1>1. 0 \in N
  <2>1. 0..0 = {0}
    OBVIOUS
  <2>2. ASSUME NEW u \in SUBSET {0}, u # {}  PROVE \E x \in u : \A y \in u : x >= y
    <3>1. u = {0}
      BY <2>2
    <3> QED  BY <3>1
  <2> QED  BY <2>1, <2>2
<1>2. ASSUME NEW k \in N  PROVE k + 1 \in N
  <2> SUFFICES ASSUME NEW u \in SUBSET (0..(k + 1)), u # {}  PROVE \E x \in u : \A y \in u : x >= y
    OBVIOUS
  <2>1. CASE k + 1 \in u
    BY <2>1
  <2>2. CASE k + 1 \notin u
    <3>1. u \in SUBSET (0..k)
      BY <2>2
    <3> QED  BY <3>1
  <2> QED  BY <2>1, <2>2
<1>3. N = Nat
  <2> N \in SUBSET Nat
    OBVIOUS
  <2> HIDE DEF N
  <2> QED  BY <1>1, <1>2, NatSetInduction
<1>4. \E x \in t : \A y \in t : x >= y
  BY <1>3
<1> QED  BY <1>4, Zenon DEF Max

LEMMA MaxUpTo ==
  ASSUME NEW n \in Nat, n # 0
  PROVE  Max(1..n) = n
<1>1. PICK m : m = Max(1..n)
  OBVIOUS
<1>0. 1..n \in SUBSET (0..n) /\ 1..n # {} /\ n \in 1..n
  OBVIOUS
<1>2. m \in 1..n /\ m >= n
  BY <1>0, <1>1, MaxIn
<1>3. m = n
  BY <1>2
<1> QED  BY <1>1, <1>3


\* it holds, on every prefix 1..k of s, the value of the fold of F over that prefix, as long
\* as the values stay in A.
PrefixValues(it, F, base, A, s) ==
  /\ it[{}] = base
  /\ \A k \in 1..Len(s) :
       it[1..(k - 1)] \in A => it[1..k] = F[<<it[1..(k - 1)], s[k]>>]

\* F is the step of a fold over elements of L with values in A, from base.
IsStep(F, base, A, L) == F \in [A \X L -> A] /\ base \in A

\* F can be iterated over the sets of positions of s, the greatest position last.
Iterable(F, base, A, s) ==
  \E it \in [SUBSET (DOMAIN s) -> A] :
    \A t \in SUBSET (DOMAIN s) :
      it[t] = IF t = {} THEN base ELSE F[<<it[t \ {Max(t)}], s[Max(t)]>>]

\* The function that FoldLeft iterates exists, for a step F of A.
LEMMA FoldExists ==
  ASSUME NEW A, NEW L, NEW F, NEW base, IsStep(F, base, A, L), NEW s \in Seq(L)
  PROVE  Iterable(F, base, A, s)
<1> USE DEF IsStep, Iterable
<1> DEFINE Iter(it, n) ==
             /\ it \in [SUBSET (1..n) -> A]
             /\ \A t \in SUBSET (1..n) :
                  it[t] = IF t = {} THEN base ELSE F[<<it[t \ {Max(t)}], s[Max(t)]>>]
           Good(n) == n <= Len(s) => \E it : Iter(it, n)
           N == {n \in Nat : Good(n)}
<1>1. 0 \in N
  <2> DEFINE it == [t \in SUBSET (1..0) |-> base]
  <2>1. SUBSET (1..0) = {{}}
    <3>1. 1..0 = {}
      OBVIOUS
    <3> QED  BY <3>1
  <2>2. Iter(it, 0)
    <3>1. it \in [{{}} -> A] /\ it[{}] = base
      BY <2>1
    <3> HIDE DEF it
    <3> QED  BY <2>1, <3>1
  <2> HIDE DEF Iter, it
  <2>3. \E g : Iter(g, 0)
    BY <2>2
  <2>4. Good(0)
    BY <2>3
  <2> HIDE DEF Good
  <2> QED  BY <2>4
<1>2. ASSUME NEW n \in N  PROVE n + 1 \in N
  <2>0. n \in Nat /\ Good(n)
    <3> HIDE DEF Good
    <3> QED OBVIOUS
  <2> SUFFICES ASSUME n + 1 <= Len(s)  PROVE \E it : Iter(it, n + 1)
    <3> HIDE DEF Iter
    <3>1. ASSUME n + 1 <= Len(s) => \E it : Iter(it, n + 1)  PROVE Good(n + 1)
      BY <3>1
    <3>2. n + 1 \in Nat
      BY <2>0
    <3> HIDE DEF Good
    <3> QED BY <3>1, <3>2
  <2>1. PICK it : Iter(it, n)
    <3> HIDE DEF Iter
    <3>1. n <= Len(s)
      BY <2>0, LenProperties
    <3> QED  BY <2>0, <3>1
  <2>2. n \in Nat /\ s[n + 1] \in L
    BY <2>0, ElementOfSeq
  <2> DEFINE big == [t \in SUBSET (1..(n + 1)) |->
                       IF n + 1 \in t THEN F[<<it[t \ {n + 1}], s[n + 1]>>] ELSE it[t]]
  <2>3. ASSUME NEW t \in SUBSET (1..(n + 1))
        PROVE  big[t] \in A /\ big[t] = IF t = {} THEN base ELSE F[<<big[t \ {Max(t)}], s[Max(t)]>>]
    <3>1. CASE n + 1 \in t
      <4>1. Max(t) = n + 1
        <5>1. PICK m : m = Max(t)
          OBVIOUS
        <5>0. t # {} /\ n + 1 \in Nat /\ t \in SUBSET (0..(n + 1))
          BY <3>1, <2>2
        <5>2. m \in t /\ m >= n + 1
          BY <3>1, <5>0, <5>1, MaxIn
        <5>3. m \in 1..(n + 1)
          BY <5>2
        <5>4. m = n + 1
          BY <5>2, <5>3, <2>2
        <5> QED  BY <5>1, <5>4
      <4>2. t \ {n + 1} \in SUBSET (1..n) /\ n + 1 \notin t \ {n + 1} /\ t \ {n + 1} \in SUBSET (1..(n + 1))
        BY <2>2
      <4>3. big[t \ {n + 1}] = it[t \ {n + 1}]
        BY <4>2
      <4>4. it[t \ {n + 1}] \in A
        BY <2>1, <4>2
      <4>5. big[t] = F[<<it[t \ {n + 1}], s[n + 1]>>]
        BY <3>1
      <4>6. big[t] \in A
        BY <4>4, <4>5, <2>2
      <4> QED  BY <3>1, <4>1, <4>3, <4>5, <4>6
    <3>2. CASE n + 1 \notin t
      <4>1. t \in SUBSET (1..n)
        BY <3>2, <2>2
      <4>2. big[t] = it[t] /\ it[t] \in A
        BY <3>2, <4>1, <2>1
      <4>3. it[t] = IF t = {} THEN base ELSE F[<<it[t \ {Max(t)}], s[Max(t)]>>]
        BY <4>1, <2>1
      <4>4. big[t \ {Max(t)}] = it[t \ {Max(t)}]
        BY <3>2, <4>1
      <4> QED  BY <4>2, <4>3, <4>4
    <3> QED  BY <3>1, <3>2
  <2>4. big \in [SUBSET (1..(n + 1)) -> A]
    <3>1. \A t \in SUBSET (1..(n + 1)) : big[t] \in A
      BY <2>3
    <3> QED  BY <3>1
  <2> HIDE DEF big
  <2>5. Iter(big, n + 1)
    BY <2>3, <2>4
  <2> QED  BY <2>5
<1>3. N = Nat
  <2> N \in SUBSET Nat
    OBVIOUS
  <2> HIDE DEF N
  <2> QED  BY <1>1, <1>2, NatSetInduction
<1>4. Len(s) \in Nat /\ DOMAIN s = 1..Len(s) /\ Len(s) <= Len(s)
  BY LenProperties
<1>5. Good(Len(s))
  <2> HIDE DEF Good
  <2> QED  BY <1>3, <1>4
<1>6. \E it : Iter(it, Len(s))
  <2> HIDE DEF Iter
  <2> QED  BY <1>4, <1>5
<1> QED  BY <1>4, <1>6

\* A fold over one more element takes one more step.
LEMMA FoldAgree ==
  ASSUME NEW A, NEW L, NEW F, NEW base, IsStep(F, base, A, L), NEW s \in Seq(L), NEW l \in L,
         NEW it, NEW jt, PrefixValues(it, F, base, A, s), PrefixValues(jt, F, base, A, Append(s, l))
  PROVE  /\ it[1..Len(s)] \in A
         /\ jt[1..Len(Append(s, l))] = F[<<it[1..Len(s)], l>>]
<1> USE DEF IsStep
<1> DEFINE Good(n) == n <= Len(s) => it[1..n] \in A /\ jt[1..n] = it[1..n]
           N == {n \in Nat : Good(n)}
<1>0. /\ Len(s) \in Nat /\ Append(s, l) \in Seq(L) /\ Len(Append(s, l)) = Len(s) + 1
      /\ \A i \in 1..Len(s) : Append(s, l)[i] = s[i] /\ s[i] \in L
      /\ Append(s, l)[Len(s) + 1] = l
  BY AppendProperties, LenProperties, ElementOfSeq
<1>1. 0 \in N
  <2>1. 1..0 = {}
    OBVIOUS
  <2> QED  BY <2>1 DEF PrefixValues
<1>2. ASSUME NEW n \in N  PROVE n + 1 \in N
  <2>0. n \in Nat /\ Good(n)
    OBVIOUS
  <2>1. ASSUME n + 1 <= Len(s)
        PROVE  it[1..(n + 1)] \in A /\ jt[1..(n + 1)] = it[1..(n + 1)]
    <3>1. it[1..n] \in A /\ jt[1..n] = it[1..n]
      BY <1>0, <2>0, <2>1
    <3>2. n + 1 \in 1..Len(s) /\ n + 1 \in 1..Len(Append(s, l)) /\ (n + 1) - 1 = n
      BY <1>0, <2>0, <2>1
    <3>3. it[1..(n + 1)] = F[<<it[1..n], s[n + 1]>>]
      BY <3>1, <3>2 DEF PrefixValues
    <3>4. jt[1..(n + 1)] = F[<<jt[1..n], s[n + 1]>>]
      BY <1>0, <3>1, <3>2 DEF PrefixValues
    <3> QED  BY <1>0, <3>1, <3>2, <3>3, <3>4
  <2> QED  BY <2>0, <2>1
<1>3. N = Nat
  <2> N \in SUBSET Nat
    OBVIOUS
  <2> HIDE DEF N
  <2> QED  BY <1>1, <1>2, NatSetInduction
<1>4. Good(Len(s))
  <2> HIDE DEF Good
  <2> QED  BY <1>0, <1>3
<1>5. it[1..Len(s)] \in A /\ jt[1..Len(s)] = it[1..Len(s)]
  BY <1>0, <1>4
<1>6. Len(s) + 1 \in 1..Len(Append(s, l)) /\ (Len(s) + 1) - 1 = Len(s)
  BY <1>0
<1> QED  BY <1>0, <1>5, <1>6 DEF PrefixValues

\* What FoldLeft iterates holds the prefix values.
LEMMA FoldPrefixes ==
  ASSUME NEW A, NEW L, NEW F, NEW base, NEW s \in Seq(L), NEW it,
         \A t \in SUBSET (DOMAIN s) :
           IF t = {} THEN it[t] = base
           ELSE it[t \ {Max(t)}] \in A => it[t] = F[<<it[t \ {Max(t)}], s[Max(t)]>>]
  PROVE  PrefixValues(it, F, base, A, s)
<1>0. Len(s) \in Nat /\ DOMAIN s = 1..Len(s)
  BY LenProperties
<1>1. it[{}] = base
  <2>1. {} \in SUBSET (DOMAIN s)
    OBVIOUS
  <2> QED  BY <2>1
<1>2. ASSUME NEW k \in 1..Len(s), it[1..(k - 1)] \in A
      PROVE  it[1..k] = F[<<it[1..(k - 1)], s[k]>>]
  <2>0. k \in Nat /\ k # 0 /\ k \in 1..k
    BY <1>0
  <2>1. 1..k \in SUBSET (DOMAIN s) /\ 1..k # {}
    <3>1. \A i \in 1..k : i \in 1..Len(s)
      BY <1>0
    <3> QED  BY <1>0, <2>0, <3>1
  <2>2. Max(1..k) = k
    BY <2>0, MaxUpTo
  <2>3. (1..k) \ {k} = 1..(k - 1)
    BY <2>0
  <2> QED  BY <1>2, <2>1, <2>2, <2>3
<1> QED  BY <1>1, <1>2 DEF PrefixValues

\* v is the fold of F over s.
Folded(v, F, base, A, s) == \E it : PrefixValues(it, F, base, A, s) /\ v = it[1..Len(s)]
FoldsEach(V, F, base, A, L) == \A s \in Seq(L) : Folded(V[s], F, base, A, s)

\* V follows the step F.
Follows(V, F, base, A, L) ==
  /\ V[<<>>] = base
  /\ \A s \in Seq(L) : V[s] \in A
  /\ \A s \in Seq(L), l \in L : V[Append(s, l)] = F[<<V[s], l>>]

\* An element of a set of positions and what is left of the set.
LEMMA MaxPosition ==
  ASSUME NEW L, NEW s \in Seq(L), NEW t \in SUBSET (DOMAIN s), t # {}, NEW m, m = Max(t)
  PROVE  m \in DOMAIN s /\ s[m] \in L /\ t \ {m} \in SUBSET (DOMAIN s)
<1>1. Len(s) \in Nat /\ DOMAIN s = 1..Len(s)
  BY LenProperties
<1>2. t \in SUBSET (0..Len(s))
  BY <1>1
<1>3. m \in t
  BY <1>1, <1>2, MaxIn
<1> QED  BY <1>1, <1>3, ElementOfSeq

\* The two laws of a fold: its value on the empty sequence, and one step for one more element.
LEMMA FoldLaws ==
  ASSUME NEW A, NEW L, NEW F, NEW base, NEW V,
         IsStep(F, base, A, L), FoldsEach(V, F, base, A, L)
  PROVE  Follows(V, F, base, A, L)
<1>0. \A s \in Seq(L) : Folded(V[s], F, base, A, s)
  BY DEF FoldsEach
<1>1. V[<<>>] = base
  <2>1. <<>> \in Seq(L) /\ 1..Len(<<>>) = {}
    OBVIOUS
  <2> QED  BY <1>0, <2>1 DEF Folded, PrefixValues
<1>2. ASSUME NEW s \in Seq(L), NEW l \in L
      PROVE  V[s] \in A /\ V[Append(s, l)] = F[<<V[s], l>>]
  <2>1. Append(s, l) \in Seq(L)
    OBVIOUS
  <2>2. PICK it : PrefixValues(it, F, base, A, s) /\ V[s] = it[1..Len(s)]
    BY <1>0 DEF Folded
  <2>3. PICK jt : PrefixValues(jt, F, base, A, Append(s, l)) /\ V[Append(s, l)] = jt[1..Len(Append(s, l))]
    BY <1>0, <2>1 DEF Folded
  <2>4. /\ it[1..Len(s)] \in A
        /\ jt[1..Len(Append(s, l))] = F[<<it[1..Len(s)], l>>]
    BY <2>2, <2>3, FoldAgree
  <2> QED  BY <2>2, <2>3, <2>4
<1>3. ASSUME NEW s \in Seq(L)  PROVE V[s] \in A
  <2>1. CASE L = {}
    <3>1. s = <<>>
      <4>1. Len(s) = 0
        <5>1. CASE Len(s) # 0
          <6>1. s[1] \in L
            BY <5>1, ElementOfSeq, LenProperties
          <6> QED  BY <2>1, <6>1
        <5> QED  BY <5>1
      <4> QED  BY <4>1, EmptySeq
    <3>2. base \in A
      BY DEF IsStep
    <3> QED  BY <1>1, <3>1, <3>2
  <2>2. CASE L # {}
    BY <1>2, <2>2
  <2> QED  BY <2>1, <2>2
<1> QED  BY <1>1, <1>2, <1>3 DEF Follows

-----------------------------------------------------------------------------
(* The laws of each parser *)

Skip == [gate : Texts, allow : Texts]
Section == [stamp : BOOLEAN, lines : Seq(Line)]
Grouped == [done : Seq(Section), open : Seq(Line), stamp : BOOLEAN]

\* What HumanLines reads of a stamp.
HumanOf(sections) == HumanLines([sections |-> sections])

\* The tickets.
TicketStep == [p \in Seq(Texts) \X Line |-> AddTicket(p[1], p[2])]

LEMMA TicketTyped == IsStep(TicketStep, <<>>, Seq(Texts), Line)
<1>1. ASSUME NEW ts \in Seq(Texts), NEW l \in Line  PROVE AddTicket(ts, l) \in Seq(Texts)
  BY DEF AddTicket, Line
<1> QED  BY <1>1 DEF TicketStep, IsStep

LEMMA TicketRuns ==
  ASSUME NEW s \in Seq(Line)
  PROVE  Folded(ParseTickets(s), TicketStep, <<>>, Seq(Texts), s)
<1> DEFINE Rec(g) == g = [t \in SUBSET (DOMAIN s) |->
                            IF t = {} THEN <<>> ELSE AddTicket(g[t \ {Max(t)}], s[Max(t)])]
<1>1. \A a \in Seq(Texts), l \in Line : TicketStep[<<a, l>>] = AddTicket(a, l)
  BY DEF TicketStep
<1>2. PICK it \in [SUBSET (DOMAIN s) -> Seq(Texts)] : \A t \in SUBSET (DOMAIN s) :
             it[t] = IF t = {} THEN <<>> ELSE TicketStep[<<it[t \ {Max(t)}], s[Max(t)]>>]
  <2>1. Iterable(TicketStep, <<>>, Seq(Texts), s)
    BY TicketTyped, FoldExists
  <2> QED  BY <2>1 DEF Iterable
<1>3. Rec(it)
  <2>1. ASSUME NEW t \in SUBSET (DOMAIN s), t # {}
        PROVE  it[t] = AddTicket(it[t \ {Max(t)}], s[Max(t)])
    <3>1. PICK m : m = Max(t)
      OBVIOUS
    <3>2. s[m] \in Line /\ it[t \ {m}] \in Seq(Texts)
      BY <2>1, <3>1, MaxPosition
    <3> QED  BY <1>1, <1>2, <2>1, <3>1, <3>2
  <2> QED  BY <1>2, <2>1
<1>4. PICK g : Rec(g) /\ ParseTickets(s) = g[DOMAIN s]
  <2> DEFINE h == CHOOSE g : Rec(g)
  <2>1. Rec(h)
    <3> HIDE DEF Rec
    <3> QED  BY <1>3, Zenon
  <2>2. ParseTickets(s) = h[DOMAIN s]
    BY Zenon DEF ParseTickets, FoldLeft, MapThenFoldSet
  <2> HIDE DEF Rec, h
  <2> QED  BY <2>1, <2>2
<1>5. \A t \in SUBSET (DOMAIN s) :
           IF t = {} THEN g[t] = <<>>
           ELSE g[t \ {Max(t)}] \in Seq(Texts) => g[t] = TicketStep[<<g[t \ {Max(t)}], s[Max(t)]>>]
  <2> SUFFICES ASSUME NEW t \in SUBSET (DOMAIN s), t # {}, g[t \ {Max(t)}] \in Seq(Texts)
               PROVE  g[t] = TicketStep[<<g[t \ {Max(t)}], s[Max(t)]>>]
    BY <1>4
  <2>1. PICK m : m = Max(t)
    OBVIOUS
  <2>2. s[m] \in Line
    BY <2>1, MaxPosition
  <2>3. g[t] = AddTicket(g[t \ {m}], s[m])
    BY <1>4, <2>1
  <2> QED  BY <1>1, <2>1, <2>2, <2>3
<1>6. PrefixValues(g, TicketStep, <<>>, Seq(Texts), s)
  BY <1>5, FoldPrefixes
<1> QED  BY <1>4, <1>6, LenProperties DEF Folded

LEMMA TicketLaws ==
  /\ ParseTickets(<<>>) = <<>>
  /\ \A s \in Seq(Line) : ParseTickets(s) \in Seq(Texts)
  /\ \A s \in Seq(Line), l \in Line : ParseTickets(Append(s, l)) = AddTicket(ParseTickets(s), l)
<1> DEFINE V == [s \in Seq(Line) |-> ParseTickets(s)]
<1>1. \A s \in Seq(Line) : V[s] = ParseTickets(s)
  OBVIOUS
<1>2. <<>> \in Seq(Line) /\ \A s \in Seq(Line), l \in Line : Append(s, l) \in Seq(Line)
  OBVIOUS
<1>3. \A a \in Seq(Texts), l \in Line : TicketStep[<<a, l>>] = AddTicket(a, l)
  BY DEF TicketStep
<1>4. \A s \in Seq(Line) : Folded(V[s], TicketStep, <<>>, Seq(Texts), s)
  BY TicketRuns
<1> HIDE DEF V
<1>5. /\ V[<<>>] = <<>>
      /\ \A s \in Seq(Line) : V[s] \in Seq(Texts)
      /\ \A s \in Seq(Line), l \in Line : V[Append(s, l)] = TicketStep[<<V[s], l>>]
  BY <1>4, TicketTyped, FoldLaws DEF Follows, FoldsEach
<1>6. ASSUME NEW s \in Seq(Line), NEW l \in Line
      PROVE  ParseTickets(s) \in Seq(Texts) /\ ParseTickets(Append(s, l)) = AddTicket(ParseTickets(s), l)
  <2>1. V[s] \in Seq(Texts) /\ V[Append(s, l)] = TicketStep[<<V[s], l>>]
    BY <1>5
  <2> QED  BY <1>1, <1>2, <1>3, <2>1
<1> QED  BY <1>1, <1>2, <1>5, <1>6

\* The source.
SourceStep == [p \in Texts \X Line |-> NameSource(p[1], p[2])]

LEMMA SourceTyped == IsStep(SourceStep, None, Texts, Line)
<1>1. ASSUME NEW src \in Texts, NEW l \in Line  PROVE NameSource(src, l) \in Texts
  BY DEF NameSource, Line
<1> QED  BY <1>1, LinesAssumption DEF SourceStep, IsStep

LEMMA SourceRuns ==
  ASSUME NEW s \in Seq(Line)
  PROVE  Folded(FirstSource(s), SourceStep, None, Texts, s)
<1> DEFINE Rec(g) == g = [t \in SUBSET (DOMAIN s) |->
                            IF t = {} THEN None ELSE NameSource(g[t \ {Max(t)}], s[Max(t)])]
<1>1. \A a \in Texts, l \in Line : SourceStep[<<a, l>>] = NameSource(a, l)
  BY DEF SourceStep
<1>2. PICK it \in [SUBSET (DOMAIN s) -> Texts] : \A t \in SUBSET (DOMAIN s) :
             it[t] = IF t = {} THEN None ELSE SourceStep[<<it[t \ {Max(t)}], s[Max(t)]>>]
  <2>1. Iterable(SourceStep, None, Texts, s)
    BY SourceTyped, FoldExists
  <2> QED  BY <2>1 DEF Iterable
<1>3. Rec(it)
  <2>1. ASSUME NEW t \in SUBSET (DOMAIN s), t # {}
        PROVE  it[t] = NameSource(it[t \ {Max(t)}], s[Max(t)])
    <3>1. PICK m : m = Max(t)
      OBVIOUS
    <3>2. s[m] \in Line /\ it[t \ {m}] \in Texts
      BY <2>1, <3>1, MaxPosition
    <3> QED  BY <1>1, <1>2, <2>1, <3>1, <3>2
  <2> QED  BY <1>2, <2>1
<1>4. PICK g : Rec(g) /\ FirstSource(s) = g[DOMAIN s]
  <2> DEFINE h == CHOOSE g : Rec(g)
  <2>1. Rec(h)
    <3> HIDE DEF Rec
    <3> QED  BY <1>3, Zenon
  <2>2. FirstSource(s) = h[DOMAIN s]
    BY Zenon DEF FirstSource, FoldLeft, MapThenFoldSet
  <2> HIDE DEF Rec, h
  <2> QED  BY <2>1, <2>2
<1>5. \A t \in SUBSET (DOMAIN s) :
           IF t = {} THEN g[t] = None
           ELSE g[t \ {Max(t)}] \in Texts => g[t] = SourceStep[<<g[t \ {Max(t)}], s[Max(t)]>>]
  <2> SUFFICES ASSUME NEW t \in SUBSET (DOMAIN s), t # {}, g[t \ {Max(t)}] \in Texts
               PROVE  g[t] = SourceStep[<<g[t \ {Max(t)}], s[Max(t)]>>]
    BY <1>4
  <2>1. PICK m : m = Max(t)
    OBVIOUS
  <2>2. s[m] \in Line
    BY <2>1, MaxPosition
  <2>3. g[t] = NameSource(g[t \ {m}], s[m])
    BY <1>4, <2>1
  <2> QED  BY <1>1, <2>1, <2>2, <2>3
<1>6. PrefixValues(g, SourceStep, None, Texts, s)
  BY <1>5, FoldPrefixes
<1> QED  BY <1>4, <1>6, LenProperties DEF Folded

LEMMA SourceLaws ==
  /\ FirstSource(<<>>) = None
  /\ \A s \in Seq(Line) : FirstSource(s) \in Texts
  /\ \A s \in Seq(Line), l \in Line : FirstSource(Append(s, l)) = NameSource(FirstSource(s), l)
<1> DEFINE V == [s \in Seq(Line) |-> FirstSource(s)]
<1>1. \A s \in Seq(Line) : V[s] = FirstSource(s)
  OBVIOUS
<1>2. <<>> \in Seq(Line) /\ \A s \in Seq(Line), l \in Line : Append(s, l) \in Seq(Line)
  OBVIOUS
<1>3. \A a \in Texts, l \in Line : SourceStep[<<a, l>>] = NameSource(a, l)
  BY DEF SourceStep
<1>4. \A s \in Seq(Line) : Folded(V[s], SourceStep, None, Texts, s)
  BY SourceRuns
<1> HIDE DEF V
<1>5. /\ V[<<>>] = None
      /\ \A s \in Seq(Line) : V[s] \in Texts
      /\ \A s \in Seq(Line), l \in Line : V[Append(s, l)] = SourceStep[<<V[s], l>>]
  BY <1>4, SourceTyped, FoldLaws DEF Follows, FoldsEach
<1>6. ASSUME NEW s \in Seq(Line), NEW l \in Line
      PROVE  FirstSource(s) \in Texts /\ FirstSource(Append(s, l)) = NameSource(FirstSource(s), l)
  <2>1. V[s] \in Texts /\ V[Append(s, l)] = SourceStep[<<V[s], l>>]
    BY <1>5
  <2> QED  BY <1>1, <1>2, <1>3, <2>1
<1> QED  BY <1>1, <1>2, <1>5, <1>6

\* The skip tokens.
SkipStep == [p \in Seq(Skip) \X Line |-> BindSkip(p[1], p[2])]

LEMMA UnboundTokens ==
  ASSUME NEW l \in Line
  PROVE  /\ l.skip \in Seq(Texts) /\ Len(l.skip) \in Nat /\ DOMAIN l.skip = 1..Len(l.skip)
         /\ Unbound(l) \in Seq(Skip) /\ Len(Unbound(l)) = Len(l.skip)
         /\ \A k \in 1..Len(l.skip) : Unbound(l)[k] = [gate |-> l.skip[k], allow |-> None]
<1>1. PICK g \in Seq(Texts) : g = l.skip
  BY DEF Line
<1>2. Len(g) \in Nat /\ DOMAIN g = 1..Len(g) /\ \A k \in 1..Len(g) : g[k] \in Texts
  BY LenProperties, ElementOfSeq
<1>3. Unbound(l) = [k \in 1..Len(g) |-> [gate |-> g[k], allow |-> None]]
  BY <1>1, <1>2 DEF Unbound
<1>4. \A k \in 1..Len(g) : [gate |-> g[k], allow |-> None] \in Skip
  BY <1>2, LinesAssumption DEF Skip
<1>5. Unbound(l) \in [1..Len(g) -> Skip]
  BY <1>3, <1>4
<1>6. Unbound(l) \in Seq(Skip) /\ Len(Unbound(l)) = Len(g)
  BY <1>2, <1>5
<1>7. \A k \in 1..Len(g) : Unbound(l)[k] = [gate |-> g[k], allow |-> None]
  BY <1>3
<1> QED  BY <1>1, <1>2, <1>6, <1>7

LEMMA SkipTyped == IsStep(SkipStep, <<>>, Seq(Skip), Line)
<1>1. ASSUME NEW skips \in Seq(Skip), NEW l \in Line  PROVE BindSkip(skips, l) \in Seq(Skip)
  <2>1. CASE l.allow # None /\ skips # <<>>
    <3>0. Len(skips) \in Nat /\ Len(skips) # 0
      BY <2>1, EmptySeq, LenProperties
    <3>1. Len(skips) \in 1..Len(skips)
      BY <3>0
    <3>2. PICK last \in Skip : last = skips[Len(skips)]
      BY <3>1, ElementOfSeq
    <3>3. [last EXCEPT !.allow = l.allow] \in Skip
      BY DEF Line, Skip
    <3>4. [skips EXCEPT ![Len(skips)] = [last EXCEPT !.allow = l.allow]] \in Seq(Skip)
      BY <3>1, <3>3, ExceptSeq
    <3>5. BindSkip(skips, l) = [skips EXCEPT ![Len(skips)] = [last EXCEPT !.allow = l.allow]]
      BY <2>1, <3>2 DEF BindSkip
    <3> QED  BY <3>4, <3>5
  <2>2. CASE l.allow = None
    <3>1. Unbound(l) \in Seq(Skip)
      BY UnboundTokens
    <3>2. skips \o Unbound(l) \in Seq(Skip)
      BY <3>1, ConcatProperties
    <3> QED  BY <2>2, <3>2 DEF BindSkip
  <2>3. CASE l.allow # None /\ skips = <<>>
    BY <2>3 DEF BindSkip
  <2> QED  BY <2>1, <2>2, <2>3
<1> QED  BY <1>1 DEF SkipStep, IsStep

LEMMA SkipRuns ==
  ASSUME NEW s \in Seq(Line)
  PROVE  Folded(ParseSkips(s), SkipStep, <<>>, Seq(Skip), s)
<1> DEFINE Rec(g) == g = [t \in SUBSET (DOMAIN s) |->
                            IF t = {} THEN <<>> ELSE BindSkip(g[t \ {Max(t)}], s[Max(t)])]
<1>1. \A a \in Seq(Skip), l \in Line : SkipStep[<<a, l>>] = BindSkip(a, l)
  BY DEF SkipStep
<1>2. PICK it \in [SUBSET (DOMAIN s) -> Seq(Skip)] : \A t \in SUBSET (DOMAIN s) :
             it[t] = IF t = {} THEN <<>> ELSE SkipStep[<<it[t \ {Max(t)}], s[Max(t)]>>]
  <2>1. Iterable(SkipStep, <<>>, Seq(Skip), s)
    BY SkipTyped, FoldExists
  <2> QED  BY <2>1 DEF Iterable
<1>3. Rec(it)
  <2>1. ASSUME NEW t \in SUBSET (DOMAIN s), t # {}
        PROVE  it[t] = BindSkip(it[t \ {Max(t)}], s[Max(t)])
    <3>1. PICK m : m = Max(t)
      OBVIOUS
    <3>2. s[m] \in Line /\ it[t \ {m}] \in Seq(Skip)
      BY <2>1, <3>1, MaxPosition
    <3> QED  BY <1>1, <1>2, <2>1, <3>1, <3>2
  <2> QED  BY <1>2, <2>1
<1>4. PICK g : Rec(g) /\ ParseSkips(s) = g[DOMAIN s]
  <2> DEFINE h == CHOOSE g : Rec(g)
  <2>1. Rec(h)
    <3> HIDE DEF Rec
    <3> QED  BY <1>3, Zenon
  <2>2. ParseSkips(s) = h[DOMAIN s]
    BY Zenon DEF ParseSkips, FoldLeft, MapThenFoldSet
  <2> HIDE DEF Rec, h
  <2> QED  BY <2>1, <2>2
<1>5. \A t \in SUBSET (DOMAIN s) :
           IF t = {} THEN g[t] = <<>>
           ELSE g[t \ {Max(t)}] \in Seq(Skip) => g[t] = SkipStep[<<g[t \ {Max(t)}], s[Max(t)]>>]
  <2> SUFFICES ASSUME NEW t \in SUBSET (DOMAIN s), t # {}, g[t \ {Max(t)}] \in Seq(Skip)
               PROVE  g[t] = SkipStep[<<g[t \ {Max(t)}], s[Max(t)]>>]
    BY <1>4
  <2>1. PICK m : m = Max(t)
    OBVIOUS
  <2>2. s[m] \in Line
    BY <2>1, MaxPosition
  <2>3. g[t] = BindSkip(g[t \ {m}], s[m])
    BY <1>4, <2>1
  <2> QED  BY <1>1, <2>1, <2>2, <2>3
<1>6. PrefixValues(g, SkipStep, <<>>, Seq(Skip), s)
  BY <1>5, FoldPrefixes
<1> QED  BY <1>4, <1>6, LenProperties DEF Folded

LEMMA SkipLaws ==
  /\ ParseSkips(<<>>) = <<>>
  /\ \A s \in Seq(Line) : ParseSkips(s) \in Seq(Skip)
  /\ \A s \in Seq(Line), l \in Line : ParseSkips(Append(s, l)) = BindSkip(ParseSkips(s), l)
<1> DEFINE V == [s \in Seq(Line) |-> ParseSkips(s)]
<1>1. \A s \in Seq(Line) : V[s] = ParseSkips(s)
  OBVIOUS
<1>2. <<>> \in Seq(Line) /\ \A s \in Seq(Line), l \in Line : Append(s, l) \in Seq(Line)
  OBVIOUS
<1>3. \A a \in Seq(Skip), l \in Line : SkipStep[<<a, l>>] = BindSkip(a, l)
  BY DEF SkipStep
<1>4. \A s \in Seq(Line) : Folded(V[s], SkipStep, <<>>, Seq(Skip), s)
  BY SkipRuns
<1> HIDE DEF V
<1>5. /\ V[<<>>] = <<>>
      /\ \A s \in Seq(Line) : V[s] \in Seq(Skip)
      /\ \A s \in Seq(Line), l \in Line : V[Append(s, l)] = SkipStep[<<V[s], l>>]
  BY <1>4, SkipTyped, FoldLaws DEF Follows, FoldsEach
<1>6. ASSUME NEW s \in Seq(Line), NEW l \in Line
      PROVE  ParseSkips(s) \in Seq(Skip) /\ ParseSkips(Append(s, l)) = BindSkip(ParseSkips(s), l)
  <2>1. V[s] \in Seq(Skip) /\ V[Append(s, l)] = SkipStep[<<V[s], l>>]
    BY <1>5
  <2> QED  BY <1>1, <1>2, <1>3, <2>1
<1> QED  BY <1>1, <1>2, <1>5, <1>6

\* The sections.
SectionStep == [p \in Grouped \X Line |-> AddToSections(p[1], p[2])]

LEMMA SectionTyped == IsStep(SectionStep, NoSections, Grouped, Line)
<1>1. ASSUME NEW acc \in Grouped, NEW l \in Line  PROVE AddToSections(acc, l) \in Grouped
  <2>1. acc.done \in Seq(Section) /\ acc.open \in Seq(Line) /\ acc.stamp \in BOOLEAN
    BY DEF Grouped
  <2>2. IsStampLine(l) \in BOOLEAN
    BY DEF IsStampLine, Line
  <2>3. [stamp |-> acc.stamp, lines |-> acc.open] \in Section
    BY <2>1 DEF Section
  <2>4. Append(acc.open, l) \in Seq(Line) /\ <<l>> \in Seq(Line)
        /\ Append(acc.done, [stamp |-> acc.stamp, lines |-> acc.open]) \in Seq(Section)
    BY <2>1, <2>3
  <2> QED  BY <2>1, <2>2, <2>4 DEF AddToSections, Grouped
<1>2. NoSections \in Grouped
  BY DEF NoSections, Grouped
<1> QED  BY <1>1, <1>2 DEF SectionStep, IsStep

LEMMA SectionRuns ==
  ASSUME NEW s \in Seq(Line)
  PROVE  Folded(Sections(s), SectionStep, NoSections, Grouped, s)
<1> DEFINE Rec(g) == g = [t \in SUBSET (DOMAIN s) |->
                            IF t = {} THEN NoSections ELSE AddToSections(g[t \ {Max(t)}], s[Max(t)])]
<1>1. \A a \in Grouped, l \in Line : SectionStep[<<a, l>>] = AddToSections(a, l)
  BY DEF SectionStep
<1>2. PICK it \in [SUBSET (DOMAIN s) -> Grouped] : \A t \in SUBSET (DOMAIN s) :
             it[t] = IF t = {} THEN NoSections ELSE SectionStep[<<it[t \ {Max(t)}], s[Max(t)]>>]
  <2>1. Iterable(SectionStep, NoSections, Grouped, s)
    BY SectionTyped, FoldExists
  <2> QED  BY <2>1 DEF Iterable
<1>3. Rec(it)
  <2>1. ASSUME NEW t \in SUBSET (DOMAIN s), t # {}
        PROVE  it[t] = AddToSections(it[t \ {Max(t)}], s[Max(t)])
    <3>1. PICK m : m = Max(t)
      OBVIOUS
    <3>2. s[m] \in Line /\ it[t \ {m}] \in Grouped
      BY <2>1, <3>1, MaxPosition
    <3> QED  BY <1>1, <1>2, <2>1, <3>1, <3>2
  <2> QED  BY <1>2, <2>1
<1>4. PICK g : Rec(g) /\ Sections(s) = g[DOMAIN s]
  <2> DEFINE h == CHOOSE g : Rec(g)
  <2>1. Rec(h)
    <3> HIDE DEF Rec
    <3> QED  BY <1>3, Zenon
  <2>2. Sections(s) = h[DOMAIN s]
    BY Zenon DEF Sections, FoldLeft, MapThenFoldSet
  <2> HIDE DEF Rec, h
  <2> QED  BY <2>1, <2>2
<1>5. \A t \in SUBSET (DOMAIN s) :
           IF t = {} THEN g[t] = NoSections
           ELSE g[t \ {Max(t)}] \in Grouped => g[t] = SectionStep[<<g[t \ {Max(t)}], s[Max(t)]>>]
  <2> SUFFICES ASSUME NEW t \in SUBSET (DOMAIN s), t # {}, g[t \ {Max(t)}] \in Grouped
               PROVE  g[t] = SectionStep[<<g[t \ {Max(t)}], s[Max(t)]>>]
    BY <1>4
  <2>1. PICK m : m = Max(t)
    OBVIOUS
  <2>2. s[m] \in Line
    BY <2>1, MaxPosition
  <2>3. g[t] = AddToSections(g[t \ {m}], s[m])
    BY <1>4, <2>1
  <2> QED  BY <1>1, <2>1, <2>2, <2>3
<1>6. PrefixValues(g, SectionStep, NoSections, Grouped, s)
  BY <1>5, FoldPrefixes
<1> QED  BY <1>4, <1>6, LenProperties DEF Folded

LEMMA SectionLaws ==
  /\ Sections(<<>>) = NoSections
  /\ \A s \in Seq(Line) : Sections(s) \in Grouped
  /\ \A s \in Seq(Line), l \in Line : Sections(Append(s, l)) = AddToSections(Sections(s), l)
<1> DEFINE V == [s \in Seq(Line) |-> Sections(s)]
<1>1. \A s \in Seq(Line) : V[s] = Sections(s)
  OBVIOUS
<1>2. <<>> \in Seq(Line) /\ \A s \in Seq(Line), l \in Line : Append(s, l) \in Seq(Line)
  OBVIOUS
<1>3. \A a \in Grouped, l \in Line : SectionStep[<<a, l>>] = AddToSections(a, l)
  BY DEF SectionStep
<1>4. \A s \in Seq(Line) : Folded(V[s], SectionStep, NoSections, Grouped, s)
  BY SectionRuns
<1> HIDE DEF V
<1>5. /\ V[<<>>] = NoSections
      /\ \A s \in Seq(Line) : V[s] \in Grouped
      /\ \A s \in Seq(Line), l \in Line : V[Append(s, l)] = SectionStep[<<V[s], l>>]
  BY <1>4, SectionTyped, FoldLaws DEF Follows, FoldsEach
<1>6. ASSUME NEW s \in Seq(Line), NEW l \in Line
      PROVE  Sections(s) \in Grouped /\ Sections(Append(s, l)) = AddToSections(Sections(s), l)
  <2>1. V[s] \in Grouped /\ V[Append(s, l)] = SectionStep[<<V[s], l>>]
    BY <1>5
  <2> QED  BY <1>1, <1>2, <1>3, <2>1
<1> QED  BY <1>1, <1>2, <1>5, <1>6

\* The lines of human sections.
HumanStep == [p \in Seq(Line) \X Section |-> AddHuman(p[1], p[2])]

LEMMA HumanTyped == IsStep(HumanStep, <<>>, Seq(Line), Section)
<1>1. ASSUME NEW ls \in Seq(Line), NEW sec \in Section  PROVE AddHuman(ls, sec) \in Seq(Line)
  BY DEF AddHuman, Section
<1> QED  BY <1>1 DEF HumanStep, IsStep

LEMMA HumanRuns ==
  ASSUME NEW s \in Seq(Section)
  PROVE  Folded(HumanOf(s), HumanStep, <<>>, Seq(Line), s)
<1> DEFINE Rec(g) == g = [t \in SUBSET (DOMAIN s) |->
                            IF t = {} THEN <<>> ELSE AddHuman(g[t \ {Max(t)}], s[Max(t)])]
<1>1. \A a \in Seq(Line), l \in Section : HumanStep[<<a, l>>] = AddHuman(a, l)
  BY DEF HumanStep
<1>2. PICK it \in [SUBSET (DOMAIN s) -> Seq(Line)] : \A t \in SUBSET (DOMAIN s) :
             it[t] = IF t = {} THEN <<>> ELSE HumanStep[<<it[t \ {Max(t)}], s[Max(t)]>>]
  <2>1. Iterable(HumanStep, <<>>, Seq(Line), s)
    BY HumanTyped, FoldExists
  <2> QED  BY <2>1 DEF Iterable
<1>3. Rec(it)
  <2>1. ASSUME NEW t \in SUBSET (DOMAIN s), t # {}
        PROVE  it[t] = AddHuman(it[t \ {Max(t)}], s[Max(t)])
    <3>1. PICK m : m = Max(t)
      OBVIOUS
    <3>2. s[m] \in Section /\ it[t \ {m}] \in Seq(Line)
      BY <2>1, <3>1, MaxPosition
    <3> QED  BY <1>1, <1>2, <2>1, <3>1, <3>2
  <2> QED  BY <1>2, <2>1
<1>4. PICK g : Rec(g) /\ HumanOf(s) = g[DOMAIN s]
  <2> DEFINE h == CHOOSE g : Rec(g)
  <2>1. Rec(h)
    <3> HIDE DEF Rec
    <3> QED  BY <1>3, Zenon
  <2>2. HumanOf(s) = h[DOMAIN s]
    BY Zenon DEF HumanOf, HumanLines, FoldLeft, MapThenFoldSet
  <2> HIDE DEF Rec, h
  <2> QED  BY <2>1, <2>2
<1>5. \A t \in SUBSET (DOMAIN s) :
           IF t = {} THEN g[t] = <<>>
           ELSE g[t \ {Max(t)}] \in Seq(Line) => g[t] = HumanStep[<<g[t \ {Max(t)}], s[Max(t)]>>]
  <2> SUFFICES ASSUME NEW t \in SUBSET (DOMAIN s), t # {}, g[t \ {Max(t)}] \in Seq(Line)
               PROVE  g[t] = HumanStep[<<g[t \ {Max(t)}], s[Max(t)]>>]
    BY <1>4
  <2>1. PICK m : m = Max(t)
    OBVIOUS
  <2>2. s[m] \in Section
    BY <2>1, MaxPosition
  <2>3. g[t] = AddHuman(g[t \ {m}], s[m])
    BY <1>4, <2>1
  <2> QED  BY <1>1, <2>1, <2>2, <2>3
<1>6. PrefixValues(g, HumanStep, <<>>, Seq(Line), s)
  BY <1>5, FoldPrefixes
<1> QED  BY <1>4, <1>6, LenProperties DEF Folded

LEMMA HumanLaws ==
  /\ HumanOf(<<>>) = <<>>
  /\ \A s \in Seq(Section) : HumanOf(s) \in Seq(Line)
  /\ \A s \in Seq(Section), l \in Section : HumanOf(Append(s, l)) = AddHuman(HumanOf(s), l)
<1> DEFINE V == [s \in Seq(Section) |-> HumanOf(s)]
<1>1. \A s \in Seq(Section) : V[s] = HumanOf(s)
  OBVIOUS
<1>2. <<>> \in Seq(Section) /\ \A s \in Seq(Section), l \in Section : Append(s, l) \in Seq(Section)
  OBVIOUS
<1>3. \A a \in Seq(Line), l \in Section : HumanStep[<<a, l>>] = AddHuman(a, l)
  BY DEF HumanStep
<1>4. \A s \in Seq(Section) : Folded(V[s], HumanStep, <<>>, Seq(Line), s)
  BY HumanRuns
<1> HIDE DEF V
<1>5. /\ V[<<>>] = <<>>
      /\ \A s \in Seq(Section) : V[s] \in Seq(Line)
      /\ \A s \in Seq(Section), l \in Section : V[Append(s, l)] = HumanStep[<<V[s], l>>]
  BY <1>4, HumanTyped, FoldLaws DEF Follows, FoldsEach
<1>6. ASSUME NEW s \in Seq(Section), NEW l \in Section
      PROVE  HumanOf(s) \in Seq(Line) /\ HumanOf(Append(s, l)) = AddHuman(HumanOf(s), l)
  <2>1. V[s] \in Seq(Line) /\ V[Append(s, l)] = HumanStep[<<V[s], l>>]
    BY <1>5
  <2> QED  BY <1>1, <1>2, <1>3, <2>1
<1> QED  BY <1>1, <1>2, <1>5, <1>6

\* The lines of all sections.
AllStep == [p \in Seq(Line) \X Section |-> AddLines(p[1], p[2])]

LEMMA AllTyped == IsStep(AllStep, <<>>, Seq(Line), Section)
<1>1. ASSUME NEW ls \in Seq(Line), NEW sec \in Section  PROVE AddLines(ls, sec) \in Seq(Line)
  BY DEF AddLines, Section
<1> QED  BY <1>1 DEF AllStep, IsStep

LEMMA AllRuns ==
  ASSUME NEW s \in Seq(Section)
  PROVE  Folded(SectionLines(s), AllStep, <<>>, Seq(Line), s)
<1> DEFINE Rec(g) == g = [t \in SUBSET (DOMAIN s) |->
                            IF t = {} THEN <<>> ELSE AddLines(g[t \ {Max(t)}], s[Max(t)])]
<1>1. \A a \in Seq(Line), l \in Section : AllStep[<<a, l>>] = AddLines(a, l)
  BY DEF AllStep
<1>2. PICK it \in [SUBSET (DOMAIN s) -> Seq(Line)] : \A t \in SUBSET (DOMAIN s) :
             it[t] = IF t = {} THEN <<>> ELSE AllStep[<<it[t \ {Max(t)}], s[Max(t)]>>]
  <2>1. Iterable(AllStep, <<>>, Seq(Line), s)
    BY AllTyped, FoldExists
  <2> QED  BY <2>1 DEF Iterable
<1>3. Rec(it)
  <2>1. ASSUME NEW t \in SUBSET (DOMAIN s), t # {}
        PROVE  it[t] = AddLines(it[t \ {Max(t)}], s[Max(t)])
    <3>1. PICK m : m = Max(t)
      OBVIOUS
    <3>2. s[m] \in Section /\ it[t \ {m}] \in Seq(Line)
      BY <2>1, <3>1, MaxPosition
    <3> QED  BY <1>1, <1>2, <2>1, <3>1, <3>2
  <2> QED  BY <1>2, <2>1
<1>4. PICK g : Rec(g) /\ SectionLines(s) = g[DOMAIN s]
  <2> DEFINE h == CHOOSE g : Rec(g)
  <2>1. Rec(h)
    <3> HIDE DEF Rec
    <3> QED  BY <1>3, Zenon
  <2>2. SectionLines(s) = h[DOMAIN s]
    BY Zenon DEF SectionLines, FoldLeft, MapThenFoldSet
  <2> HIDE DEF Rec, h
  <2> QED  BY <2>1, <2>2
<1>5. \A t \in SUBSET (DOMAIN s) :
           IF t = {} THEN g[t] = <<>>
           ELSE g[t \ {Max(t)}] \in Seq(Line) => g[t] = AllStep[<<g[t \ {Max(t)}], s[Max(t)]>>]
  <2> SUFFICES ASSUME NEW t \in SUBSET (DOMAIN s), t # {}, g[t \ {Max(t)}] \in Seq(Line)
               PROVE  g[t] = AllStep[<<g[t \ {Max(t)}], s[Max(t)]>>]
    BY <1>4
  <2>1. PICK m : m = Max(t)
    OBVIOUS
  <2>2. s[m] \in Section
    BY <2>1, MaxPosition
  <2>3. g[t] = AddLines(g[t \ {m}], s[m])
    BY <1>4, <2>1
  <2> QED  BY <1>1, <2>1, <2>2, <2>3
<1>6. PrefixValues(g, AllStep, <<>>, Seq(Line), s)
  BY <1>5, FoldPrefixes
<1> QED  BY <1>4, <1>6, LenProperties DEF Folded

LEMMA AllLaws ==
  /\ SectionLines(<<>>) = <<>>
  /\ \A s \in Seq(Section) : SectionLines(s) \in Seq(Line)
  /\ \A s \in Seq(Section), l \in Section : SectionLines(Append(s, l)) = AddLines(SectionLines(s), l)
<1> DEFINE V == [s \in Seq(Section) |-> SectionLines(s)]
<1>1. \A s \in Seq(Section) : V[s] = SectionLines(s)
  OBVIOUS
<1>2. <<>> \in Seq(Section) /\ \A s \in Seq(Section), l \in Section : Append(s, l) \in Seq(Section)
  OBVIOUS
<1>3. \A a \in Seq(Line), l \in Section : AllStep[<<a, l>>] = AddLines(a, l)
  BY DEF AllStep
<1>4. \A s \in Seq(Section) : Folded(V[s], AllStep, <<>>, Seq(Line), s)
  BY AllRuns
<1> HIDE DEF V
<1>5. /\ V[<<>>] = <<>>
      /\ \A s \in Seq(Section) : V[s] \in Seq(Line)
      /\ \A s \in Seq(Section), l \in Section : V[Append(s, l)] = AllStep[<<V[s], l>>]
  BY <1>4, AllTyped, FoldLaws DEF Follows, FoldsEach
<1>6. ASSUME NEW s \in Seq(Section), NEW l \in Section
      PROVE  SectionLines(s) \in Seq(Line) /\ SectionLines(Append(s, l)) = AddLines(SectionLines(s), l)
  <2>1. V[s] \in Seq(Line) /\ V[Append(s, l)] = AllStep[<<V[s], l>>]
    BY <1>5
  <2> QED  BY <1>1, <1>2, <1>3, <2>1
<1> QED  BY <1>1, <1>2, <1>5, <1>6

\* The rendered lines are lines, and stamp lines.
LEMMA BlankFields ==
  /\ Blank \in Line /\ Blank.ticket = None /\ Blank.source = None /\ Blank.skip = <<>>
  /\ Blank.allow = None /\ ~Blank.title /\ ~Blank.indented
<1>1. PICK e \in Seq(Texts) : e = <<>>
  <2>1. <<>> \in Seq(Texts)
    OBVIOUS
  <2> QED  BY <2>1, Zenon
<1>2. Blank = [prose |-> None, ticket |-> None, source |-> None, skip |-> e,
               allow |-> None, title |-> FALSE, indented |-> FALSE]
  BY <1>1 DEF Blank
<1>3. Blank \in Line
  BY <1>2, LinesAssumption DEF Line
<1> QED  BY <1>1, <1>2, <1>3

LEMMA RenderedLines ==
  /\ Blank \in Line /\ ~IsStampLine(Blank)
  /\ \A t \in Texts : /\ TicketLine(t) \in Line /\ TicketLine(t).ticket = t
                      /\ TicketLine(t).source = None /\ TicketLine(t).skip = <<>>
                      /\ TicketLine(t).allow = None /\ ~TicketLine(t).indented
  /\ \A t \in Texts : /\ SourceLine(t) \in Line /\ SourceLine(t).source = t
                      /\ SourceLine(t).ticket = None /\ SourceLine(t).skip = <<>>
                      /\ SourceLine(t).allow = None /\ ~SourceLine(t).indented
  /\ \A t \in Texts : /\ SkipLine(t) \in Line /\ SkipLine(t).skip = <<t>>
                      /\ SkipLine(t).ticket = None /\ SkipLine(t).source = None
                      /\ SkipLine(t).allow = None
  /\ \A t \in Texts : /\ AllowLine(t) \in Line /\ AllowLine(t).allow = t
                      /\ AllowLine(t).ticket = None /\ AllowLine(t).source = None
                      /\ AllowLine(t).skip = <<>>
<1>1. PICK x \in Line : x = Blank
  BY BlankFields
<1>2. /\ x.ticket = None /\ x.source = None /\ x.skip = <<>>
      /\ x.allow = None /\ ~x.title /\ ~x.indented
  BY <1>1, BlankFields
<1>3. ~IsStampLine(x)
  BY <1>2 DEF IsStampLine, NamesEvidence
<1>4. ASSUME NEW t \in Texts
      PROVE  /\ [x EXCEPT !.ticket = t] \in Line /\ [x EXCEPT !.ticket = t].ticket = t
             /\ [x EXCEPT !.ticket = t].source = x.source /\ [x EXCEPT !.ticket = t].skip = x.skip
             /\ [x EXCEPT !.ticket = t].allow = x.allow
             /\ [x EXCEPT !.ticket = t].indented = x.indented
  BY DEF Line
<1>5. ASSUME NEW t \in Texts
      PROVE  /\ [x EXCEPT !.source = t] \in Line /\ [x EXCEPT !.source = t].source = t
             /\ [x EXCEPT !.source = t].ticket = x.ticket /\ [x EXCEPT !.source = t].skip = x.skip
             /\ [x EXCEPT !.source = t].allow = x.allow
             /\ [x EXCEPT !.source = t].indented = x.indented
  BY DEF Line
<1>6. ASSUME NEW g \in Seq(Texts)
      PROVE  /\ [x EXCEPT !.skip = g] \in Line /\ [x EXCEPT !.skip = g].skip = g
             /\ [x EXCEPT !.skip = g].ticket = x.ticket /\ [x EXCEPT !.skip = g].source = x.source
             /\ [x EXCEPT !.skip = g].allow = x.allow
  BY DEF Line
<1>7. ASSUME NEW t \in Texts
      PROVE  /\ [x EXCEPT !.allow = t] \in Line /\ [x EXCEPT !.allow = t].allow = t
             /\ [x EXCEPT !.allow = t].ticket = x.ticket /\ [x EXCEPT !.allow = t].source = x.source
             /\ [x EXCEPT !.allow = t].skip = x.skip
  BY DEF Line
<1>8. ASSUME NEW t \in Texts
      PROVE  /\ SkipLine(t) \in Line /\ SkipLine(t).skip = <<t>>
             /\ SkipLine(t).ticket = None /\ SkipLine(t).source = None
             /\ SkipLine(t).allow = None
  <2>1. PICK g \in Seq(Texts) : g = <<t>>
    <3>1. <<t>> \in Seq(Texts)
      OBVIOUS
    <3> QED  BY <3>1, Zenon
  <2>2. SkipLine(t) = [x EXCEPT !.skip = g]
    BY <1>1, <2>1 DEF SkipLine
  <2> QED  BY <1>2, <1>6, <2>1, <2>2
<1>9. \A t \in Texts : TicketLine(t) = [x EXCEPT !.ticket = t]
  BY <1>1 DEF TicketLine
<1>10. \A t \in Texts : SourceLine(t) = [x EXCEPT !.source = t]
  BY <1>1 DEF SourceLine
<1>11. \A t \in Texts : AllowLine(t) = [x EXCEPT !.allow = t]
  BY <1>1 DEF AllowLine
<1>12. ASSUME NEW t \in Texts
       PROVE  /\ TicketLine(t) \in Line /\ TicketLine(t).ticket = t
              /\ TicketLine(t).source = None /\ TicketLine(t).skip = <<>>
              /\ TicketLine(t).allow = None /\ ~TicketLine(t).indented
  BY <1>2, <1>4, <1>9
<1>13. ASSUME NEW t \in Texts
       PROVE  /\ SourceLine(t) \in Line /\ SourceLine(t).source = t
              /\ SourceLine(t).ticket = None /\ SourceLine(t).skip = <<>>
              /\ SourceLine(t).allow = None /\ ~SourceLine(t).indented
  BY <1>2, <1>5, <1>10
<1>14. ASSUME NEW t \in Texts
       PROVE  /\ AllowLine(t) \in Line /\ AllowLine(t).allow = t
              /\ AllowLine(t).ticket = None /\ AllowLine(t).source = None
              /\ AllowLine(t).skip = <<>>
  BY <1>2, <1>7, <1>11
<1>15. Blank \in Line /\ ~IsStampLine(Blank)
  BY <1>1, <1>3, Zenon
<1> QED  BY <1>8, <1>12, <1>13, <1>14, <1>15, Zenon

\* The lines that spell the skip tokens.
SkipLineStep == [p \in Seq(Line) \X Skip |-> AddSkipLines(p[1], p[2])]

LEMMA SkipLineTyped == IsStep(SkipLineStep, <<>>, Seq(Line), Skip)
<1>1. ASSUME NEW ls \in Seq(Line), NEW s \in Skip  PROVE AddSkipLines(ls, s) \in Seq(Line)
  <2>1. SkipLine(s.gate) \in Line /\ AllowLine(s.allow) \in Line
    BY RenderedLines DEF Skip
  <2> QED  BY <2>1 DEF AddSkipLines
<1> QED  BY <1>1 DEF SkipLineStep, IsStep

LEMMA SkipLineRuns ==
  ASSUME NEW s \in Seq(Skip)
  PROVE  Folded(SkipLines(s), SkipLineStep, <<>>, Seq(Line), s)
<1> DEFINE Rec(g) == g = [t \in SUBSET (DOMAIN s) |->
                            IF t = {} THEN <<>> ELSE AddSkipLines(g[t \ {Max(t)}], s[Max(t)])]
<1>1. \A a \in Seq(Line), l \in Skip : SkipLineStep[<<a, l>>] = AddSkipLines(a, l)
  BY DEF SkipLineStep
<1>2. PICK it \in [SUBSET (DOMAIN s) -> Seq(Line)] : \A t \in SUBSET (DOMAIN s) :
             it[t] = IF t = {} THEN <<>> ELSE SkipLineStep[<<it[t \ {Max(t)}], s[Max(t)]>>]
  <2>1. Iterable(SkipLineStep, <<>>, Seq(Line), s)
    BY SkipLineTyped, FoldExists
  <2> QED  BY <2>1 DEF Iterable
<1>3. Rec(it)
  <2>1. ASSUME NEW t \in SUBSET (DOMAIN s), t # {}
        PROVE  it[t] = AddSkipLines(it[t \ {Max(t)}], s[Max(t)])
    <3>1. PICK m : m = Max(t)
      OBVIOUS
    <3>2. s[m] \in Skip /\ it[t \ {m}] \in Seq(Line)
      BY <2>1, <3>1, MaxPosition
    <3> QED  BY <1>1, <1>2, <2>1, <3>1, <3>2
  <2> QED  BY <1>2, <2>1
<1>4. PICK g : Rec(g) /\ SkipLines(s) = g[DOMAIN s]
  <2> DEFINE h == CHOOSE g : Rec(g)
  <2>1. Rec(h)
    <3> HIDE DEF Rec
    <3> QED  BY <1>3, Zenon
  <2>2. SkipLines(s) = h[DOMAIN s]
    BY Zenon DEF SkipLines, FoldLeft, MapThenFoldSet
  <2> HIDE DEF Rec, h
  <2> QED  BY <2>1, <2>2
<1>5. \A t \in SUBSET (DOMAIN s) :
           IF t = {} THEN g[t] = <<>>
           ELSE g[t \ {Max(t)}] \in Seq(Line) => g[t] = SkipLineStep[<<g[t \ {Max(t)}], s[Max(t)]>>]
  <2> SUFFICES ASSUME NEW t \in SUBSET (DOMAIN s), t # {}, g[t \ {Max(t)}] \in Seq(Line)
               PROVE  g[t] = SkipLineStep[<<g[t \ {Max(t)}], s[Max(t)]>>]
    BY <1>4
  <2>1. PICK m : m = Max(t)
    OBVIOUS
  <2>2. s[m] \in Skip
    BY <2>1, MaxPosition
  <2>3. g[t] = AddSkipLines(g[t \ {m}], s[m])
    BY <1>4, <2>1
  <2> QED  BY <1>1, <2>1, <2>2, <2>3
<1>6. PrefixValues(g, SkipLineStep, <<>>, Seq(Line), s)
  BY <1>5, FoldPrefixes
<1> QED  BY <1>4, <1>6, LenProperties DEF Folded

LEMMA SkipLineLaws ==
  /\ SkipLines(<<>>) = <<>>
  /\ \A s \in Seq(Skip) : SkipLines(s) \in Seq(Line)
  /\ \A s \in Seq(Skip), l \in Skip : SkipLines(Append(s, l)) = AddSkipLines(SkipLines(s), l)
<1> DEFINE V == [s \in Seq(Skip) |-> SkipLines(s)]
<1>1. \A s \in Seq(Skip) : V[s] = SkipLines(s)
  OBVIOUS
<1>2. <<>> \in Seq(Skip) /\ \A s \in Seq(Skip), l \in Skip : Append(s, l) \in Seq(Skip)
  OBVIOUS
<1>3. \A a \in Seq(Line), l \in Skip : SkipLineStep[<<a, l>>] = AddSkipLines(a, l)
  BY DEF SkipLineStep
<1>4. \A s \in Seq(Skip) : Folded(V[s], SkipLineStep, <<>>, Seq(Line), s)
  BY SkipLineRuns
<1> HIDE DEF V
<1>5. /\ V[<<>>] = <<>>
      /\ \A s \in Seq(Skip) : V[s] \in Seq(Line)
      /\ \A s \in Seq(Skip), l \in Skip : V[Append(s, l)] = SkipLineStep[<<V[s], l>>]
  BY <1>4, SkipLineTyped, FoldLaws DEF Follows, FoldsEach
<1>6. ASSUME NEW s \in Seq(Skip), NEW l \in Skip
      PROVE  SkipLines(s) \in Seq(Line) /\ SkipLines(Append(s, l)) = AddSkipLines(SkipLines(s), l)
  <2>1. V[s] \in Seq(Line) /\ V[Append(s, l)] = SkipLineStep[<<V[s], l>>]
    BY <1>5
  <2> QED  BY <1>1, <1>2, <1>3, <2>1
<1> QED  BY <1>1, <1>2, <1>5, <1>6

\* The lines of plain prose.
ProseStep == [p \in Seq(Line) \X Line |-> AddPlainProse(p[1], p[2])]

LEMMA ProseTyped == IsStep(ProseStep, <<>>, Seq(Line), Line)
<1>1. ASSUME NEW ls \in Seq(Line), NEW l \in Line  PROVE AddPlainProse(ls, l) \in Seq(Line)
  BY DEF AddPlainProse
<1> QED  BY <1>1 DEF ProseStep, IsStep

LEMMA ProseRuns ==
  ASSUME NEW s \in Seq(Line)
  PROVE  Folded(PlainProse(s), ProseStep, <<>>, Seq(Line), s)
<1> DEFINE Rec(g) == g = [t \in SUBSET (DOMAIN s) |->
                            IF t = {} THEN <<>> ELSE AddPlainProse(g[t \ {Max(t)}], s[Max(t)])]
<1>1. \A a \in Seq(Line), l \in Line : ProseStep[<<a, l>>] = AddPlainProse(a, l)
  BY DEF ProseStep
<1>2. PICK it \in [SUBSET (DOMAIN s) -> Seq(Line)] : \A t \in SUBSET (DOMAIN s) :
             it[t] = IF t = {} THEN <<>> ELSE ProseStep[<<it[t \ {Max(t)}], s[Max(t)]>>]
  <2>1. Iterable(ProseStep, <<>>, Seq(Line), s)
    BY ProseTyped, FoldExists
  <2> QED  BY <2>1 DEF Iterable
<1>3. Rec(it)
  <2>1. ASSUME NEW t \in SUBSET (DOMAIN s), t # {}
        PROVE  it[t] = AddPlainProse(it[t \ {Max(t)}], s[Max(t)])
    <3>1. PICK m : m = Max(t)
      OBVIOUS
    <3>2. s[m] \in Line /\ it[t \ {m}] \in Seq(Line)
      BY <2>1, <3>1, MaxPosition
    <3> QED  BY <1>1, <1>2, <2>1, <3>1, <3>2
  <2> QED  BY <1>2, <2>1
<1>4. PICK g : Rec(g) /\ PlainProse(s) = g[DOMAIN s]
  <2> DEFINE h == CHOOSE g : Rec(g)
  <2>1. Rec(h)
    <3> HIDE DEF Rec
    <3> QED  BY <1>3, Zenon
  <2>2. PlainProse(s) = h[DOMAIN s]
    BY Zenon DEF PlainProse, FoldLeft, MapThenFoldSet
  <2> HIDE DEF Rec, h
  <2> QED  BY <2>1, <2>2
<1>5. \A t \in SUBSET (DOMAIN s) :
           IF t = {} THEN g[t] = <<>>
           ELSE g[t \ {Max(t)}] \in Seq(Line) => g[t] = ProseStep[<<g[t \ {Max(t)}], s[Max(t)]>>]
  <2> SUFFICES ASSUME NEW t \in SUBSET (DOMAIN s), t # {}, g[t \ {Max(t)}] \in Seq(Line)
               PROVE  g[t] = ProseStep[<<g[t \ {Max(t)}], s[Max(t)]>>]
    BY <1>4
  <2>1. PICK m : m = Max(t)
    OBVIOUS
  <2>2. s[m] \in Line
    BY <2>1, MaxPosition
  <2>3. g[t] = AddPlainProse(g[t \ {m}], s[m])
    BY <1>4, <2>1
  <2> QED  BY <1>1, <2>1, <2>2, <2>3
<1>6. PrefixValues(g, ProseStep, <<>>, Seq(Line), s)
  BY <1>5, FoldPrefixes
<1> QED  BY <1>4, <1>6, LenProperties DEF Folded

LEMMA ProseLaws ==
  /\ PlainProse(<<>>) = <<>>
  /\ \A s \in Seq(Line) : PlainProse(s) \in Seq(Line)
  /\ \A s \in Seq(Line), l \in Line : PlainProse(Append(s, l)) = AddPlainProse(PlainProse(s), l)
<1> DEFINE V == [s \in Seq(Line) |-> PlainProse(s)]
<1>1. \A s \in Seq(Line) : V[s] = PlainProse(s)
  OBVIOUS
<1>2. <<>> \in Seq(Line) /\ \A s \in Seq(Line), l \in Line : Append(s, l) \in Seq(Line)
  OBVIOUS
<1>3. \A a \in Seq(Line), l \in Line : ProseStep[<<a, l>>] = AddPlainProse(a, l)
  BY DEF ProseStep
<1>4. \A s \in Seq(Line) : Folded(V[s], ProseStep, <<>>, Seq(Line), s)
  BY ProseRuns
<1> HIDE DEF V
<1>5. /\ V[<<>>] = <<>>
      /\ \A s \in Seq(Line) : V[s] \in Seq(Line)
      /\ \A s \in Seq(Line), l \in Line : V[Append(s, l)] = ProseStep[<<V[s], l>>]
  BY <1>4, ProseTyped, FoldLaws DEF Follows, FoldsEach
<1>6. ASSUME NEW s \in Seq(Line), NEW l \in Line
      PROVE  PlainProse(s) \in Seq(Line) /\ PlainProse(Append(s, l)) = AddPlainProse(PlainProse(s), l)
  <2>1. V[s] \in Seq(Line) /\ V[Append(s, l)] = ProseStep[<<V[s], l>>]
    BY <1>5
  <2> QED  BY <1>1, <1>2, <1>3, <2>1
<1> QED  BY <1>1, <1>2, <1>5, <1>6

-----------------------------------------------------------------------------
(* Lines, and sequences of lines *)

LEMMA ConcatLaws ==
  ASSUME NEW S, NEW h \in Seq(S), NEW t \in Seq(S), NEW x \in S
  PROVE  /\ h \o t \in Seq(S) /\ h \o <<>> = h /\ <<>> \o h = h
         /\ Append(h, x) \in Seq(S) /\ Append(h, x) # <<>>
         /\ h \o Append(t, x) = Append(h \o t, x)
         /\ h \o <<x>> = Append(h, x) /\ <<x>> \in Seq(S)
<1>1. h \o t \in Seq(S) /\ h \o <<>> = h /\ <<>> \o h = h
  BY ConcatProperties
<1>2. Append(h, x) \in Seq(S) /\ Append(h, x) # <<>>
  BY AppendProperties
<1>3. <<x>> \in Seq(S) /\ h \o <<x>> = Append(h, x) /\ t \o <<x>> = Append(t, x)
  BY AppendIsConcat
<1>4. (h \o t) \o <<x>> = Append(h \o t, x)
  BY <1>1, AppendIsConcat
<1>5. h \o (t \o <<x>>) = (h \o t) \o <<x>>
  BY <1>3, ConcatAssociative
<1> QED  BY <1>1, <1>2, <1>3, <1>4, <1>5

\* The ticket lines, one ticket at a time.
LEMMA TicketLinesLaws ==
  /\ TicketLines(<<>>) = <<>>
  /\ \A ts \in Seq(Texts) : TicketLines(ts) \in Seq(Line)
  /\ \A ts \in Seq(Texts), t \in Texts :
       TicketLines(Append(ts, t)) = Append(TicketLines(ts), TicketLine(t))
<1>1. ASSUME NEW ts \in Seq(Texts)
      PROVE  TicketLines(ts) \in Seq(Line) /\ Len(TicketLines(ts)) = Len(ts)
             /\ \A i \in 1..Len(ts) : TicketLines(ts)[i] = TicketLine(ts[i])
  <2>1. Len(ts) \in Nat /\ DOMAIN ts = 1..Len(ts) /\ \A i \in 1..Len(ts) : ts[i] \in Texts
    BY LenProperties, ElementOfSeq
  <2>2. \A i \in 1..Len(ts) : TicketLine(ts[i]) \in Line
    BY <2>1, RenderedLines
  <2>3. TicketLines(ts) \in [1..Len(ts) -> Line]
    BY <2>1, <2>2 DEF TicketLines
  <2>4. TicketLines(ts) \in Seq(Line)
    BY <2>1, <2>3 DEF TicketLines
  <2>5. Len(TicketLines(ts)) = Len(ts)
    BY <2>1, <2>3, <2>4, LenProperties
  <2> QED  BY <2>1, <2>4, <2>5 DEF TicketLines
<1>2. TicketLines(<<>>) = <<>>
  <2>1. <<>> \in Seq(Texts) /\ Len(<<>>) = 0
    OBVIOUS
  <2> QED  BY <1>1, <2>1, EmptySeq
<1>3. ASSUME NEW ts \in Seq(Texts), NEW t \in Texts
      PROVE  TicketLines(Append(ts, t)) = Append(TicketLines(ts), TicketLine(t))
  <2>1. PICK us : us = TicketLines(ts)
    OBVIOUS
  <2>2. PICK vs : vs = TicketLines(Append(ts, t))
    OBVIOUS
  <2>3. /\ Append(ts, t) \in Seq(Texts) /\ Len(Append(ts, t)) = Len(ts) + 1 /\ Len(ts) \in Nat
        /\ \A i \in 1..Len(ts) : Append(ts, t)[i] = ts[i]
        /\ Append(ts, t)[Len(ts) + 1] = t
    BY AppendProperties, LenProperties
  <2>4. TicketLine(t) \in Line
    BY RenderedLines
  <2>5. us \in Seq(Line) /\ Len(us) = Len(ts) /\ \A i \in 1..Len(ts) : us[i] = TicketLine(ts[i])
    BY <1>1, <2>1
  <2>6. vs \in Seq(Line) /\ Len(vs) = Len(ts) + 1
        /\ \A i \in 1..(Len(ts) + 1) : vs[i] = TicketLine(Append(ts, t)[i])
    <3>1. vs \in Seq(Line) /\ Len(vs) = Len(Append(ts, t))
          /\ \A i \in 1..Len(Append(ts, t)) : vs[i] = TicketLine(Append(ts, t)[i])
      BY <1>1, <2>2, <2>3
    <3> QED  BY <2>3, <3>1
  <2>7. Append(us, TicketLine(t)) \in Seq(Line) /\ Len(Append(us, TicketLine(t))) = Len(ts) + 1
        /\ (\A i \in 1..Len(ts) : Append(us, TicketLine(t))[i] = us[i])
        /\ Append(us, TicketLine(t))[Len(ts) + 1] = TicketLine(t)
    BY <2>4, <2>5, AppendProperties
  <2>8. \A i \in 1..Len(vs) : vs[i] = Append(us, TicketLine(t))[i]
    <3> TAKE i \in 1..Len(vs)
    <3>1. CASE i = Len(ts) + 1
      BY <2>3, <2>6, <2>7, <3>1
    <3>2. CASE i # Len(ts) + 1
      <4>1. i \in 1..Len(ts) /\ i \in 1..(Len(ts) + 1)
        BY <2>3, <2>6, <3>2
      <4>2. vs[i] = TicketLine(Append(ts, t)[i])
        BY <2>6, <4>1
      <4> QED  BY <2>3, <2>5, <2>7, <4>1, <4>2
    <3> QED  BY <3>1, <3>2
  <2>9. vs = Append(us, TicketLine(t))
    BY <2>6, <2>7, <2>8, SeqEqual
  <2> QED  BY <2>1, <2>2, <2>9
<1> QED  BY <1>1, <1>2, <1>3

LEMMA SourceLinesTyped == \A src \in Texts : SourceLines(src) \in Seq(Line)
<1> SUFFICES ASSUME NEW src \in Texts  PROVE SourceLines(src) \in Seq(Line)
  OBVIOUS
<1>1. <<SourceLine(src)>> \in Seq(Line)
  BY RenderedLines, ConcatLaws
<1> QED  BY <1>1 DEF SourceLines

\* rstrip drops a last blank line and stops at a line that is not blank.
LEMMA RStripLaws ==
  /\ RStrip(<<>>) = <<>>
  /\ \A ls \in Seq(Line) : RStrip(ls) \in Seq(Line)
  /\ \A ls \in Seq(Line) : RStrip(Append(ls, Blank)) = RStrip(ls)
  /\ \A ls \in Seq(Line), l \in Line : l # Blank => RStrip(Append(ls, l)) = Append(ls, l)
<1> DEFINE At(ls) == {0} \cup {i \in DOMAIN ls : ls[i] # Blank}
<1>1. ASSUME NEW ls \in Seq(Line)
      PROVE  /\ Len(ls) \in Nat /\ DOMAIN ls = 1..Len(ls)
             /\ At(ls) \in SUBSET (0..Len(ls)) /\ At(ls) # {}
  BY LenProperties
<1>2. ASSUME NEW ls \in Seq(Line), NEW m, m = Max(At(ls))
      PROVE  /\ m \in At(ls) /\ m \in 0..Len(ls) /\ RStrip(ls) = SubSeq(ls, 1, m)
  <2> HIDE DEF At
  <2>1. m \in At(ls) /\ m \in 0..Len(ls)
    BY <1>1, <1>2, MaxIn
  <2> QED  BY <1>2, <2>1 DEF RStrip, At
<1>3. ASSUME NEW ls \in Seq(Line)  PROVE RStrip(ls) \in Seq(Line)
  <2>1. PICK m : m = Max(At(ls))
    OBVIOUS
  <2>2. m \in 0..Len(ls) /\ RStrip(ls) = SubSeq(ls, 1, m)
    BY <1>2, <2>1
  <2>3. \A i \in 1..m : ls[i] \in Line
    BY <1>1, <2>2, ElementOfSeq
  <2>4. m \in Nat /\ 1 <= m + 1 /\ m <= Len(ls)
    BY <1>1, <2>2
  <2> QED  BY <2>2, <2>3, <2>4, SubSeqProperties
<1>4. RStrip(<<>>) = <<>>
  <2>0. <<>> \in Seq(Line) /\ Len(<<>>) = 0
    OBVIOUS
  <2>1. PICK e \in Seq(Line) : e = <<>> /\ Len(e) = 0
    BY <2>0, Zenon
  <2>2. PICK m : m = Max(At(e))
    OBVIOUS
  <2>3. m \in 0..Len(e) /\ RStrip(e) = SubSeq(e, 1, m)
    <3> HIDE DEF At
    <3> QED  BY <1>2, <2>2
  <2>4. m = 0
    BY <2>1, <2>3
  <2>5. SubSeq(e, 1, 0) = <<>>
    BY <2>1
  <2> QED  BY <2>1, <2>3, <2>4, <2>5
<1>5. ASSUME NEW ls \in Seq(Line)  PROVE RStrip(Append(ls, Blank)) = RStrip(ls)
  <2>1. /\ Append(ls, Blank) \in Seq(Line) /\ Len(Append(ls, Blank)) = Len(ls) + 1
        /\ \A i \in 1..Len(ls) : Append(ls, Blank)[i] = ls[i]
        /\ Append(ls, Blank)[Len(ls) + 1] = Blank
    BY AppendProperties, RenderedLines
  <2>2. At(Append(ls, Blank)) = At(ls)
    <3>1. DOMAIN Append(ls, Blank) = 1..(Len(ls) + 1) /\ Len(ls) \in Nat /\ DOMAIN ls = 1..Len(ls)
      BY <1>1, <2>1
    <3>2. ASSUME NEW i, i \in 1..(Len(ls) + 1), Append(ls, Blank)[i] # Blank
          PROVE  i \in 1..Len(ls) /\ ls[i] # Blank
      BY <2>1, <3>1, <3>2
    <3>3. ASSUME NEW i, i \in 1..Len(ls), ls[i] # Blank
          PROVE  i \in 1..(Len(ls) + 1) /\ Append(ls, Blank)[i] # Blank
      BY <2>1, <3>1, <3>3
    <3> QED  BY <3>1, <3>2, <3>3
  <2>3. PICK m : m = Max(At(ls))
    OBVIOUS
  <2>4. m \in 0..Len(ls) /\ RStrip(ls) = SubSeq(ls, 1, m)
    BY <1>2, <2>3
  <2>5. RStrip(Append(ls, Blank)) = SubSeq(Append(ls, Blank), 1, m)
    <3> HIDE DEF At
    <3> QED  BY <1>2, <2>1, <2>2, <2>3
  <2>6. SubSeq(Append(ls, Blank), 1, m) = SubSeq(ls, 1, m)
    <3>1. m \in Nat /\ m <= Len(ls) /\ 1 <= m + 1 /\ m <= Len(Append(ls, Blank))
      BY <1>1, <2>1, <2>4
    <3>2. \A i \in 1..m : ls[i] \in Line /\ Append(ls, Blank)[i] = ls[i] /\ Append(ls, Blank)[i] \in Line
      BY <1>1, <2>1, <3>1, ElementOfSeq
    <3>3. /\ SubSeq(ls, 1, m) \in Seq(Line) /\ Len(SubSeq(ls, 1, m)) = m
          /\ \A i \in 1..m : SubSeq(ls, 1, m)[i] = ls[i]
      BY <3>1, <3>2, SubSeqProperties
    <3>4. /\ SubSeq(Append(ls, Blank), 1, m) \in Seq(Line) /\ Len(SubSeq(Append(ls, Blank), 1, m)) = m
          /\ \A i \in 1..m : SubSeq(Append(ls, Blank), 1, m)[i] = Append(ls, Blank)[i]
      BY <2>1, <3>1, <3>2, SubSeqProperties
    <3> QED  BY <3>2, <3>3, <3>4, SeqEqual
  <2> QED  BY <2>4, <2>5, <2>6
<1>6. ASSUME NEW ls \in Seq(Line), NEW l \in Line, l # Blank
      PROVE  RStrip(Append(ls, l)) = Append(ls, l)
  <2>1. /\ Append(ls, l) \in Seq(Line) /\ Len(Append(ls, l)) = Len(ls) + 1
        /\ Append(ls, l)[Len(ls) + 1] = l
    BY AppendProperties
  <2>2. PICK m : m = Max(At(Append(ls, l)))
    OBVIOUS
  <2>3. m \in 0..(Len(ls) + 1) /\ RStrip(Append(ls, l)) = SubSeq(Append(ls, l), 1, m)
    BY <1>2, <2>1, <2>2
  <2>4. Len(ls) + 1 \in At(Append(ls, l))
    BY <1>1, <1>6, <2>1
  <2>5. m >= Len(ls) + 1
    <3> HIDE DEF At
    <3> QED  BY <1>1, <2>1, <2>2, <2>4, MaxIn
  <2>6. m = Len(Append(ls, l))
    BY <1>1, <2>1, <2>3, <2>5
  <2>7. SubSeq(Append(ls, l), 1, Len(Append(ls, l))) = Append(ls, l)
    BY <2>1
  <2> QED  BY <2>3, <2>6, <2>7
<1> QED  BY <1>3, <1>4, <1>5, <1>6

-----------------------------------------------------------------------------
(* Sections *)

\* The sections once the open run is closed.
Closed(acc) == Append(acc.done, [stamp |-> acc.stamp, lines |-> acc.open])

\* The prose a parsed body keeps, and the class of its last run.
Human(b) == HumanOf(ParseSections(b))
Stamped(b) == Sections(b).stamp

\* Neighbours differ in class, and a line that is not blank is in a section of its class.
WellGrouped(secs) ==
  \A i \in DOMAIN secs :
    /\ i > 1 => secs[i].stamp # secs[i - 1].stamp
    /\ \A j \in DOMAIN secs[i].lines :
         secs[i].lines[j] # Blank => IsStampLine(secs[i].lines[j]) = secs[i].stamp

LEMMA StampLineBoolean == \A l \in Line : IsStampLine(l) \in BOOLEAN
  BY DEF IsStampLine, Line

LEMMA GroupedFields ==
  \A acc \in Grouped : /\ acc.done \in Seq(Section) /\ acc.open \in Seq(Line) /\ acc.stamp \in BOOLEAN
                       /\ [stamp |-> acc.stamp, lines |-> acc.open] \in Section
                       /\ Closed(acc) \in Seq(Section)
<1> SUFFICES ASSUME NEW acc \in Grouped
             PROVE  /\ acc.done \in Seq(Section) /\ acc.open \in Seq(Line) /\ acc.stamp \in BOOLEAN
                    /\ [stamp |-> acc.stamp, lines |-> acc.open] \in Section
                    /\ Closed(acc) \in Seq(Section)
  OBVIOUS
<1>1. acc.done \in Seq(Section) /\ acc.open \in Seq(Line) /\ acc.stamp \in BOOLEAN
  BY DEF Grouped
<1>2. [stamp |-> acc.stamp, lines |-> acc.open] \in Section
  BY <1>1 DEF Section
<1>3. Closed(acc) \in Seq(Section)
  BY <1>1, <1>2, AppendProperties DEF Closed
<1> QED  BY <1>1, <1>2, <1>3

\* One line more: it joins the open run, or closes it and opens another.
LEMMA AddOneLine ==
  ASSUME NEW acc \in Grouped, NEW l \in Line, acc.open = <<>> => acc = NoSections,
         NEW new, new = AddToSections(acc, l)
  PROVE  /\ new \in Grouped /\ new.open # <<>>
         /\ new.stamp = IF l = Blank THEN acc.stamp ELSE IsStampLine(l)
         /\ \/ /\ new.done = acc.done /\ new.open = Append(acc.open, l)
               /\ acc.open = <<>> \/ new.stamp = acc.stamp
            \/ /\ new.done = Closed(acc) /\ new.open = <<l>>
               /\ acc.open # <<>> /\ new.stamp # acc.stamp
<1>1. acc.open \in Seq(Line) /\ Append(acc.open, l) # <<>> /\ <<l>> # <<>>
  <2>1. acc.open \in Seq(Line)
    BY GroupedFields
  <2>2. Append(acc.open, l) # <<>>
    BY <2>1, ConcatLaws
  <2>3. <<l>> # <<>>
    OBVIOUS
  <2> QED  BY <2>1, <2>2, <2>3
<1>2. acc.done \in Seq(Section) /\ acc.stamp \in BOOLEAN /\ IsStampLine(l) \in BOOLEAN
  BY GroupedFields, StampLineBoolean
<1>3. NoSections.stamp = FALSE /\ ~IsStampLine(Blank)
  BY RenderedLines DEF NoSections
<1> DEFINE stamp == IF l = Blank /\ acc.open # <<>> THEN acc.stamp ELSE IsStampLine(l)
<1>4. stamp = IF l = Blank THEN acc.stamp ELSE IsStampLine(l)
  BY <1>2, <1>3
<1>5. new = IF acc.open = <<>> \/ stamp = acc.stamp
            THEN [acc EXCEPT !.open = Append(acc.open, l), !.stamp = stamp]
            ELSE [done |-> Closed(acc), open |-> <<l>>, stamp |-> stamp]
  BY DEF AddToSections, Closed
<1>6. new \in Grouped
  <2>1. SectionStep[<<acc, l>>] = AddToSections(acc, l)
    BY DEF SectionStep
  <2>2. SectionStep \in [Grouped \X Line -> Grouped]
    BY SectionTyped DEF IsStep
  <2>3. SectionStep[<<acc, l>>] \in Grouped
    BY <2>2
  <2> QED  BY <2>1, <2>3
<1> HIDE DEF stamp
<1>7. CASE acc.open = <<>> \/ stamp = acc.stamp
  <2>1. new.done = acc.done /\ new.open = Append(acc.open, l) /\ new.stamp = stamp
    BY <1>5, <1>7 DEF Grouped
  <2> QED  BY <1>1, <1>4, <1>6, <1>7, <2>1
<1>8. CASE ~(acc.open = <<>> \/ stamp = acc.stamp)
  <2>1. new.done = Closed(acc) /\ new.open = <<l>> /\ new.stamp = stamp
    BY <1>5, <1>8
  <2> QED  BY <1>1, <1>4, <1>6, <1>8, <2>1
<1> QED  BY <1>7, <1>8

\* Only the empty body has no open run.
LEMMA OpenRun ==
  \A b \in Seq(Line) : Sections(b) \in Grouped /\ (Sections(b).open = <<>> => Sections(b) = NoSections)
<1> DEFINE S == {b \in Seq(Line) : Sections(b).open = <<>> => Sections(b) = NoSections}
<1>1. <<>> \in S
  BY SectionLaws
<1>2. ASSUME NEW b \in S, NEW l \in Line  PROVE Append(b, l) \in S
  <2>1. Append(b, l) \in Seq(Line) /\ b \in Seq(Line) /\ Sections(b) \in Grouped
    BY SectionLaws
  <2>2. Sections(Append(b, l)) = AddToSections(Sections(b), l)
    BY <2>1, SectionLaws
  <2>3. PICK new : new = Sections(Append(b, l))
    OBVIOUS
  <2>4. new.open # <<>>
    BY <2>1, <2>2, <2>3, AddOneLine
  <2> QED  BY <2>1, <2>3, <2>4
<1>3. S = Seq(Line)
  <2> HIDE DEF S
  <2>1. S \in SUBSET Seq(Line)
    BY DEF S
  <2> QED  BY <1>1, <1>2, <2>1, SeqSetInduction
<1> QED  BY <1>3, SectionLaws

\* The human lines of the sections of a body, one line at a time.
LEMMA HumanAppend ==
  /\ Human(<<>>) = <<>> /\ Stamped(<<>>) = FALSE
  /\ \A b \in Seq(Line) : Human(b) \in Seq(Line) /\ Stamped(b) \in BOOLEAN
  /\ \A b \in Seq(Line), l \in Line :
       /\ Stamped(Append(b, l)) = IF l = Blank THEN Stamped(b) ELSE IsStampLine(l)
       /\ Human(Append(b, l)) = IF Stamped(Append(b, l)) THEN Human(b) ELSE Append(Human(b), l)
<1>0. \A b : Human(b) = HumanOf(Closed(Sections(b)))
  BY DEF Human, ParseSections, Closed
<1>1. ASSUME NEW acc \in Grouped
      PROVE  /\ HumanOf(acc.done) \in Seq(Line)
             /\ HumanOf(Closed(acc)) = IF acc.stamp THEN HumanOf(acc.done)
                                       ELSE HumanOf(acc.done) \o acc.open
  <2>1. PICK sec \in Section : sec = [stamp |-> acc.stamp, lines |-> acc.open]
    BY GroupedFields
  <2>2. HumanOf(Append(acc.done, sec)) = AddHuman(HumanOf(acc.done), sec)
    BY GroupedFields, HumanLaws
  <2>3. HumanOf(acc.done) \in Seq(Line)
    BY GroupedFields, HumanLaws
  <2> QED  BY <2>1, <2>2, <2>3 DEF AddHuman, Closed
<1>2. Human(<<>>) = <<>> /\ Stamped(<<>>) = FALSE
  <2>1. Sections(<<>>) = NoSections /\ NoSections \in Grouped
    BY SectionLaws, SectionTyped DEF IsStep
  <2>2. NoSections.done = <<>> /\ NoSections.open = <<>> /\ NoSections.stamp = FALSE
    BY DEF NoSections
  <2>3. HumanOf(<<>>) = <<>> /\ <<>> \o <<>> = <<>>
    BY HumanLaws
  <2> QED  BY <1>0, <1>1, <2>1, <2>2, <2>3 DEF Stamped
<1>3. ASSUME NEW b \in Seq(Line)  PROVE Human(b) \in Seq(Line) /\ Stamped(b) \in BOOLEAN
  <2>1. Sections(b) \in Grouped
    BY SectionLaws
  <2>2. Closed(Sections(b)) \in Seq(Section) /\ Sections(b).stamp \in BOOLEAN
    BY <2>1, GroupedFields
  <2> QED  BY <1>0, <2>2, HumanLaws DEF Stamped
<1>4. ASSUME NEW b \in Seq(Line), NEW l \in Line
      PROVE  /\ Stamped(Append(b, l)) = IF l = Blank THEN Stamped(b) ELSE IsStampLine(l)
             /\ Human(Append(b, l)) = IF Stamped(Append(b, l)) THEN Human(b) ELSE Append(Human(b), l)
  <2>1. PICK acc \in Grouped : acc = Sections(b) /\ (acc.open = <<>> => acc = NoSections)
    BY OpenRun
  <2>2. PICK new : new = Sections(Append(b, l)) /\ new = AddToSections(acc, l)
    BY <2>1, SectionLaws
  <2>3. /\ new \in Grouped
        /\ new.stamp = IF l = Blank THEN acc.stamp ELSE IsStampLine(l)
        /\ \/ /\ new.done = acc.done /\ new.open = Append(acc.open, l)
              /\ acc.open = <<>> \/ new.stamp = acc.stamp
           \/ /\ new.done = Closed(acc) /\ new.open = <<l>>
              /\ acc.open # <<>> /\ new.stamp # acc.stamp
    BY <2>1, <2>2, AddOneLine
  <2>4. HumanOf(Closed(new)) = IF new.stamp THEN HumanOf(Closed(acc)) ELSE Append(HumanOf(Closed(acc)), l)
    <3>1. PICK h \in Seq(Line) : h = HumanOf(acc.done)
      BY <1>1
    <3>2. HumanOf(Closed(acc)) = IF acc.stamp THEN h ELSE h \o acc.open
      BY <1>1, <3>1
    <3>3. acc.open \in Seq(Line) /\ acc.stamp \in BOOLEAN /\ new.stamp \in BOOLEAN
      BY <2>3, GroupedFields
    <3>4. h \o <<>> = h /\ h \o acc.open \in Seq(Line) /\ h \o Append(acc.open, l) = Append(h \o acc.open, l)
      BY <3>3, ConcatLaws
    <3>5. CASE /\ new.done = acc.done /\ new.open = Append(acc.open, l)
               /\ acc.open = <<>> \/ new.stamp = acc.stamp
      <4>1. HumanOf(Closed(new)) = IF new.stamp THEN h ELSE h \o Append(acc.open, l)
        BY <1>1, <2>3, <3>1, <3>5
      <4> QED  BY <3>2, <3>3, <3>4, <3>5, <4>1
    <3>6. CASE /\ new.done = Closed(acc) /\ new.open = <<l>>
               /\ acc.open # <<>> /\ new.stamp # acc.stamp
      <4>1. PICK k \in Seq(Line) : k = HumanOf(Closed(acc))
        BY <1>0, <1>3, <2>1
      <4>2. HumanOf(Closed(new)) = IF new.stamp THEN k ELSE k \o <<l>>
        BY <1>1, <2>3, <3>6, <4>1
      <4>3. k \o <<l>> = Append(k, l)
        BY ConcatLaws
      <4> QED  BY <4>1, <4>2, <4>3
    <3> QED  BY <2>3, <3>5, <3>6
  <2> QED  BY <1>0, <2>1, <2>2, <2>3, <2>4 DEF Stamped
<1> QED  BY <1>2, <1>3, <1>4

\* The sections spell the body.
LEMMA SectionsSpell ==
  \A b \in Seq(Line) : SectionLines(ParseSections(b)) = b
<1>0. \A b : ParseSections(b) = Closed(Sections(b))
  BY DEF ParseSections, Closed
<1>1. ASSUME NEW acc \in Grouped
      PROVE  /\ SectionLines(acc.done) \in Seq(Line)
             /\ SectionLines(Closed(acc)) = SectionLines(acc.done) \o acc.open
  <2>1. PICK sec \in Section : sec = [stamp |-> acc.stamp, lines |-> acc.open]
    BY GroupedFields
  <2>2. SectionLines(Append(acc.done, sec)) = AddLines(SectionLines(acc.done), sec)
    BY GroupedFields, AllLaws
  <2>3. SectionLines(acc.done) \in Seq(Line)
    BY GroupedFields, AllLaws
  <2> QED  BY <2>1, <2>2, <2>3 DEF AddLines, Closed
<1> DEFINE S == {b \in Seq(Line) : SectionLines(Closed(Sections(b))) = b}
<1>2. <<>> \in S
  <2>1. Sections(<<>>) = NoSections /\ NoSections \in Grouped
    BY SectionLaws, SectionTyped DEF IsStep
  <2>2. NoSections.done = <<>> /\ NoSections.open = <<>>
    BY DEF NoSections
  <2>3. SectionLines(<<>>) = <<>> /\ <<>> \o <<>> = <<>>
    BY AllLaws
  <2> QED  BY <1>1, <2>1, <2>2, <2>3
<1>3. ASSUME NEW b \in S, NEW l \in Line  PROVE Append(b, l) \in S
  <2>1. b \in Seq(Line) /\ Append(b, l) \in Seq(Line) /\ SectionLines(Closed(Sections(b))) = b
    OBVIOUS
  <2>2. PICK acc \in Grouped : acc = Sections(b) /\ (acc.open = <<>> => acc = NoSections)
    BY <2>1, OpenRun
  <2>3. PICK new : new = Sections(Append(b, l)) /\ new = AddToSections(acc, l)
    BY <2>1, <2>2, SectionLaws
  <2>4. /\ new \in Grouped
        /\ \/ new.done = acc.done /\ new.open = Append(acc.open, l)
           \/ new.done = Closed(acc) /\ new.open = <<l>>
    BY <2>2, <2>3, AddOneLine
  <2>5. SectionLines(Closed(new)) = Append(b, l)
    <3>1. PICK h \in Seq(Line) : h = SectionLines(acc.done)
      BY <1>1
    <3>2. acc.open \in Seq(Line) /\ h \o acc.open = b
      BY <1>1, <2>1, <2>2, <3>1, GroupedFields
    <3>3. h \o Append(acc.open, l) = Append(b, l) /\ b \o <<l>> = Append(b, l)
      BY <2>1, <3>2, ConcatLaws
    <3>4. CASE new.done = acc.done /\ new.open = Append(acc.open, l)
      BY <1>1, <2>4, <3>1, <3>3, <3>4
    <3>5. CASE new.done = Closed(acc) /\ new.open = <<l>>
      BY <1>1, <2>1, <2>2, <2>4, <3>3, <3>5
    <3> QED  BY <2>4, <3>4, <3>5
  <2> QED  BY <2>1, <2>3, <2>5
<1>4. S = Seq(Line)
  <2> HIDE DEF S
  <2>1. S \in SUBSET Seq(Line)
    BY DEF S
  <2> QED  BY <1>2, <1>3, <2>1, SeqSetInduction
<1> QED  BY <1>0, <1>4

\* The sections of a body are well grouped.
LEMMA SectionsWellGrouped ==
  \A b \in Seq(Line) : WellGrouped(ParseSections(b))
<1>0. \A b : ParseSections(b) = Closed(Sections(b))
  BY DEF ParseSections, Closed
<1> DEFINE Shape(acc, secs, n) ==
             /\ n \in Nat /\ secs \in Seq(Section) /\ DOMAIN secs = 1..n /\ Len(secs) = n
             /\ secs[n].stamp = acc.stamp /\ secs[n].lines = acc.open
             /\ \A i \in 1..(n - 1) : secs[i] = acc.done[i]
<1>1. ASSUME NEW acc \in Grouped  PROVE Shape(acc, Closed(acc), Len(acc.done) + 1)
  <2>1. PICK sec \in Section : sec = [stamp |-> acc.stamp, lines |-> acc.open]
    BY GroupedFields
  <2>2. acc.done \in Seq(Section)
    BY GroupedFields
  <2> QED  BY <2>1, <2>2, AppendProperties, LenProperties DEF Closed
<1> DEFINE S == {b \in Seq(Line) : WellGrouped(Closed(Sections(b)))}
<1>2. <<>> \in S
  <2>1. Sections(<<>>) = NoSections /\ NoSections \in Grouped /\ NoSections.done = <<>>
        /\ NoSections.open = <<>>
    BY SectionLaws, SectionTyped DEF IsStep, NoSections
  <2>2. PICK secs : secs = Closed(NoSections)
    OBVIOUS
  <2>3. PICK n : n = Len(NoSections.done) + 1
    OBVIOUS
  <2>4. n = 1
    BY <2>1, <2>3
  <2>5. DOMAIN secs = 1..1 /\ secs[1].lines = <<>>
    <3> HIDE DEF Shape
    <3>0. Shape(NoSections, secs, n)
      BY <1>1, <2>1, <2>2, <2>3
    <3>1. DOMAIN secs = 1..n /\ secs[n].lines = NoSections.open
      BY <3>0 DEF Shape
    <3> QED  BY <2>1, <2>4, <3>1
  <2>6. WellGrouped(secs)
    BY <2>5 DEF WellGrouped
  <2> QED  BY <2>1, <2>2, <2>6
<1>3. ASSUME NEW b \in S, NEW l \in Line  PROVE Append(b, l) \in S
  <2>1. b \in Seq(Line) /\ Append(b, l) \in Seq(Line) /\ WellGrouped(Closed(Sections(b)))
    OBVIOUS
  <2>2. PICK acc \in Grouped : acc = Sections(b) /\ (acc.open = <<>> => acc = NoSections)
    BY <2>1, OpenRun
  <2>3. PICK new : new = Sections(Append(b, l)) /\ new = AddToSections(acc, l)
    BY <2>1, <2>2, SectionLaws
  <2>4. /\ new \in Grouped
        /\ new.stamp = IF l = Blank THEN acc.stamp ELSE IsStampLine(l)
        /\ \/ /\ new.done = acc.done /\ new.open = Append(acc.open, l)
              /\ acc.open = <<>> \/ new.stamp = acc.stamp
           \/ /\ new.done = Closed(acc) /\ new.open = <<l>>
              /\ acc.open # <<>> /\ new.stamp # acc.stamp
    BY <2>2, <2>3, AddOneLine
  <2>5. l # Blank => IsStampLine(l) = new.stamp
    BY <2>4
  <2>6. PICK secs : secs = Closed(acc)
    OBVIOUS
  <2>7. PICK more : more = Closed(new)
    OBVIOUS
  <2>8. PICK n : n = Len(acc.done) + 1
    OBVIOUS
  <2>9. PICK m : m = Len(new.done) + 1
    OBVIOUS
  <2>10. /\ n \in Nat /\ secs \in Seq(Section) /\ DOMAIN secs = 1..n /\ Len(secs) = n
         /\ secs[n].stamp = acc.stamp /\ secs[n].lines = acc.open
         /\ \A i \in 1..(n - 1) : secs[i] = acc.done[i]
    <3> HIDE DEF Shape
    <3>1. Shape(acc, secs, n)
      BY <1>1, <2>6, <2>8
    <3> QED  BY <3>1 DEF Shape
  <2>11. /\ m \in Nat /\ more \in Seq(Section) /\ DOMAIN more = 1..m /\ Len(more) = m
         /\ more[m].stamp = new.stamp /\ more[m].lines = new.open
         /\ \A i \in 1..(m - 1) : more[i] = new.done[i]
    <3> HIDE DEF Shape
    <3>1. Shape(new, more, m)
      BY <1>1, <2>4, <2>7, <2>9
    <3> QED  BY <3>1 DEF Shape
  <2>12. WellGrouped(secs)
    BY <2>1, <2>2, <2>6
  <2>13. CASE /\ new.done = acc.done /\ new.open = Append(acc.open, l)
              /\ acc.open = <<>> \/ new.stamp = acc.stamp
    <3>1. m = n /\ \A i \in 1..(n - 1) : more[i] = secs[i]
      BY <2>8, <2>9, <2>10, <2>11, <2>13
    <3>2. acc.open \in Seq(Line) /\ Len(acc.open) \in Nat /\ DOMAIN acc.open = 1..Len(acc.open)
      BY GroupedFields, LenProperties
    <3>3. /\ DOMAIN new.open = 1..(Len(acc.open) + 1)
          /\ \A j \in 1..Len(acc.open) : new.open[j] = acc.open[j]
          /\ new.open[Len(acc.open) + 1] = l
      BY <2>13, <3>2, AppendProperties
    <3>4. ASSUME NEW j \in DOMAIN new.open, new.open[j] # Blank
          PROVE  IsStampLine(new.open[j]) = new.stamp
      <4>1. CASE j = Len(acc.open) + 1
        BY <2>5, <3>3, <3>4, <4>1
      <4>2. CASE j # Len(acc.open) + 1
        <5>1. j \in 1..Len(acc.open) /\ new.open[j] = acc.open[j] /\ acc.open # <<>>
          BY <3>2, <3>3, <4>2
        <5>2. n \in DOMAIN secs /\ j \in DOMAIN secs[n].lines
          BY <2>8, <2>10, <3>2, <5>1
        <5>3. IsStampLine(acc.open[j]) = acc.stamp
          BY <2>10, <2>12, <3>4, <5>1, <5>2 DEF WellGrouped
        <5> QED  BY <2>13, <5>1, <5>3
      <4> QED  BY <4>1, <4>2
    <3>5. n > 1 => more[n].stamp # more[n - 1].stamp
      <4>1. SUFFICES ASSUME n > 1  PROVE new.stamp # more[n - 1].stamp
        BY <2>11, <3>1
      <4>2. acc.open # <<>>
        <5>1. NoSections.done = <<>>
          BY DEF NoSections
        <5> QED  BY <2>2, <2>8, <4>1, <5>1
      <4>3. n \in DOMAIN secs /\ n - 1 \in 1..(n - 1)
        BY <2>10, <4>1
      <4>4. secs[n].stamp # secs[n - 1].stamp
        BY <2>12, <4>1, <4>3 DEF WellGrouped
      <4> QED  BY <2>10, <2>13, <3>1, <4>2, <4>3, <4>4
    <3>6. WellGrouped(more)
      <4> SUFFICES ASSUME NEW i \in 1..n
                   PROVE  /\ i > 1 => more[i].stamp # more[i - 1].stamp
                          /\ \A j \in DOMAIN more[i].lines :
                               more[i].lines[j] # Blank => IsStampLine(more[i].lines[j]) = more[i].stamp
        BY <2>11, <3>1 DEF WellGrouped
      <4>1. CASE i = n
        BY <2>11, <3>1, <3>4, <3>5, <4>1
      <4>2. CASE i # n
        <5>1. i \in 1..(n - 1) /\ i \in DOMAIN secs /\ (i > 1 => i - 1 \in 1..(n - 1))
          BY <2>10, <4>2
        <5>2. more[i] = secs[i] /\ (i > 1 => more[i - 1] = secs[i - 1])
          BY <3>1, <5>1
        <5> QED  BY <2>12, <5>1, <5>2 DEF WellGrouped
      <4> QED  BY <4>1, <4>2
    <3> QED  BY <2>1, <2>3, <2>7, <3>6
  <2>14. CASE /\ new.done = Closed(acc) /\ new.open = <<l>>
              /\ acc.open # <<>> /\ new.stamp # acc.stamp
    <3>1. m = n + 1 /\ \A i \in 1..n : more[i] = secs[i]
      BY <2>6, <2>9, <2>10, <2>11, <2>14
    <3>2. WellGrouped(more)
      <4> SUFFICES ASSUME NEW i \in 1..(n + 1)
                   PROVE  /\ i > 1 => more[i].stamp # more[i - 1].stamp
                          /\ \A j \in DOMAIN more[i].lines :
                               more[i].lines[j] # Blank => IsStampLine(more[i].lines[j]) = more[i].stamp
        BY <2>11, <3>1 DEF WellGrouped
      <4>1. CASE i = n + 1
        <5>1. more[i].stamp = new.stamp /\ more[i].lines = <<l>>
          BY <2>11, <2>14, <3>1, <4>1
        <5>2. i > 1 => n \in 1..n /\ i - 1 = n
          BY <2>10, <4>1
        <5>3. i > 1 => more[i - 1].stamp = acc.stamp
          BY <2>10, <3>1, <5>2
        <5>4. \A j \in DOMAIN <<l>> : <<l>>[j] = l
          OBVIOUS
        <5> QED  BY <2>5, <2>14, <5>1, <5>3, <5>4
      <4>2. CASE i # n + 1
        <5>1. i \in 1..n /\ i \in DOMAIN secs /\ (i > 1 => i - 1 \in 1..n)
          BY <2>10, <4>2
        <5>2. more[i] = secs[i] /\ (i > 1 => more[i - 1] = secs[i - 1])
          BY <3>1, <5>1
        <5> QED  BY <2>12, <5>1, <5>2 DEF WellGrouped
      <4> QED  BY <4>1, <4>2
    <3> QED  BY <2>1, <2>3, <2>7, <3>2
  <2> QED  BY <2>4, <2>13, <2>14
<1>4. S = Seq(Line)
  <2> HIDE DEF S
  <2>1. S \in SUBSET Seq(Line)
    BY DEF S
  <2> QED  BY <1>2, <1>3, <2>1, SeqSetInduction
<1> QED  BY <1>0, <1>4

-----------------------------------------------------------------------------
(* What lines of one kind give the parsers *)

\* Lines without metadata, lines of a stamp, and lines a parser passes over.
Clean == {l \in Line : /\ l.ticket = None /\ l.source = None /\ l.skip = <<>>
                       /\ l.allow = None /\ ~l.title}
StampOnly == {l \in Line : IsStampLine(l)}
NoTicket == {l \in Line : l.ticket = None}
NoSource == {l \in Line : l.source = None}
NoSkip == {l \in Line : l.skip = <<>> /\ l.allow = None}

LEMMA SeqMonotone ==
  ASSUME NEW A, NEW B, A \subseteq B
  PROVE  Seq(A) \subseteq Seq(B)
<1> DEFINE S == {s \in Seq(A) : s \in Seq(B)}
<1>1. <<>> \in S
  OBVIOUS
<1>2. ASSUME NEW s \in S, NEW x \in A  PROVE Append(s, x) \in S
  <2>1. s \in Seq(A) /\ s \in Seq(B) /\ x \in B
    OBVIOUS
  <2> QED  BY <2>1
<1>3. S = Seq(A)
  <2>1. S \in SUBSET Seq(A)
    OBVIOUS
  <2> HIDE DEF S
  <2> QED  BY <1>1, <1>2, <2>1, SeqSetInduction
<1> QED  BY <1>3

LEMMA Kinds ==
  /\ Clean \subseteq Line /\ StampOnly \subseteq Line /\ NoTicket \subseteq Line
  /\ NoSource \subseteq Line /\ NoSkip \subseteq Line
  /\ Clean \subseteq NoTicket /\ Clean \subseteq NoSource /\ Clean \subseteq NoSkip
  /\ Blank \in Clean /\ \A l \in Clean : ~IsStampLine(l)
<1>1. Blank \in Clean
  <2>1. Blank \in Line
    BY RenderedLines
  <2>2. /\ Blank.ticket = None /\ Blank.source = None /\ Blank.skip = <<>>
        /\ Blank.allow = None /\ ~Blank.title
    BY BlankFields
  <2> QED  BY <2>1, <2>2 DEF Clean
<1>2. \A l \in Clean : ~IsStampLine(l)
  BY DEF Clean, IsStampLine, NamesEvidence
<1> QED  BY <1>1, <1>2 DEF Clean, StampOnly, NoTicket, NoSource, NoSkip

LEMMA KindSeqs ==
  /\ Seq(Clean) \subseteq Seq(Line) /\ Seq(StampOnly) \subseteq Seq(Line)
  /\ Seq(NoTicket) \subseteq Seq(Line) /\ Seq(NoSource) \subseteq Seq(Line)
  /\ Seq(NoSkip) \subseteq Seq(Line)
  /\ Seq(Clean) \subseteq Seq(NoTicket) /\ Seq(Clean) \subseteq Seq(NoSource)
  /\ Seq(Clean) \subseteq Seq(NoSkip)
  BY Kinds, SeqMonotone

\* Clean lines are all human lines.
LEMMA HumanOfClean ==
  \A h \in Seq(Clean) : Human(h) = h /\ Stamped(h) = FALSE
<1> DEFINE S == {h \in Seq(Clean) : Human(h) = h /\ Stamped(h) = FALSE}
<1>1. <<>> \in S
  BY HumanAppend
<1>2. ASSUME NEW h \in S, NEW l \in Clean  PROVE Append(h, l) \in S
  <2>1. h \in Seq(Clean) /\ h \in Seq(Line) /\ l \in Line /\ ~IsStampLine(l)
        /\ Append(h, l) \in Seq(Clean)
    BY Kinds, KindSeqs
  <2>2. Human(h) = h /\ Stamped(h) = FALSE
    OBVIOUS
  <2>3. Stamped(Append(h, l)) = FALSE
    <3>1. IsStampLine(l) = FALSE
      BY <2>1, StampLineBoolean
    <3> QED  BY <2>1, <2>2, <3>1, HumanAppend
  <2>4. Human(Append(h, l)) = Append(h, l)
    BY <2>1, <2>2, <2>3, HumanAppend
  <2> QED  BY <2>1, <2>3, <2>4
<1>3. S = Seq(Clean)
  <2>1. S \in SUBSET Seq(Clean)
    OBVIOUS
  <2> HIDE DEF S
  <2> QED  BY <1>1, <1>2, <2>1, SeqSetInduction
<1> QED  BY <1>3

\* Stamp lines after them are none.
LEMMA HumanBeforeStamp ==
  ASSUME NEW h \in Seq(Clean), NEW t \in Seq(StampOnly)
  PROVE  Human(h \o t) = h
<1> DEFINE S == {u \in Seq(StampOnly) : Human(h \o u) = h}
<1>0. h \in Seq(Line)
  BY KindSeqs
<1>1. <<>> \in S
  <2>1. h \o <<>> = h
    BY <1>0, ConcatProperties
  <2> QED  BY <2>1, HumanOfClean
<1>2. ASSUME NEW u \in S, NEW l \in StampOnly  PROVE Append(u, l) \in S
  <2>1. u \in Seq(StampOnly) /\ u \in Seq(Line) /\ l \in Line /\ IsStampLine(l)
        /\ Append(u, l) \in Seq(StampOnly) /\ Human(h \o u) = h
    BY KindSeqs DEF StampOnly
  <2>2. h \o u \in Seq(Line) /\ h \o Append(u, l) = Append(h \o u, l)
    BY <1>0, <2>1, ConcatLaws
  <2>3. Stamped(Append(h \o u, l))
    BY <2>1, <2>2, HumanAppend, RenderedLines
  <2>4. Human(Append(h \o u, l)) = h
    BY <2>1, <2>2, <2>3, HumanAppend
  <2> QED  BY <2>1, <2>2, <2>4
<1>3. S = Seq(StampOnly)
  <2>1. S \in SUBSET Seq(StampOnly)
    OBVIOUS
  <2> HIDE DEF S
  <2> QED  BY <1>1, <1>2, <2>1, SeqSetInduction
<1> QED  BY <1>3

\* A parser passes over the lines that name nothing for it: at the start of a body ...
LEMMA PassedBefore ==
  /\ \A h \in Seq(NoTicket) : ParseTickets(h) = <<>>
  /\ \A h \in Seq(NoSource) : FirstSource(h) = None
  /\ \A h \in Seq(NoSkip) : ParseSkips(h) = <<>>
<1>1. \A h \in Seq(NoTicket) : ParseTickets(h) = <<>>
  <2> DEFINE S == {h \in Seq(NoTicket) : ParseTickets(h) = <<>>}
  <2>1. <<>> \in S
    BY TicketLaws
  <2>2. ASSUME NEW h \in S, NEW l \in NoTicket  PROVE Append(h, l) \in S
    <3>1. h \in Seq(NoTicket) /\ h \in Seq(Line) /\ l \in Line /\ l.ticket = None
          /\ Append(h, l) \in Seq(NoTicket) /\ ParseTickets(h) = <<>>
      BY KindSeqs DEF NoTicket
    <3>2. ParseTickets(Append(h, l)) = <<>>
      BY <3>1, TicketLaws DEF AddTicket
    <3> QED  BY <3>1, <3>2
  <2>3. S \in SUBSET Seq(NoTicket)
    OBVIOUS
  <2> HIDE DEF S
  <2>4. S = Seq(NoTicket)
    BY <2>1, <2>2, <2>3, SeqSetInduction
  <2> QED  BY <2>4 DEF S
<1>2. \A h \in Seq(NoSource) : FirstSource(h) = None
  <2> DEFINE S == {h \in Seq(NoSource) : FirstSource(h) = None}
  <2>1. <<>> \in S
    BY SourceLaws
  <2>2. ASSUME NEW h \in S, NEW l \in NoSource  PROVE Append(h, l) \in S
    <3>1. h \in Seq(NoSource) /\ h \in Seq(Line) /\ l \in Line /\ l.source = None
          /\ Append(h, l) \in Seq(NoSource) /\ FirstSource(h) = None
      BY KindSeqs DEF NoSource
    <3>2. FirstSource(Append(h, l)) = None
      BY <3>1, SourceLaws DEF NameSource
    <3> QED  BY <3>1, <3>2
  <2>3. S \in SUBSET Seq(NoSource)
    OBVIOUS
  <2> HIDE DEF S
  <2>4. S = Seq(NoSource)
    BY <2>1, <2>2, <2>3, SeqSetInduction
  <2> QED  BY <2>4 DEF S
<1>3. \A h \in Seq(NoSkip) : ParseSkips(h) = <<>>
  <2> DEFINE S == {h \in Seq(NoSkip) : ParseSkips(h) = <<>>}
  <2>1. <<>> \in S
    BY SkipLaws
  <2>2. ASSUME NEW h \in S, NEW l \in NoSkip  PROVE Append(h, l) \in S
    <3>1. h \in Seq(NoSkip) /\ h \in Seq(Line) /\ l \in Line /\ l.skip = <<>> /\ l.allow = None
          /\ Append(h, l) \in Seq(NoSkip) /\ ParseSkips(h) = <<>>
      BY KindSeqs DEF NoSkip
    <3>2. Unbound(l) = <<>>
      BY <3>1 DEF Unbound
    <3>2a. ParseSkips(Append(h, l)) = <<>> \o <<>>
      BY <3>1, <3>2, SkipLaws DEF BindSkip
    <3>2b. <<>> \o <<>> = <<>>
      OBVIOUS
    <3> QED  BY <3>1, <3>2a, <3>2b
  <2>3. S \in SUBSET Seq(NoSkip)
    OBVIOUS
  <2> HIDE DEF S
  <2>4. S = Seq(NoSkip)
    BY <2>1, <2>2, <2>3, SeqSetInduction
  <2> QED  BY <2>4 DEF S
<1> QED  BY <1>1, <1>2, <1>3

\* ... before lines that do ...
LEMMA PassedOver ==
  ASSUME NEW t \in Seq(Line)
  PROVE  /\ \A h \in Seq(NoTicket) : ParseTickets(h \o t) = ParseTickets(t)
         /\ \A h \in Seq(NoSource) : FirstSource(h \o t) = FirstSource(t)
         /\ \A h \in Seq(NoSkip) : ParseSkips(h \o t) = ParseSkips(t)
<1> DEFINE S == {u \in Seq(Line) :
                   /\ \A h \in Seq(NoTicket) : ParseTickets(h \o u) = ParseTickets(u)
                   /\ \A h \in Seq(NoSource) : FirstSource(h \o u) = FirstSource(u)
                   /\ \A h \in Seq(NoSkip) : ParseSkips(h \o u) = ParseSkips(u)}
<1>0. \A h \in Seq(Line), u \in Seq(Line), l \in Line :
         h \o u \in Seq(Line) /\ h \o Append(u, l) = Append(h \o u, l) /\ h \o <<>> = h
  BY ConcatLaws
<1>1. <<>> \in S
  <2>0. \A h \in Seq(Line) : h \o <<>> = h
    BY ConcatProperties
  <2>1. ASSUME NEW h \in Seq(NoTicket)  PROVE ParseTickets(h \o <<>>) = ParseTickets(<<>>)
    BY <2>0, KindSeqs, PassedBefore, TicketLaws
  <2>2. ASSUME NEW h \in Seq(NoSource)  PROVE FirstSource(h \o <<>>) = FirstSource(<<>>)
    BY <2>0, KindSeqs, PassedBefore, SourceLaws
  <2>3. ASSUME NEW h \in Seq(NoSkip)  PROVE ParseSkips(h \o <<>>) = ParseSkips(<<>>)
    BY <2>0, KindSeqs, PassedBefore, SkipLaws
  <2> QED  BY <2>1, <2>2, <2>3
<1>2. ASSUME NEW u \in S, NEW l \in Line  PROVE Append(u, l) \in S
  <2>0. u \in Seq(Line) /\ Append(u, l) \in Seq(Line)
    OBVIOUS
  <2>1. ASSUME NEW h \in Seq(NoTicket)
        PROVE  ParseTickets(h \o Append(u, l)) = ParseTickets(Append(u, l))
    <3>1. h \in Seq(Line) /\ ParseTickets(h \o u) = ParseTickets(u)
      BY KindSeqs
    <3>2. PICK v \in Seq(Line) : v = h \o u /\ h \o Append(u, l) = Append(v, l)
      BY <1>0, <2>0, <3>1
    <3>3. ParseTickets(Append(v, l)) = AddTicket(ParseTickets(v), l)
      BY TicketLaws
    <3>4. ParseTickets(Append(u, l)) = AddTicket(ParseTickets(u), l)
      BY <2>0, TicketLaws
    <3> QED  BY <3>1, <3>2, <3>3, <3>4
  <2>2. ASSUME NEW h \in Seq(NoSource)
        PROVE  FirstSource(h \o Append(u, l)) = FirstSource(Append(u, l))
    <3>1. h \in Seq(Line) /\ FirstSource(h \o u) = FirstSource(u)
      BY KindSeqs
    <3>2. PICK v \in Seq(Line) : v = h \o u /\ h \o Append(u, l) = Append(v, l)
      BY <1>0, <2>0, <3>1
    <3>3. FirstSource(Append(v, l)) = NameSource(FirstSource(v), l)
      BY SourceLaws
    <3>4. FirstSource(Append(u, l)) = NameSource(FirstSource(u), l)
      BY <2>0, SourceLaws
    <3> QED  BY <3>1, <3>2, <3>3, <3>4
  <2>3. ASSUME NEW h \in Seq(NoSkip)
        PROVE  ParseSkips(h \o Append(u, l)) = ParseSkips(Append(u, l))
    <3>1. h \in Seq(Line) /\ ParseSkips(h \o u) = ParseSkips(u)
      BY KindSeqs
    <3>2. PICK v \in Seq(Line) : v = h \o u /\ h \o Append(u, l) = Append(v, l)
      BY <1>0, <2>0, <3>1
    <3>3. ParseSkips(Append(v, l)) = BindSkip(ParseSkips(v), l)
      BY SkipLaws
    <3>4. ParseSkips(Append(u, l)) = BindSkip(ParseSkips(u), l)
      BY <2>0, SkipLaws
    <3> QED  BY <3>1, <3>2, <3>3, <3>4
  <2> QED  BY <2>0, <2>1, <2>2, <2>3
<1>3. S = Seq(Line)
  <2>1. S \in SUBSET Seq(Line)
    OBVIOUS
  <2> HIDE DEF S
  <2> QED  BY <1>1, <1>2, <2>1, SeqSetInduction
<1> QED  BY <1>3

\* ... and after them.
LEMMA PassedAfter ==
  ASSUME NEW b \in Seq(Line)
  PROVE  /\ \A t \in Seq(NoTicket) : ParseTickets(b \o t) = ParseTickets(b)
         /\ \A t \in Seq(NoSource) : FirstSource(b \o t) = FirstSource(b)
<1>0. \A u \in Seq(Line), l \in Line : b \o u \in Seq(Line) /\ b \o Append(u, l) = Append(b \o u, l)
  BY ConcatLaws
<1>1. b \o <<>> = b
  BY ConcatProperties
<1>2. \A t \in Seq(NoTicket) : ParseTickets(b \o t) = ParseTickets(b)
  <2> DEFINE S == {t \in Seq(NoTicket) : ParseTickets(b \o t) = ParseTickets(b)}
  <2>1. <<>> \in S
    BY <1>1
  <2>2. ASSUME NEW t \in S, NEW l \in NoTicket  PROVE Append(t, l) \in S
    <3>1. t \in Seq(Line) /\ l \in Line /\ l.ticket = None
          /\ Append(t, l) \in Seq(NoTicket) /\ ParseTickets(b \o t) = ParseTickets(b)
      BY KindSeqs DEF NoTicket
    <3>2. ParseTickets(b \o Append(t, l)) = ParseTickets(b)
      BY <1>0, <3>1, TicketLaws DEF AddTicket
    <3> QED  BY <3>1, <3>2
  <2>3. S \in SUBSET Seq(NoTicket)
    OBVIOUS
  <2> HIDE DEF S
  <2>4. S = Seq(NoTicket)
    BY <2>1, <2>2, <2>3, SeqSetInduction
  <2> QED  BY <2>4 DEF S
<1>3. \A t \in Seq(NoSource) : FirstSource(b \o t) = FirstSource(b)
  <2> DEFINE S == {t \in Seq(NoSource) : FirstSource(b \o t) = FirstSource(b)}
  <2>1. <<>> \in S
    BY <1>1
  <2>2. ASSUME NEW t \in S, NEW l \in NoSource  PROVE Append(t, l) \in S
    <3>1. t \in Seq(Line) /\ l \in Line /\ l.source = None
          /\ Append(t, l) \in Seq(NoSource) /\ FirstSource(b \o t) = FirstSource(b)
      BY KindSeqs DEF NoSource
    <3>2. FirstSource(b \o Append(t, l)) = FirstSource(b)
      BY <1>0, <3>1, SourceLaws DEF NameSource
    <3> QED  BY <3>1, <3>2
  <2>3. S \in SUBSET Seq(NoSource)
    OBVIOUS
  <2> HIDE DEF S
  <2>4. S = Seq(NoSource)
    BY <2>1, <2>2, <2>3, SeqSetInduction
  <2> QED  BY <2>4 DEF S
<1> QED  BY <1>2, <1>3

\* Where no evidence strays, the human lines are clean.
LEMMA HumanIsClean ==
  ASSUME NEW b \in Seq(Line), NoStrayEvidence(b)
  PROVE  Human(b) \in Seq(Clean)
<1> DEFINE S == {c \in Seq(Line) : NoStrayEvidence(c) => Human(c) \in Seq(Clean)}
<1>1. <<>> \in S
  <2>1. <<>> \in Seq(Clean) /\ <<>> \in Seq(Line)
    OBVIOUS
  <2>2. Human(<<>>) \in Seq(Clean)
    BY <2>1, HumanAppend
  <2> QED  BY <2>1, <2>2
<1>2. ASSUME NEW c \in S, NEW l \in Line  PROVE Append(c, l) \in S
  <2>1. c \in Seq(Line) /\ Append(c, l) \in Seq(Line)
    OBVIOUS
  <2>2. ASSUME NoStrayEvidence(Append(c, l))  PROVE Human(Append(c, l)) \in Seq(Clean)
    <3>1. /\ DOMAIN c = 1..Len(c) /\ Len(c) \in Nat /\ DOMAIN Append(c, l) = 1..(Len(c) + 1)
          /\ \A i \in 1..Len(c) : Append(c, l)[i] = c[i]
          /\ Append(c, l)[Len(c) + 1] = l
      BY <2>1, AppendProperties, LenProperties
    <3>2. NoStrayEvidence(c)
      BY <2>2, <3>1 DEF NoStrayEvidence
    <3>3. Len(c) + 1 \in DOMAIN Append(c, l)
      BY <3>1
    <3>4. NamesEvidence(l) => ~l.indented
      BY <2>2, <3>1, <3>3 DEF NoStrayEvidence
    <3>5. Human(c) \in Seq(Clean)
      BY <3>2
    <3>6. CASE Stamped(Append(c, l))
      BY <2>1, <3>5, <3>6, HumanAppend
    <3>7. CASE ~Stamped(Append(c, l))
      <4>1. l = Blank \/ ~IsStampLine(l)
        BY <2>1, <3>7, HumanAppend
      <4>2. l \in Clean
        <5>1. CASE l = Blank
          BY <5>1, Kinds
        <5>2. CASE ~IsStampLine(l)
          BY <3>4, <5>2 DEF IsStampLine, NamesEvidence, Clean
        <5> QED  BY <4>1, <5>1, <5>2
      <4>3. Human(Append(c, l)) = Append(Human(c), l)
        BY <2>1, <3>7, HumanAppend
      <4> QED  BY <3>5, <4>2, <4>3
    <3> QED  BY <3>6, <3>7
  <2> QED  BY <2>1, <2>2
<1>3. S = Seq(Line)
  <2>1. S \in SUBSET Seq(Line)
    OBVIOUS
  <2> HIDE DEF S
  <2> QED  BY <1>1, <1>2, <2>1, SeqSetInduction
<1> QED  BY <1>3

-----------------------------------------------------------------------------
(* The rendered block, and what it reads back as *)

\* What the parsers return: no ticket is None.
Named == Texts \ {None}

LEMMA NamedSeqs ==
  Seq(Named) \subseteq Seq(Texts)
<1>1. Named \subseteq Texts
  BY DEF Named
<1> QED  BY <1>1, SeqMonotone

LEMMA TokenFields ==
  \A x \in Skip : /\ x.gate \in Texts /\ x.allow \in Texts
                  /\ x = [gate |-> x.gate, allow |-> x.allow]
  BY DEF Skip

LEMMA ParsedNamed ==
  \A b \in Seq(Line) : ParseTickets(b) \in Seq(Named)
<1> DEFINE S == {b \in Seq(Line) : ParseTickets(b) \in Seq(Named)}
<1>1. <<>> \in S
  <2>1. <<>> \in Seq(Line) /\ <<>> \in Seq(Named)
    OBVIOUS
  <2> QED  BY <2>1, TicketLaws
<1>2. ASSUME NEW b \in S, NEW l \in Line  PROVE Append(b, l) \in S
  <2>1. b \in Seq(Line) /\ Append(b, l) \in Seq(Line)
    OBVIOUS
  <2>2. PICK ts \in Seq(Named) : ts = ParseTickets(b)
    OBVIOUS
  <2>3. l.ticket \in Texts
    BY DEF Line
  <2>4. AddTicket(ts, l) \in Seq(Named)
    BY <2>3 DEF AddTicket, Named
  <2>5. ParseTickets(Append(b, l)) = AddTicket(ts, l)
    BY <2>1, <2>2, TicketLaws
  <2> QED  BY <2>1, <2>4, <2>5
<1>3. S = Seq(Line)
  <2>1. S \in SUBSET Seq(Line)
    OBVIOUS
  <2> HIDE DEF S
  <2> QED  BY <1>1, <1>2, <2>1, SeqSetInduction
<1> QED  BY <1>3

\* Each part of the block is of stamp lines that the other parsers pass over.
LEMMA BlockKinds ==
  /\ \A ts \in Seq(Named) : /\ TicketLines(ts) \in Seq(StampOnly)
                            /\ TicketLines(ts) \in Seq(NoSource) /\ TicketLines(ts) \in Seq(NoSkip)
  /\ \A src \in Texts : /\ SourceLines(src) \in Seq(StampOnly)
                        /\ SourceLines(src) \in Seq(NoTicket) /\ SourceLines(src) \in Seq(NoSkip)
  /\ \A sk \in Seq(Skip) : /\ SkipLines(sk) \in Seq(StampOnly)
                            /\ SkipLines(sk) \in Seq(NoTicket) /\ SkipLines(sk) \in Seq(NoSource)
<1>1. \A ts \in Seq(Named) : /\ TicketLines(ts) \in Seq(StampOnly)
                             /\ TicketLines(ts) \in Seq(NoSource) /\ TicketLines(ts) \in Seq(NoSkip)
  <2> DEFINE S == {ts \in Seq(Named) : /\ TicketLines(ts) \in Seq(StampOnly)
                                       /\ TicketLines(ts) \in Seq(NoSource)
                                       /\ TicketLines(ts) \in Seq(NoSkip)}
  <2>1. <<>> \in S
    <3>1. <<>> \in Seq(Named) /\ <<>> \in Seq(StampOnly) /\ <<>> \in Seq(NoSource) /\ <<>> \in Seq(NoSkip)
      OBVIOUS
    <3> QED  BY <3>1, TicketLinesLaws
  <2>2. ASSUME NEW ts \in S, NEW t \in Named  PROVE Append(ts, t) \in S
    <3>1. ts \in Seq(Named) /\ ts \in Seq(Texts) /\ t \in Texts /\ t # None /\ Append(ts, t) \in Seq(Named)
      BY NamedSeqs DEF Named
    <3>2. TicketLine(t) \in StampOnly /\ TicketLine(t) \in NoSource /\ TicketLine(t) \in NoSkip
      BY <3>1, RenderedLines DEF StampOnly, IsStampLine, NamesEvidence, NoSource, NoSkip
    <3>3. TicketLines(Append(ts, t)) = Append(TicketLines(ts), TicketLine(t))
      BY <3>1, TicketLinesLaws
    <3> QED  BY <3>1, <3>2, <3>3
  <2>3. S \in SUBSET Seq(Named)
    OBVIOUS
  <2> HIDE DEF S
  <2>4. S = Seq(Named)
    BY <2>1, <2>2, <2>3, SeqSetInduction
  <2> QED  BY <2>4 DEF S
<1>2. ASSUME NEW src \in Texts
      PROVE  /\ SourceLines(src) \in Seq(StampOnly)
             /\ SourceLines(src) \in Seq(NoTicket) /\ SourceLines(src) \in Seq(NoSkip)
  <2>1. CASE src = None
    BY <2>1 DEF SourceLines
  <2>2. CASE src # None
    <3>1. SourceLine(src) \in StampOnly /\ SourceLine(src) \in NoTicket /\ SourceLine(src) \in NoSkip
      BY <2>2, RenderedLines DEF StampOnly, IsStampLine, NamesEvidence, NoTicket, NoSkip
    <3>2. SourceLines(src) = <<SourceLine(src)>>
      BY <2>2 DEF SourceLines
    <3> QED  BY <3>1, <3>2
  <2> QED  BY <2>1, <2>2
<1>3. \A sk \in Seq(Skip) : /\ SkipLines(sk) \in Seq(StampOnly)
                             /\ SkipLines(sk) \in Seq(NoTicket) /\ SkipLines(sk) \in Seq(NoSource)
  <2> DEFINE S == {sk \in Seq(Skip) : /\ SkipLines(sk) \in Seq(StampOnly)
                                       /\ SkipLines(sk) \in Seq(NoTicket)
                                       /\ SkipLines(sk) \in Seq(NoSource)}
  <2>1. <<>> \in S
    <3>1. <<>> \in Seq(Skip) /\ <<>> \in Seq(StampOnly) /\ <<>> \in Seq(NoTicket) /\ <<>> \in Seq(NoSource)
      OBVIOUS
    <3> QED  BY <3>1, SkipLineLaws
  <2>2. ASSUME NEW sk \in S, NEW x \in Skip  PROVE Append(sk, x) \in S
    <3>1. sk \in Seq(Skip) /\ x \in Skip /\ Append(sk, x) \in Seq(Skip)
          /\ x.gate \in Texts /\ x.allow \in Texts
      <4>1. sk \in Seq(Skip) /\ Append(sk, x) \in Seq(Skip)
        OBVIOUS
      <4> QED  BY <4>1, TokenFields
    <3>2. SkipLine(x.gate) \in StampOnly /\ SkipLine(x.gate) \in NoTicket /\ SkipLine(x.gate) \in NoSource
      <4>1. PICK g \in Texts : g = x.gate
        BY <3>1
      <4>2. PICK y \in Line : y = SkipLine(g) /\ y.skip = <<g>> /\ y.ticket = None /\ y.source = None
        BY RenderedLines
      <4>3. <<g>> # <<>>
        OBVIOUS
      <4>4. y.skip # <<>>
        BY <4>2, <4>3, Zenon
      <4>5. IsStampLine(y)
        BY <4>4 DEF IsStampLine
      <4> QED  BY <4>1, <4>2, <4>5 DEF StampOnly, NoTicket, NoSource
    <3>3. x.allow # None => /\ AllowLine(x.allow) \in StampOnly
                            /\ AllowLine(x.allow) \in NoTicket /\ AllowLine(x.allow) \in NoSource
      BY <3>1, RenderedLines DEF StampOnly, IsStampLine, NoTicket, NoSource
    <3>4. SkipLines(Append(sk, x)) = AddSkipLines(SkipLines(sk), x)
      BY <3>1, SkipLineLaws
    <3>5. CASE x.allow = None
      <4>1. SkipLines(Append(sk, x)) = Append(SkipLines(sk), SkipLine(x.gate))
        BY <3>4, <3>5 DEF AddSkipLines
      <4>2. /\ Append(SkipLines(sk), SkipLine(x.gate)) \in Seq(StampOnly)
            /\ Append(SkipLines(sk), SkipLine(x.gate)) \in Seq(NoTicket)
            /\ Append(SkipLines(sk), SkipLine(x.gate)) \in Seq(NoSource)
        BY <3>2
      <4> QED  BY <3>1, <4>1, <4>2
    <3>6. CASE x.allow # None
      <4>1. SkipLines(Append(sk, x)) = Append(Append(SkipLines(sk), SkipLine(x.gate)), AllowLine(x.allow))
        BY <3>4, <3>6 DEF AddSkipLines
      <4>2. /\ Append(SkipLines(sk), SkipLine(x.gate)) \in Seq(StampOnly)
            /\ Append(SkipLines(sk), SkipLine(x.gate)) \in Seq(NoTicket)
            /\ Append(SkipLines(sk), SkipLine(x.gate)) \in Seq(NoSource)
        BY <3>2
      <4>3. /\ Append(Append(SkipLines(sk), SkipLine(x.gate)), AllowLine(x.allow)) \in Seq(StampOnly)
            /\ Append(Append(SkipLines(sk), SkipLine(x.gate)), AllowLine(x.allow)) \in Seq(NoTicket)
            /\ Append(Append(SkipLines(sk), SkipLine(x.gate)), AllowLine(x.allow)) \in Seq(NoSource)
        BY <3>3, <3>6, <4>2
      <4> QED  BY <3>1, <4>1, <4>3
    <3> QED  BY <3>5, <3>6
  <2>3. S \in SUBSET Seq(Skip)
    OBVIOUS
  <2> HIDE DEF S
  <2>4. S = Seq(Skip)
    BY <2>1, <2>2, <2>3, SeqSetInduction
  <2> QED  BY <2>4 DEF S
<1> QED  BY <1>1, <1>2, <1>3

\* The tickets of a body read back from their lines.
LEMMA TicketsReadBack ==
  \A b \in Seq(Line) : ParseTickets(TicketLines(ParseTickets(b))) = ParseTickets(b)
<1> DEFINE S == {b \in Seq(Line) : ParseTickets(TicketLines(ParseTickets(b))) = ParseTickets(b)}
<1>1. <<>> \in S
  BY TicketLaws, TicketLinesLaws
<1>2. ASSUME NEW b \in S, NEW l \in Line  PROVE Append(b, l) \in S
  <2>1. b \in Seq(Line) /\ Append(b, l) \in Seq(Line)
    OBVIOUS
  <2>2. PICK ts \in Seq(Texts) : ts = ParseTickets(b) /\ ParseTickets(TicketLines(ts)) = ts
    BY <2>1, TicketLaws
  <2>3. ParseTickets(Append(b, l)) = AddTicket(ts, l)
    BY <2>1, <2>2, TicketLaws
  <2>4. CASE l.ticket = None \/ Contains(ts, l.ticket)
    BY <2>1, <2>2, <2>3, <2>4 DEF AddTicket
  <2>5. CASE ~(l.ticket = None \/ Contains(ts, l.ticket))
    <3>1. PICK t \in Texts : t = l.ticket
      BY DEF Line
    <3>2. ParseTickets(Append(b, l)) = Append(ts, t)
      BY <2>3, <2>5, <3>1 DEF AddTicket
    <3>3. TicketLines(Append(ts, t)) = Append(TicketLines(ts), TicketLine(t))
          /\ TicketLines(ts) \in Seq(Line) /\ TicketLine(t) \in Line /\ TicketLine(t).ticket = t
      BY TicketLinesLaws, RenderedLines
    <3>4. ParseTickets(Append(TicketLines(ts), TicketLine(t))) = AddTicket(ts, TicketLine(t))
      BY <2>2, <3>3, TicketLaws
    <3>5. AddTicket(ts, TicketLine(t)) = Append(ts, t)
      BY <2>5, <3>1, <3>3 DEF AddTicket
    <3> QED  BY <2>1, <3>2, <3>3, <3>4, <3>5
  <2> QED  BY <2>4, <2>5
<1>3. S = Seq(Line)
  <2>1. S \in SUBSET Seq(Line)
    OBVIOUS
  <2> HIDE DEF S
  <2> QED  BY <1>1, <1>2, <2>1, SeqSetInduction
<1> QED  BY <1>3

\* So do the tokens, each with its id.
LEMMA SkipsReadBack ==
  \A sk \in Seq(Skip) : ParseSkips(SkipLines(sk)) = sk
<1> DEFINE S == {sk \in Seq(Skip) : ParseSkips(SkipLines(sk)) = sk}
<1>1. <<>> \in S
  BY SkipLaws, SkipLineLaws
<1>2. ASSUME NEW sk \in S, NEW x \in Skip  PROVE Append(sk, x) \in S
  <2>1. sk \in Seq(Skip) /\ x \in Skip /\ Append(sk, x) \in Seq(Skip)
        /\ x.gate \in Texts /\ x.allow \in Texts
        /\ x = [gate |-> x.gate, allow |-> x.allow]
    <3>1. sk \in Seq(Skip) /\ Append(sk, x) \in Seq(Skip)
      OBVIOUS
    <3> QED  BY <3>1, TokenFields
  <2>2. PICK ls \in Seq(Line) : ls = SkipLines(sk) /\ ParseSkips(ls) = sk
    BY <2>1, SkipLineLaws
  <2>3. SkipLines(Append(sk, x)) = AddSkipLines(ls, x)
    BY <2>1, <2>2, SkipLineLaws
  <2>4. PICK g \in Line : g = SkipLine(x.gate) /\ g.skip = <<x.gate>> /\ g.allow = None
    BY <2>1, RenderedLines
  <2>5. PICK token \in Skip : token = [gate |-> x.gate, allow |-> None]
    BY <2>1, LinesAssumption DEF Skip
  <2>6. ParseSkips(Append(ls, g)) = Append(sk, token)
    <3>1. ParseSkips(Append(ls, g)) = BindSkip(sk, g)
      BY <2>2, SkipLaws
    <3>2. Unbound(g) = <<token>>
      BY <2>4, <2>5 DEF Unbound
    <3>3. BindSkip(sk, g) = sk \o <<token>>
      BY <2>4, <3>2 DEF BindSkip
    <3>4. sk \o <<token>> = Append(sk, token)
      BY <2>1
    <3> QED  BY <3>1, <3>3, <3>4
  <2>7. CASE x.allow = None
    <3>1. SkipLines(Append(sk, x)) = Append(ls, g)
      BY <2>3, <2>4, <2>7 DEF AddSkipLines
    <3> QED  BY <2>1, <2>5, <2>6, <2>7, <3>1
  <2>8. CASE x.allow # None
    <3>1. PICK a \in Line : a = AllowLine(x.allow) /\ a.allow = x.allow
      BY <2>1, RenderedLines
    <3>2. SkipLines(Append(sk, x)) = Append(Append(ls, g), a)
      BY <2>3, <2>4, <2>8, <3>1 DEF AddSkipLines
    <3>3. PICK both \in Seq(Skip) : both = Append(sk, token)
      <4>1. Append(sk, token) \in Seq(Skip)
        BY <2>1, AppendProperties
      <4> QED  BY <4>1
    <3>4. Append(ls, g) \in Seq(Line)
      OBVIOUS
    <3>5. ParseSkips(Append(Append(ls, g), a)) = BindSkip(both, a)
      BY <2>6, <3>3, <3>4, SkipLaws
    <3>6. both # <<>> /\ Len(both) = Len(sk) + 1 /\ both[Len(both)] = token /\ Len(sk) \in Nat
          /\ \A i \in 1..Len(sk) : both[i] = sk[i]
      BY <2>1, <3>3, AppendProperties, LenProperties
    <3>7. BindSkip(both, a) = [both EXCEPT ![Len(both)].allow = x.allow]
      BY <2>8, <3>1, <3>6 DEF BindSkip
    <3>8. [both EXCEPT ![Len(both)].allow = x.allow] = [both EXCEPT ![Len(both)] = x]
      <4>1. [token EXCEPT !.allow = x.allow] = x
        BY <2>1, <2>5
      <4> QED  BY <3>6, <4>1
    <3>9. [both EXCEPT ![Len(both)] = x] = Append(sk, x)
      <4>1. Len(both) \in 1..Len(both)
        BY <3>6
      <4>2. PICK e : e = [both EXCEPT ![Len(both)] = x]
        OBVIOUS
      <4>3. /\ e \in Seq(Skip) /\ Len(e) = Len(both)
            /\ \A j \in 1..Len(both) : e[j] = IF j = Len(both) THEN x ELSE both[j]
        BY <2>1, <4>1, <4>2, ExceptSeq
      <4>4. /\ Append(sk, x) \in Seq(Skip) /\ Len(Append(sk, x)) = Len(sk) + 1
            /\ \A i \in 1..Len(sk) : Append(sk, x)[i] = sk[i]
            /\ Append(sk, x)[Len(sk) + 1] = x
        BY <2>1, AppendProperties
      <4>5. \A j \in 1..Len(e) : e[j] = Append(sk, x)[j]
        BY <3>6, <4>3, <4>4
      <4>6. e = Append(sk, x)
        BY <3>6, <4>3, <4>4, <4>5, SeqEqual
      <4> QED  BY <4>2, <4>6
    <3> QED  BY <2>1, <3>2, <3>5, <3>7, <3>8, <3>9
  <2> QED  BY <2>7, <2>8
<1>3. S = Seq(Skip)
  <2>1. S \in SUBSET Seq(Skip)
    OBVIOUS
  <2> HIDE DEF S
  <2> QED  BY <1>1, <1>2, <2>1, SeqSetInduction
<1> QED  BY <1>3

Block(ts, src, sk) == TicketLines(ts) \o SourceLines(src) \o SkipLines(sk)

\* The whole block after clean lines reads back as the stamp it was rendered from.
LEMMA BlockReadsBack ==
  ASSUME NEW h \in Seq(Clean), NEW ts \in Seq(Named), NEW src \in Texts, NEW sk \in Seq(Skip),
         ParseTickets(TicketLines(ts)) = ts,
         NEW block, block = Block(ts, src, sk)
  PROVE  /\ block \in Seq(StampOnly)
         /\ ParseTickets(h \o block) = ts
         /\ FirstSource(h \o block) = src
         /\ ParseSkips(h \o block) = sk
         /\ Human(h \o block) = h
<1>1. PICK t : t = TicketLines(ts)
  OBVIOUS
<1>2. PICK s : s = SourceLines(src)
  OBVIOUS
<1>3. PICK k : k = SkipLines(sk)
  OBVIOUS
<1>4. t \in Seq(StampOnly) /\ t \in Seq(NoSource) /\ t \in Seq(NoSkip) /\ t \in Seq(Line)
  BY <1>1, BlockKinds, KindSeqs
<1>5. s \in Seq(StampOnly) /\ s \in Seq(NoTicket) /\ s \in Seq(NoSkip) /\ s \in Seq(Line)
  BY <1>2, BlockKinds, KindSeqs
<1>6. k \in Seq(StampOnly) /\ k \in Seq(NoTicket) /\ k \in Seq(NoSource) /\ k \in Seq(Line)
  BY <1>3, BlockKinds, KindSeqs
<1>7. PICK ahead : ahead = t \o s
  OBVIOUS
<1>8. block = ahead \o k
  BY <1>1, <1>2, <1>3, <1>7 DEF Block
<1>9. ahead \in Seq(StampOnly) /\ ahead \in Seq(NoSkip) /\ ahead \in Seq(Line)
  BY <1>4, <1>5, <1>7, ConcatProperties
<1>10. block \in Seq(StampOnly) /\ block \in Seq(Line)
  BY <1>6, <1>8, <1>9, ConcatProperties
<1>11. h \in Seq(NoTicket) /\ h \in Seq(NoSource) /\ h \in Seq(NoSkip)
  BY KindSeqs
<1>12. ParseTickets(h \o block) = ts
  <2>1. ParseTickets(h \o block) = ParseTickets(block)
    BY <1>10, <1>11, PassedOver
  <2>2. ParseTickets(ahead \o k) = ParseTickets(ahead)
    BY <1>6, <1>9, PassedAfter
  <2>3. ParseTickets(t \o s) = ParseTickets(t)
    BY <1>4, <1>5, PassedAfter
  <2> QED  BY <1>1, <1>7, <1>8, <2>1, <2>2, <2>3
<1>13. FirstSource(h \o block) = src
  <2>1. FirstSource(h \o block) = FirstSource(block)
    BY <1>10, <1>11, PassedOver
  <2>2. FirstSource(ahead \o k) = FirstSource(ahead)
    BY <1>6, <1>9, PassedAfter
  <2>3. FirstSource(t \o s) = FirstSource(s)
    BY <1>4, <1>5, PassedOver
  <2>4. FirstSource(s) = src
    <3>1. CASE src = None
      <4>1. s = <<>>
        BY <1>2, <3>1 DEF SourceLines
      <4> QED  BY <3>1, <4>1, SourceLaws
    <3>2. CASE src # None
      <4>1. PICK l \in Line : l = SourceLine(src) /\ l.source = src
        BY RenderedLines
      <4>2. s = Append(<<>>, l) /\ <<>> \in Seq(Line)
        BY <1>2, <3>2, <4>1 DEF SourceLines
      <4>3. FirstSource(Append(<<>>, l)) = NameSource(FirstSource(<<>>), l) /\ FirstSource(<<>>) = None
        BY <4>2, SourceLaws
      <4> QED  BY <4>1, <4>2, <4>3 DEF NameSource
    <3> QED  BY <3>1, <3>2
  <2> QED  BY <1>7, <1>8, <2>1, <2>2, <2>3, <2>4
<1>14. ParseSkips(h \o block) = sk
  <2>1. ParseSkips(h \o block) = ParseSkips(block)
    BY <1>10, <1>11, PassedOver
  <2>2. ParseSkips(ahead \o k) = ParseSkips(k)
    BY <1>6, <1>9, PassedOver
  <2> QED  BY <1>3, <1>8, <2>1, <2>2, SkipsReadBack
<1>15. Human(h \o block) = h
  BY <1>10, HumanBeforeStamp
<1> QED  BY <1>10, <1>12, <1>13, <1>14, <1>15

-----------------------------------------------------------------------------
(* Rendering: prose, a blank line, the block *)

Parsed == [source : Texts, tickets : Seq(Texts), skips : Seq(Skip), sections : Seq(Section)]

\* What Render makes of the prose and the block.
Joined(human, block) ==
  IF block = <<>> THEN human
  ELSE IF RStrip(human) = <<>> THEN block
  ELSE RStrip(human) \o <<Blank>> \o block

LEMMA HumanOfStamp == \A stamp : HumanLines(stamp) = HumanOf(stamp.sections)
  BY DEF HumanOf, HumanLines

LEMMA RenderJoins ==
  ASSUME NEW stamp
  PROVE  Render(stamp) = Joined(HumanOf(stamp.sections),
                                  Block(stamp.tickets, stamp.source, stamp.skips))
<1>1. PICK human : human = HumanLines(stamp)
  OBVIOUS
<1>2. PICK block : block = StampBlock(stamp)
  OBVIOUS
<1>3. Render(stamp) = Joined(human, block)
  BY <1>1, <1>2 DEF Render, Joined
<1>4. human = HumanOf(stamp.sections)
  BY <1>1, HumanOfStamp
<1> QED  BY <1>2, <1>3, <1>4 DEF StampBlock, Block

LEMMA ParseTyped ==
  ASSUME NEW b \in Seq(Line)
  PROVE  /\ Parse(b) \in Parsed
         /\ Parse(b).tickets = ParseTickets(b) /\ Parse(b).skips = ParseSkips(b)
         /\ Parse(b).sections = ParseSections(b) /\ Parse(b).source = ParseSource(b)
<1>1. ParseTickets(b) \in Seq(Texts) /\ FirstSource(b) \in Texts /\ ParseSkips(b) \in Seq(Skip)
  BY TicketLaws, SourceLaws, SkipLaws
<1>2. ParseSource(b) \in Texts
  BY <1>1, LinesAssumption DEF ParseSource
<1>3. ParseSections(b) \in Seq(Section)
  <2>1. ParseSections(b) = Closed(Sections(b)) /\ Sections(b) \in Grouped
    BY SectionLaws DEF ParseSections, Closed
  <2> QED  BY <2>1, GroupedFields
<1> QED  BY <1>1, <1>2, <1>3 DEF Parse, Parsed

LEMMA RenderTyped ==
  ASSUME NEW stamp \in Parsed
  PROVE  Render(stamp) \in Seq(Line)
<1>1. /\ stamp.source \in Texts /\ stamp.tickets \in Seq(Texts) /\ stamp.skips \in Seq(Skip)
      /\ stamp.sections \in Seq(Section)
  BY DEF Parsed
<1>2. PICK human \in Seq(Line) : human = HumanOf(stamp.sections)
  BY <1>1, HumanLaws
<1>3. /\ TicketLines(stamp.tickets) \in Seq(Line) /\ SourceLines(stamp.source) \in Seq(Line)
      /\ SkipLines(stamp.skips) \in Seq(Line)
  BY <1>1, TicketLinesLaws, SourceLinesTyped, SkipLineLaws
<1>4. PICK block \in Seq(Line) : block = Block(stamp.tickets, stamp.source, stamp.skips)
  BY <1>3, ConcatProperties DEF Block
<1>5. RStrip(human) \in Seq(Line) /\ <<Blank>> \in Seq(Line)
  BY RStripLaws, RenderedLines
<1>6. Joined(human, block) \in Seq(Line)
  <2>1. RStrip(human) \o <<Blank>> \o block \in Seq(Line)
    BY <1>5, ConcatProperties
  <2> QED  BY <2>1 DEF Joined
<1> QED  BY <1>2, <1>4, <1>6, RenderJoins

LEMMA RStripClean ==
  \A h \in Seq(Clean) : RStrip(h) \in Seq(Clean) /\ RStrip(RStrip(h)) = RStrip(h)
<1> DEFINE S == {h \in Seq(Clean) : RStrip(h) \in Seq(Clean) /\ RStrip(RStrip(h)) = RStrip(h)}
<1>1. <<>> \in S
  <2>1. <<>> \in Seq(Clean)
    OBVIOUS
  <2> QED  BY <2>1, RStripLaws
<1>2. ASSUME NEW h \in S, NEW l \in Clean  PROVE Append(h, l) \in S
  <2>1. h \in Seq(Line) /\ l \in Line /\ Append(h, l) \in Seq(Clean)
        /\ RStrip(h) \in Seq(Clean) /\ RStrip(RStrip(h)) = RStrip(h)
    BY KindSeqs, Kinds
  <2>2. CASE l = Blank
    BY <2>1, <2>2, RStripLaws
  <2>3. CASE l # Blank
    BY <2>1, <2>3, RStripLaws
  <2> QED  BY <2>2, <2>3
<1>3. S = Seq(Clean)
  <2>1. S \in SUBSET Seq(Clean)
    OBVIOUS
  <2> HIDE DEF S
  <2> QED  BY <1>1, <1>2, <2>1, SeqSetInduction
<1> QED  BY <1>3

\* Clean prose before the block; joining that prose to the block again changes nothing.
LEMMA JoinedSplits ==
  ASSUME NEW human \in Seq(Clean), NEW block \in Seq(StampOnly)
  PROVE  \E h \in Seq(Clean) : /\ Joined(human, block) = h \o block
                               /\ Joined(h, block) = h \o block
<1>0. human \in Seq(Line) /\ block \in Seq(Line)
  BY KindSeqs
<1>1. CASE block = <<>>
  <2>1. human \o <<>> = human
    BY <1>0, ConcatProperties
  <2>2. Joined(human, block) = human
    BY <1>1 DEF Joined
  <2> QED  BY <1>1, <2>1, <2>2
<1>2. CASE block # <<>> /\ RStrip(human) = <<>>
  <2>1. <<>> \o block = block /\ <<>> \in Seq(Clean)
    BY <1>0, ConcatLaws, ConcatProperties
  <2>2. Joined(human, block) = block
    BY <1>2 DEF Joined
  <2>3. Joined(<<>>, block) = block
    BY <1>2, RStripLaws DEF Joined
  <2> QED  BY <2>1, <2>2, <2>3
<1>3. CASE block # <<>> /\ RStrip(human) # <<>>
  <2>1. PICK r \in Seq(Clean) : r = RStrip(human) /\ RStrip(r) = r
    BY RStripClean
  <2>2. r \in Seq(Line) /\ Blank \in Clean /\ Blank \in Line
    BY KindSeqs, Kinds
  <2>3. PICK h \in Seq(Clean) : h = Append(r, Blank) /\ h = r \o <<Blank>>
    <3>1. r \o <<Blank>> = Append(r, Blank)
      BY <2>2, AppendIsConcat
    <3>2. Append(r, Blank) \in Seq(Clean)
      BY <2>2
    <3> QED  BY <3>1, <3>2
  <2>4. RStrip(h) = r
    BY <2>1, <2>2, <2>3, RStripLaws
  <2>5. Joined(human, block) = r \o <<Blank>> \o block
    BY <1>3, <2>1 DEF Joined
  <2>6. Joined(h, block) = r \o <<Blank>> \o block
    BY <1>3, <2>1, <2>4 DEF Joined
  <2> QED  BY <2>3, <2>5, <2>6
<1> QED  BY <1>1, <1>2, <1>3

\* A stamp parsed from a body without stray evidence, its source kept or replaced by one the
\* patterns accept, reads back from what it renders to, and renders to the same again.
LEMMA RenderReadsBack ==
  ASSUME NEW b \in Seq(Line), NoStrayEvidence(b),
         NEW src \in Texts, src = None \/ src # Malformed,
         NEW stamp \in Parsed, stamp.source = src, stamp.tickets = ParseTickets(b),
         stamp.skips = ParseSkips(b), stamp.sections = ParseSections(b),
         NEW out, out = Render(stamp)
  PROVE  /\ Parse(out).source = src
         /\ Parse(out).tickets = ParseTickets(b)
         /\ Parse(out).skips = ParseSkips(b)
         /\ Render(Parse(out)) = out
<1>1. PICK ts \in Seq(Named) : ts = ParseTickets(b) /\ ParseTickets(TicketLines(ts)) = ts
  BY ParsedNamed, TicketsReadBack
<1>2. PICK sk \in Seq(Skip) : sk = ParseSkips(b)
  BY SkipLaws
<1>3. PICK block : block = Block(ts, src, sk)
  OBVIOUS
<1>4. PICK human \in Seq(Clean) : human = Human(b)
  BY HumanIsClean
<1>5. block \in Seq(StampOnly)
  BY <1>1, <1>3, <1>4, BlockReadsBack
<1>6. Render(stamp) = Joined(human, block)
  BY <1>1, <1>2, <1>3, <1>4, RenderJoins DEF Human
<1>7. PICK h \in Seq(Clean) : Joined(human, block) = h \o block /\ Joined(h, block) = h \o block
  BY <1>5, JoinedSplits
<1>8. out = h \o block
  BY <1>6, <1>7
<1>9. out \in Seq(Line)
  BY <1>5, <1>8, KindSeqs, ConcatProperties
<1>10. /\ ParseTickets(out) = ts /\ FirstSource(out) = src /\ ParseSkips(out) = sk /\ Human(out) = h
  BY <1>1, <1>3, <1>8, BlockReadsBack
<1>11. ParseSource(out) = src
  BY <1>10 DEF ParseSource
<1>12. /\ Parse(out).tickets = ts /\ Parse(out).skips = sk /\ Parse(out).source = src
       /\ Parse(out).sections = ParseSections(out)
  BY <1>9, <1>10, <1>11, ParseTyped
<1>13. Render(Parse(out)) = Joined(h, block)
  <2>1. PICK back : back = Parse(out)
    OBVIOUS
  <2>2. Render(back) = Joined(HumanOf(back.sections),
                                  Block(back.tickets, back.source, back.skips))
    BY RenderJoins
  <2> QED  BY <1>3, <1>10, <1>12, <2>1, <2>2 DEF Human
<1> QED  BY <1>1, <1>2, <1>7, <1>8, <1>12, <1>13

-----------------------------------------------------------------------------
(* Prose through a re-render *)

\* The prose is what the human lines hold of it ...
LEMMA ProseIsHuman ==
  \A b \in Seq(Line) : PlainProse(Human(b)) = PlainProse(b)
<1> DEFINE S == {b \in Seq(Line) : PlainProse(Human(b)) = PlainProse(b)}
<1>1. <<>> \in S
  BY HumanAppend
<1>2. ASSUME NEW b \in S, NEW l \in Line  PROVE Append(b, l) \in S
  <2>1. b \in Seq(Line) /\ Append(b, l) \in Seq(Line) /\ PlainProse(Human(b)) = PlainProse(b)
    OBVIOUS
  <2>2. PlainProse(Append(b, l)) = AddPlainProse(PlainProse(b), l)
    BY <2>1, ProseLaws
  <2>3. CASE Stamped(Append(b, l))
    <3>1. l = Blank \/ IsStampLine(l)
      BY <2>1, <2>3, HumanAppend
    <3>2. ~IsPlainProse(l)
      BY <3>1 DEF IsPlainProse, Blank
    <3>3. Human(Append(b, l)) = Human(b)
      BY <2>1, <2>3, HumanAppend
    <3> QED  BY <2>1, <2>2, <3>2, <3>3 DEF AddPlainProse
  <2>4. CASE ~Stamped(Append(b, l))
    <3>1. PICK h \in Seq(Line) : h = Human(b)
      BY <2>1, HumanAppend
    <3>2. Human(Append(b, l)) = Append(h, l)
      BY <2>1, <2>4, <3>1, HumanAppend
    <3>3. PlainProse(Append(h, l)) = AddPlainProse(PlainProse(h), l)
      BY ProseLaws
    <3> QED  BY <2>1, <2>2, <3>1, <3>2, <3>3
  <2> QED  BY <2>3, <2>4
<1>3. S = Seq(Line)
  <2>1. S \in SUBSET Seq(Line)
    OBVIOUS
  <2> HIDE DEF S
  <2> QED  BY <1>1, <1>2, <2>1, SeqSetInduction
<1> QED  BY <1>3

\* ... stripping the trailing blank lines drops none of it ...
LEMMA ProseOfStripped ==
  \A h \in Seq(Line) : PlainProse(RStrip(h)) = PlainProse(h)
<1> DEFINE S == {h \in Seq(Line) : PlainProse(RStrip(h)) = PlainProse(h)}
<1>1. <<>> \in S
  BY RStripLaws
<1>2. ASSUME NEW h \in S, NEW l \in Line  PROVE Append(h, l) \in S
  <2>1. h \in Seq(Line) /\ Append(h, l) \in Seq(Line) /\ PlainProse(RStrip(h)) = PlainProse(h)
    OBVIOUS
  <2>2. CASE l = Blank
    <3>1. ~IsPlainProse(l)
      BY <2>2 DEF IsPlainProse, Blank
    <3>2. PlainProse(Append(h, l)) = PlainProse(h)
      BY <2>1, <3>1, ProseLaws DEF AddPlainProse
    <3>3. RStrip(Append(h, l)) = RStrip(h)
      BY <2>1, <2>2, RStripLaws
    <3> QED  BY <2>1, <3>2, <3>3
  <2>3. CASE l # Blank
    <3>1. RStrip(Append(h, l)) = Append(h, l)
      BY <2>1, <2>3, RStripLaws
    <3> QED  BY <2>1, <3>1
  <2> QED  BY <2>2, <2>3
<1>3. S = Seq(Line)
  <2>1. S \in SUBSET Seq(Line)
    OBVIOUS
  <2> HIDE DEF S
  <2> QED  BY <1>1, <1>2, <2>1, SeqSetInduction
<1> QED  BY <1>3

\* ... and the block adds none.
LEMMA ProseBeforeStamp ==
  ASSUME NEW h \in Seq(Line), NEW t \in Seq(StampOnly)
  PROVE  PlainProse(h \o t) = PlainProse(h)
<1> DEFINE S == {u \in Seq(StampOnly) : PlainProse(h \o u) = PlainProse(h)}
<1>1. <<>> \in S
  <2>1. h \o <<>> = h
    BY ConcatProperties
  <2> QED  BY <2>1
<1>2. ASSUME NEW u \in S, NEW l \in StampOnly  PROVE Append(u, l) \in S
  <2>1. u \in Seq(StampOnly) /\ u \in Seq(Line) /\ l \in Line /\ IsStampLine(l)
        /\ Append(u, l) \in Seq(StampOnly) /\ PlainProse(h \o u) = PlainProse(h)
    BY KindSeqs DEF StampOnly
  <2>2. h \o u \in Seq(Line) /\ h \o Append(u, l) = Append(h \o u, l)
    BY <2>1, ConcatLaws
  <2>3. PlainProse(Append(h \o u, l)) = PlainProse(h \o u)
    BY <2>1, <2>2, ProseLaws DEF AddPlainProse, IsPlainProse
  <2> QED  BY <2>1, <2>2, <2>3
<1>3. S = Seq(StampOnly)
  <2>1. S \in SUBSET Seq(StampOnly)
    OBVIOUS
  <2> HIDE DEF S
  <2> QED  BY <1>1, <1>2, <2>1, SeqSetInduction
<1> QED  BY <1>3

LEMMA ProseOfRendered ==
  ASSUME NEW human \in Seq(Line), NEW block \in Seq(StampOnly)
  PROVE  PlainProse(Joined(human, block)) = PlainProse(human)
<1>0. block \in Seq(Line)
  BY KindSeqs
<1>1. CASE block = <<>>
  BY <1>1 DEF Joined
<1>2. CASE block # <<>> /\ RStrip(human) = <<>>
  <2>1. <<>> \o block = block /\ <<>> \in Seq(Line)
    BY <1>0, ConcatLaws, ConcatProperties
  <2>2. PlainProse(block) = PlainProse(<<>>)
    BY <2>1, ProseBeforeStamp
  <2>3. PlainProse(<<>>) = PlainProse(human)
    BY <1>2, ProseOfStripped
  <2> QED  BY <1>2, <2>2, <2>3 DEF Joined
<1>3. CASE block # <<>> /\ RStrip(human) # <<>>
  <2>1. PICK r \in Seq(Line) : r = RStrip(human) /\ PlainProse(r) = PlainProse(human)
    BY RStripLaws, ProseOfStripped
  <2>2. PICK h \in Seq(Line) : h = Append(r, Blank) /\ h = r \o <<Blank>>
    <3>1. r \o <<Blank>> = Append(r, Blank) /\ Append(r, Blank) \in Seq(Line)
      BY RenderedLines, AppendIsConcat, AppendProperties
    <3> QED  BY <3>1
  <2>3. ~IsPlainProse(Blank) /\ Blank \in Line
    BY RenderedLines DEF IsPlainProse, Blank
  <2>4. PlainProse(h) = PlainProse(r)
    BY <2>2, <2>3, ProseLaws DEF AddPlainProse
  <2>5. Joined(human, block) = h \o block
    BY <1>3, <2>1, <2>2 DEF Joined
  <2> QED  BY <2>1, <2>4, <2>5, ProseBeforeStamp
<1> QED  BY <1>1, <1>2, <1>3

-----------------------------------------------------------------------------
(* Allowlist ids *)

\* The place of token p among the tokens, and the id that is its own.
Rank(b, p) == Cardinality({q \in TokenAt(b) : NotAfter(q, p)})
OwnId(b, p) == IF AllowsOf(b, p) = {} THEN None ELSE b[Max(AllowsOf(b, p))].allow

BindsNearest(b) ==
  /\ Len(ParseSkips(b)) = Cardinality(TokenAt(b))
  /\ \A p \in TokenAt(b) :
       ParseSkips(b)[Rank(b, p)] = [gate |-> b[p[1]].skip[p[2]], allow |-> OwnId(b, p)]

Pairs(n) == {<<i, k>> : i \in 1..n, k \in Nat}

\* What a place consists of.
LEMMA PairParts ==
  \A n \in Nat : \A p \in Pairs(n) : p[1] \in 1..n /\ p[2] \in Nat /\ p = <<p[1], p[2]>>
BY DEF Pairs

\* The tokens that one more line brings.
NewTokens(b, l) == IF l.allow = None THEN {<<Len(b) + 1, m>> : m \in 1..Len(l.skip)} ELSE {}

\* What one more line does to the tokens.
Positions(b, l, c) ==
  /\ c \in Seq(Line) /\ Len(b) \in Nat /\ DOMAIN b = 1..Len(b) /\ DOMAIN c = 1..(Len(b) + 1)
  /\ \A i \in 1..Len(b) : c[i] = b[i]
  /\ c[Len(b) + 1] = l
  /\ TokenAt(b) \subseteq Pairs(Len(b))
  /\ TokenAt(c) = TokenAt(b) \cup NewTokens(b, l)

LEMMA PositionsAppend ==
  ASSUME NEW b \in Seq(Line), NEW l \in Line, NEW c, c = Append(b, l)
  PROVE  Positions(b, l, c)
<1>1. /\ c \in Seq(Line) /\ Len(b) \in Nat /\ DOMAIN b = 1..Len(b) /\ DOMAIN c = 1..(Len(b) + 1)
      /\ \A i \in 1..Len(b) : c[i] = b[i]
      /\ c[Len(b) + 1] = l
  BY AppendProperties, LenProperties
<1>2. ASSUME NEW p \in TokenAt(b)  PROVE p \in Pairs(Len(b))
  <2>1. PICK i \in 1..Len(b) : p \in {<<i, m>> : m \in DOMAIN b[i].skip}
    BY <1>1 DEF TokenAt
  <2>2. b[i] \in Line
    BY ElementOfSeq
  <2>3. DOMAIN b[i].skip \subseteq Nat
    <3>1. PICK x \in Line : x = b[i]
      BY <2>2
    <3>2. DOMAIN x.skip = 1..Len(x.skip)
      BY UnboundTokens
    <3> QED  BY <3>1, <3>2
  <2> QED  BY <2>1, <2>3 DEF Pairs
<1>3. DOMAIN l.skip = 1..Len(l.skip)
  BY UnboundTokens
<1>4. ASSUME NEW p \in TokenAt(c)  PROVE p \in TokenAt(b) \cup NewTokens(b, l)
  <2>1. PICK i \in 1..(Len(b) + 1) : c[i].allow = None /\ p \in {<<i, m>> : m \in DOMAIN c[i].skip}
    BY <1>1, <1>4 DEF TokenAt
  <2>2. CASE i = Len(b) + 1
    BY <1>1, <1>3, <2>1, <2>2 DEF NewTokens
  <2>3. CASE i # Len(b) + 1
    <3>1. i \in DOMAIN b /\ c[i] = b[i]
      BY <1>1, <2>3
    <3> QED  BY <2>1, <3>1 DEF TokenAt
  <2> QED  BY <2>2, <2>3
<1>5. ASSUME NEW p \in TokenAt(b)  PROVE p \in TokenAt(c)
  <2>1. PICK i \in 1..Len(b) : b[i].allow = None /\ p \in {<<i, m>> : m \in DOMAIN b[i].skip}
    BY <1>1, <1>5 DEF TokenAt
  <2>2. i \in DOMAIN c /\ c[i] = b[i]
    BY <1>1
  <2> QED  BY <2>1, <2>2 DEF TokenAt
<1>6. ASSUME NEW p \in NewTokens(b, l)  PROVE p \in TokenAt(c)
  <2>1. l.allow = None /\ p \in {<<Len(b) + 1, m>> : m \in DOMAIN l.skip}
    BY <1>3, <1>6 DEF NewTokens
  <2>2. Len(b) + 1 \in DOMAIN c
    BY <1>1
  <2> QED  BY <1>1, <2>1, <2>2 DEF TokenAt
<1>7. TokenAt(c) = TokenAt(b) \cup NewTokens(b, l)
  BY <1>4, <1>5, <1>6
<1>8. TokenAt(b) \subseteq Pairs(Len(b))
  BY <1>2
<1> QED  BY <1>1, <1>7, <1>8 DEF Positions

\* How tokens compare: the order is total, and a new line's tokens come last.
LEMMA TokenOrder ==
  ASSUME NEW n \in Nat, NEW p \in Pairs(n)
  PROVE  /\ NotAfter(p, p)
         /\ \A k \in Nat : ~NotAfter(<<n + 1, k>>, p) /\ NotAfter(p, <<n + 1, k>>)
<1>1. PICK i \in 1..n, m \in Nat : p = <<i, m>>
  BY DEF Pairs
<1> QED  BY <1>1 DEF NotAfter

\* The tokens one line brings are as many as its gates, in their order.
LEMMA TokensOfLine ==
  ASSUME NEW n, NEW k \in Nat
  PROVE  IsFiniteSet({<<n, m>> : m \in 1..k}) /\ Cardinality({<<n, m>> : m \in 1..k}) = k
<1>1. IsFiniteSet(1..k) /\ Cardinality(1..k) = k
  <2>1. 1 \in Int /\ k \in Int
    OBVIOUS
  <2> QED  BY <2>1, FS_Interval
<1> DEFINE f == [i \in 1..k |-> <<n, i>>]
<1>2. f \in Bijection(1..k, {<<n, m>> : m \in 1..k})
  <2>1. f \in [1..k -> {<<n, m>> : m \in 1..k}]
    OBVIOUS
  <2>2. \A i, j \in 1..k : f[i] = f[j] => i = j
    OBVIOUS
  <2>3. \A q \in {<<n, m>> : m \in 1..k} : \E i \in 1..k : f[i] = q
    OBVIOUS
  <2> QED  BY <2>1, <2>2, <2>3 DEF Bijection, Injection, Surjection, IsInjective
<1>3. ExistsBijection(1..k, {<<n, m>> : m \in 1..k})
  BY <1>2 DEF ExistsBijection
<1> QED  BY <1>1, <1>3, FS_Bijection

\* Finitely many tokens; only the last one has the rank of them all.
LEMMA TokensFinite ==
  \A b \in Seq(Line) : IsFiniteSet(TokenAt(b)) /\ TokenAt(b) \subseteq Pairs(Len(b))
<1> DEFINE S == {b \in Seq(Line) : IsFiniteSet(TokenAt(b)) /\ TokenAt(b) \subseteq Pairs(Len(b))}
<1>1. <<>> \in S
  <2>1. <<>> \in Seq(Line) /\ TokenAt(<<>>) = {}
    BY DEF TokenAt
  <2> QED  BY <2>1, FS_EmptySet
<1>2. ASSUME NEW b \in S, NEW l \in Line  PROVE Append(b, l) \in S
  <2>1. b \in Seq(Line) /\ IsFiniteSet(TokenAt(b)) /\ TokenAt(b) \subseteq Pairs(Len(b))
    OBVIOUS
  <2>2. PICK c : c = Append(b, l)
    OBVIOUS
  <2>3. /\ c \in Seq(Line) /\ Len(b) \in Nat /\ DOMAIN c = 1..(Len(b) + 1)
        /\ TokenAt(c) = TokenAt(b) \cup NewTokens(b, l)
    <3>1. Positions(b, l, c)
      BY <2>1, <2>2, PositionsAppend
    <3> QED  BY <3>1 DEF Positions
  <2>4. Len(l.skip) \in Nat
    BY UnboundTokens
  <2>5. IsFiniteSet(NewTokens(b, l))
    <3>1. IsFiniteSet({<<Len(b) + 1, m>> : m \in 1..Len(l.skip)})
      BY <2>4, TokensOfLine
    <3> QED  BY <3>1, FS_EmptySet DEF NewTokens
  <2>6. IsFiniteSet(TokenAt(c))
    <3>1. IsFiniteSet(TokenAt(b) \cup NewTokens(b, l))
      BY <2>1, <2>5, FS_Union
    <3> QED  BY <2>3, <3>1
  <2>7. NewTokens(b, l) \subseteq Pairs(Len(b) + 1)
    <3>1. Len(b) + 1 \in 1..(Len(b) + 1) /\ 1..Len(l.skip) \subseteq Nat
      BY <2>3, <2>4
    <3> QED  BY <3>1 DEF NewTokens, Pairs
  <2>8. Len(c) = Len(b) + 1
    BY <2>1, <2>2
  <2>9. TokenAt(b) \subseteq Pairs(Len(b) + 1)
    BY <2>1, <2>3 DEF Pairs
  <2>10. TokenAt(c) \subseteq Pairs(Len(c))
    BY <2>3, <2>7, <2>8, <2>9
  <2> QED  BY <2>2, <2>3, <2>6, <2>10
<1>3. S = Seq(Line)
  <2>1. S \in SUBSET Seq(Line)
    OBVIOUS
  <2> HIDE DEF S
  <2> QED  BY <1>1, <1>2, <2>1, SeqSetInduction
<1> QED  BY <1>3

LEMMA Ranks ==
  ASSUME NEW b \in Seq(Line), NEW p \in TokenAt(b)
  PROVE  /\ IsFiniteSet(TokenAt(b)) /\ Cardinality(TokenAt(b)) \in Nat
         /\ Rank(b, p) \in 1..Cardinality(TokenAt(b))
         /\ Rank(b, p) = Cardinality(TokenAt(b)) <=> \A q \in TokenAt(b) : NotAfter(q, p)
<1>1. IsFiniteSet(TokenAt(b)) /\ p \in Pairs(Len(b)) /\ Len(b) \in Nat
  BY TokensFinite, LenProperties
<1>2. PICK u : u = {q \in TokenAt(b) : NotAfter(q, p)}
  OBVIOUS
<1>3. PICK t : t = TokenAt(b)
  OBVIOUS
<1>4. u \in SUBSET t /\ IsFiniteSet(t)
  BY <1>1, <1>2, <1>3
<1>5. IsFiniteSet(u) /\ Cardinality(u) <= Cardinality(t) /\ (Cardinality(u) = Cardinality(t) => u = t)
  BY <1>4, FS_Subset
<1>6. Cardinality(u) \in Nat /\ Cardinality(t) \in Nat
  BY <1>4, <1>5, FS_CardinalityType
<1>7. p \in u
  <2>1. NotAfter(p, p)
    BY <1>1, TokenOrder
  <2> QED  BY <1>2, <2>1
<1>8. Cardinality(u) # 0
  BY <1>5, <1>7, FS_EmptySet
<1>9. u = t <=> \A q \in TokenAt(b) : NotAfter(q, p)
  BY <1>2, <1>3
<1>10. Rank(b, p) = Cardinality(u)
  BY <1>2 DEF Rank
<1>11. u = t => Cardinality(u) = Cardinality(t)
  OBVIOUS
<1>12. Cardinality(u) \in 1..Cardinality(t)
  BY <1>5, <1>6, <1>8
<1>13. Cardinality(u) = Cardinality(t) <=> \A q \in TokenAt(b) : NotAfter(q, p)
  BY <1>5, <1>9, <1>11
<1> QED  BY <1>1, <1>3, <1>6, <1>10, <1>12, <1>13

\* What one more line does to the id of an earlier token: an allowlist line is the last token's
\* alone.
AllowsFollow(b, l, c, p) ==
  OwnId(c, p) = IF l.allow # None /\ \A q \in TokenAt(b) : NotAfter(q, p) THEN l.allow
                ELSE OwnId(b, p)

LEMMA AllowsAppend ==
  ASSUME NEW b \in Seq(Line), NEW l \in Line, NEW c, c = Append(b, l), NEW p \in TokenAt(b)
  PROVE  AllowsFollow(b, l, c, p)
<1> SUFFICES OwnId(c, p) = IF l.allow # None /\ \A q \in TokenAt(b) : NotAfter(q, p) THEN l.allow
                           ELSE OwnId(b, p)
  BY DEF AllowsFollow
<1>1. /\ c \in Seq(Line) /\ Len(b) \in Nat /\ DOMAIN b = 1..Len(b) /\ DOMAIN c = 1..(Len(b) + 1)
      /\ \A k \in 1..Len(b) : c[k] = b[k]
      /\ c[Len(b) + 1] = l
      /\ TokenAt(b) \subseteq Pairs(Len(b))
      /\ TokenAt(c) = TokenAt(b) \cup NewTokens(b, l)
  <2>1. Positions(b, l, c)
    BY PositionsAppend
  <2> QED  BY <2>1 DEF Positions
<1>2. p[1] \in 1..Len(b)
  BY <1>1, PairParts
<1>3. \A q \in NewTokens(b, l) : q[1] = Len(b) + 1
  BY DEF NewTokens
<1>4. \A q \in TokenAt(b) : q[1] \in 1..Len(b)
  BY <1>1, PairParts
<1>5. ASSUME NEW j \in 1..Len(b)
      PROVE  j \in AllowsOf(c, p) <=> j \in AllowsOf(b, p)
  <2>1. (\A q \in TokenAt(c) : q[1] < j => NotAfter(q, p))
          <=> (\A q \in TokenAt(b) : q[1] < j => NotAfter(q, p))
    <3>1. ~(Len(b) + 1 < j)
      BY <1>1
    <3> QED  BY <1>1, <1>3, <3>1
  <2>2. j \in DOMAIN b /\ j \in DOMAIN c /\ c[j] = b[j]
    BY <1>1
  <2> QED  BY <2>1, <2>2 DEF AllowsOf
<1>6. Len(b) + 1 \in AllowsOf(c, p) <=> l.allow # None /\ \A q \in TokenAt(b) : NotAfter(q, p)
  <2>1. (\A q \in TokenAt(c) : q[1] < Len(b) + 1 => NotAfter(q, p))
          <=> (\A q \in TokenAt(b) : NotAfter(q, p))
    <3>1. ~(Len(b) + 1 < Len(b) + 1) /\ \A k \in 1..Len(b) : k < Len(b) + 1
      BY <1>1
    <3> QED  BY <1>1, <1>3, <1>4, <3>1
  <2>2. Len(b) + 1 \in DOMAIN c /\ Len(b) + 1 > p[1]
    BY <1>1, <1>2
  <2> QED  BY <1>1, <2>1, <2>2 DEF AllowsOf
<1>7. AllowsOf(b, p) \subseteq 1..Len(b) /\ AllowsOf(c, p) \subseteq 1..(Len(b) + 1)
  BY <1>1 DEF AllowsOf
<1>8. CASE l.allow # None /\ \A q \in TokenAt(b) : NotAfter(q, p)
  <2>1. PICK t : t = AllowsOf(c, p)
    OBVIOUS
  <2>2. PICK m : m = Max(t)
    OBVIOUS
  <2>3. t \in SUBSET (0..(Len(b) + 1)) /\ t # {} /\ Len(b) + 1 \in t /\ Len(b) + 1 \in Nat
    BY <1>1, <1>6, <1>7, <1>8, <2>1
  <2>4. m \in t /\ m >= Len(b) + 1
    BY <2>2, <2>3, MaxIn
  <2>5. m = Len(b) + 1
    BY <1>1, <1>7, <2>1, <2>4
  <2> QED  BY <1>1, <1>8, <2>1, <2>2, <2>3, <2>5 DEF OwnId
<1>9. CASE ~(l.allow # None /\ \A q \in TokenAt(b) : NotAfter(q, p))
  <2>1. PICK t : t = AllowsOf(b, p)
    OBVIOUS
  <2>2. AllowsOf(c, p) = t
    <3>1. Len(b) + 1 \notin AllowsOf(c, p)
      BY <1>6, <1>9
    <3>2. \A j \in AllowsOf(c, p) : j \in 1..Len(b)
      BY <1>1, <1>7, <3>1
    <3> QED  BY <1>5, <1>7, <2>1, <3>2
  <2>3. CASE t = {}
    BY <1>9, <2>1, <2>2, <2>3 DEF OwnId
  <2>4. CASE t # {}
    <3>1. PICK m : m = Max(t)
      OBVIOUS
    <3>2. t \in SUBSET (0..Len(b))
      BY <1>1, <1>7, <2>1
    <3>3. m \in t
      BY <1>1, <2>4, <3>1, <3>2, MaxIn
    <3>4. c[m] = b[m]
      BY <1>1, <1>7, <2>1, <3>3
    <3> QED  BY <1>9, <2>1, <2>2, <2>4, <3>1, <3>4 DEF OwnId
  <2> QED  BY <2>3, <2>4
<1> QED  BY <1>8, <1>9

\* The ranks of the earlier tokens stay, and the new ones follow in their order.
LEMMA RankAppend ==
  ASSUME NEW b \in Seq(Line), NEW l \in Line, NEW c, c = Append(b, l)
  PROVE  /\ \A p \in TokenAt(b) : Rank(c, p) = Rank(b, p)
         /\ l.allow = None =>
              \A k \in 1..Len(l.skip) : Rank(c, <<Len(b) + 1, k>>) = Cardinality(TokenAt(b)) + k
<1> DEFINE n == Len(b)
<1>1. /\ n \in Nat /\ TokenAt(b) \subseteq Pairs(n)
      /\ TokenAt(c) = TokenAt(b) \cup NewTokens(b, l)
  <2>1. Positions(b, l, c)
    BY PositionsAppend
  <2> QED  BY <2>1 DEF Positions
<1>2. ASSUME NEW p \in TokenAt(b)  PROVE Rank(c, p) = Rank(b, p)
  <2>1. \A q \in NewTokens(b, l) : ~NotAfter(q, p)
    <3> SUFFICES ASSUME NEW q \in NewTokens(b, l)  PROVE ~NotAfter(q, p)
      OBVIOUS
    <3>1. PICK k \in Nat : q = <<n + 1, k>>
      BY DEF NewTokens
    <3> QED  BY <1>1, <3>1, TokenOrder
  <2>2. {q \in TokenAt(c) : NotAfter(q, p)} = {q \in TokenAt(b) : NotAfter(q, p)}
    BY <1>1, <2>1
  <2> QED  BY <2>2 DEF Rank
<1>3. ASSUME l.allow = None, NEW k \in 1..Len(l.skip)
      PROVE  Rank(c, <<n + 1, k>>) = Cardinality(TokenAt(b)) + k
  <2>1. Len(l.skip) \in Nat /\ k \in Nat
    BY UnboundTokens
  <2>2. PICK new : new = {<<n + 1, m>> : m \in 1..k}
    OBVIOUS
  <2>3. {q \in TokenAt(c) : NotAfter(q, <<n + 1, k>>)} = TokenAt(b) \cup new
    <3>1. \A q \in TokenAt(b) : NotAfter(q, <<n + 1, k>>)
      BY <1>1, <2>1, TokenOrder
    <3>2. \A m \in 1..Len(l.skip) : NotAfter(<<n + 1, m>>, <<n + 1, k>>) <=> m \in 1..k
      BY <1>1, <2>1 DEF NotAfter
    <3>3. NewTokens(b, l) = {<<n + 1, m>> : m \in 1..Len(l.skip)}
      BY <1>3 DEF NewTokens
    <3>4. ASSUME NEW q \in NewTokens(b, l)
          PROVE  NotAfter(q, <<n + 1, k>>) <=> q \in new
      <4>1. PICK m \in 1..Len(l.skip) : q = <<n + 1, m>>
        BY <3>3
      <4>2. q \in new <=> m \in 1..k
        BY <2>2, <4>1
      <4> QED  BY <3>2, <4>1, <4>2
    <3>5. new \subseteq NewTokens(b, l)
      BY <2>1, <2>2, <3>3
    <3> QED  BY <1>1, <3>1, <3>4, <3>5
  <2>4. IsFiniteSet(new) /\ Cardinality(new) = k
    BY <2>1, <2>2, TokensOfLine
  <2>5. TokenAt(b) \cap new = {}
    <3>1. \A q \in TokenAt(b) : q[1] # n + 1
      BY <1>1, PairParts
    <3> QED  BY <2>2, <3>1
  <2>6. Cardinality(TokenAt(b) \cup new) = Cardinality(TokenAt(b)) + k - Cardinality({})
    BY <2>4, <2>5, TokensFinite, FS_Union
  <2>7. Cardinality({}) = 0 /\ Cardinality(TokenAt(b)) \in Nat
    BY TokensFinite, FS_EmptySet, FS_CardinalityType
  <2>8. Cardinality(TokenAt(b) \cup new) = Cardinality(TokenAt(b)) + k
    BY <2>1, <2>6, <2>7
  <2> QED  BY <2>3, <2>8 DEF Rank
<1> QED  BY <1>2, <1>3

LEMMA AllBindNearest ==
  \A b \in Seq(Line) : BindsNearest(b)
<1> DEFINE S == {b \in Seq(Line) : BindsNearest(b)}
<1>1. <<>> \in S
  <2>1. <<>> \in Seq(Line) /\ TokenAt(<<>>) = {} /\ Len(<<>>) = 0
    BY DEF TokenAt
  <2> QED  BY <2>1, SkipLaws, FS_EmptySet DEF BindsNearest
<1>2. ASSUME NEW b \in S, NEW l \in Line  PROVE Append(b, l) \in S
  <2>1. b \in Seq(Line) /\ Append(b, l) \in Seq(Line) /\ BindsNearest(b)
    OBVIOUS
  <2>2. PICK sk \in Seq(Skip) : sk = ParseSkips(b)
    BY <2>1, SkipLaws
  <2>3. PICK c \in Seq(Line) : c = Append(b, l)
    BY <2>1
  <2>4. ParseSkips(c) = BindSkip(sk, l)
    BY <2>1, <2>2, <2>3, SkipLaws
  <2>5. /\ Len(b) \in Nat /\ DOMAIN c = 1..(Len(b) + 1)
        /\ \A k \in 1..Len(b) : c[k] = b[k]
        /\ c[Len(b) + 1] = l
        /\ TokenAt(b) \subseteq Pairs(Len(b))
        /\ TokenAt(c) = TokenAt(b) \cup NewTokens(b, l)
    <3>1. Positions(b, l, c)
      BY <2>1, <2>3, PositionsAppend
    <3> QED  BY <3>1 DEF Positions
  <2>6. /\ Len(sk) \in Nat /\ Len(sk) = Cardinality(TokenAt(b))
        /\ \A p \in TokenAt(b) : sk[Rank(b, p)] = [gate |-> b[p[1]].skip[p[2]], allow |-> OwnId(b, p)]
    BY <2>1, <2>2, LenProperties DEF BindsNearest
  <2>7. IsFiniteSet(TokenAt(b))
    BY <2>1, TokensFinite
  <2>8. ASSUME NEW p \in TokenAt(b)
        PROVE  /\ Rank(c, p) = Rank(b, p) /\ Rank(b, p) \in 1..Len(sk) /\ c[p[1]] = b[p[1]]
               /\ Rank(b, p) = Len(sk) <=> \A q \in TokenAt(b) : NotAfter(q, p)
               /\ OwnId(c, p) = IF l.allow # None /\ \A q \in TokenAt(b) : NotAfter(q, p)
                                THEN l.allow ELSE OwnId(b, p)
    <3>1. Rank(c, p) = Rank(b, p)
      BY <2>1, <2>3, RankAppend
    <3>2. Rank(b, p) \in 1..Len(sk) /\ (Rank(b, p) = Len(sk) <=> \A q \in TokenAt(b) : NotAfter(q, p))
      <4>1. /\ Rank(b, p) \in 1..Cardinality(TokenAt(b))
            /\ Rank(b, p) = Cardinality(TokenAt(b)) <=> \A q \in TokenAt(b) : NotAfter(q, p)
        BY <2>1, Ranks
      <4> QED  BY <2>6, <4>1
    <3>3. OwnId(c, p) = IF l.allow # None /\ \A q \in TokenAt(b) : NotAfter(q, p) THEN l.allow
                        ELSE OwnId(b, p)
      <4>1. AllowsFollow(b, l, c, p)
        BY <2>1, <2>3, AllowsAppend
      <4> QED  BY <4>1 DEF AllowsFollow
    <3>4. p[1] \in 1..Len(b)
      BY <2>5, PairParts
    <3> QED  BY <2>5, <3>1, <3>2, <3>3, <3>4
  <2>9. CASE l.allow # None
    <3>1. TokenAt(c) = TokenAt(b)
      BY <2>5, <2>9 DEF NewTokens
    <3>2. CASE sk = <<>>
      <4>1. TokenAt(b) = {}
        BY <2>6, <2>7, <3>2, FS_EmptySet
      <4>2. ParseSkips(c) = sk
        BY <2>4, <2>9, <3>2 DEF BindSkip
      <4> QED  BY <2>3, <2>6, <3>1, <4>1, <4>2 DEF BindsNearest
    <3>3. CASE sk # <<>>
      <4>1. Len(sk) \in 1..Len(sk)
        <5>1. Len(sk) # 0
          BY <3>3, EmptySeq
        <5> QED  BY <2>6, <5>1
      <4>2. PICK last \in Skip : last = sk[Len(sk)]
        BY <4>1, ElementOfSeq
      <4>3. PICK tok \in Skip : tok = [last EXCEPT !.allow = l.allow]
            /\ tok = [gate |-> last.gate, allow |-> l.allow]
        <5>1. [last EXCEPT !.allow = l.allow] = [gate |-> last.gate, allow |-> l.allow]
          BY DEF Skip
        <5>2. [gate |-> last.gate, allow |-> l.allow] \in Skip
          BY DEF Skip, Line
        <5> QED  BY <5>1, <5>2
      <4>4. PICK new : new = [sk EXCEPT ![Len(sk)] = tok]
        OBVIOUS
      <4>5. /\ new \in Seq(Skip) /\ Len(new) = Len(sk)
            /\ \A j \in 1..Len(sk) : new[j] = IF j = Len(sk) THEN tok ELSE sk[j]
        BY <4>1, <4>4, ExceptSeq
      <4>6. ParseSkips(c) = new
        BY <2>4, <2>9, <3>3, <4>2, <4>3, <4>4 DEF BindSkip
      <4>7. ASSUME NEW p \in TokenAt(b)
            PROVE  new[Rank(c, p)] = [gate |-> c[p[1]].skip[p[2]], allow |-> OwnId(c, p)]
        <5>1. sk[Rank(b, p)] = [gate |-> b[p[1]].skip[p[2]], allow |-> OwnId(b, p)]
          BY <2>6
        <5>2. CASE \A q \in TokenAt(b) : NotAfter(q, p)
          <6>1. /\ Rank(b, p) = Len(sk) /\ OwnId(c, p) = l.allow /\ c[p[1]] = b[p[1]]
                /\ Rank(c, p) = Len(sk)
            BY <2>8, <2>9, <5>2
          <6>2. last.gate = b[p[1]].skip[p[2]]
            BY <4>2, <5>1, <6>1
          <6> QED  BY <4>1, <4>3, <4>5, <6>1, <6>2
        <5>3. CASE ~ \A q \in TokenAt(b) : NotAfter(q, p)
          <6>1. /\ Rank(b, p) # Len(sk) /\ Rank(b, p) \in 1..Len(sk) /\ OwnId(c, p) = OwnId(b, p)
                /\ c[p[1]] = b[p[1]] /\ Rank(c, p) = Rank(b, p)
            BY <2>8, <5>3
          <6> QED  BY <4>5, <5>1, <6>1
        <5> QED  BY <5>2, <5>3
      <4> QED  BY <2>3, <2>6, <3>1, <4>5, <4>6, <4>7 DEF BindsNearest
    <3> QED  BY <3>2, <3>3
  <2>10. CASE l.allow = None
    <3>1. PICK more \in Seq(Skip) : more = Unbound(l)
      BY UnboundTokens
    <3>2. /\ Len(l.skip) \in Nat /\ Len(more) = Len(l.skip)
          /\ \A k \in 1..Len(l.skip) : more[k] = [gate |-> l.skip[k], allow |-> None]
      BY <3>1, UnboundTokens
    <3>3. PICK all : all = sk \o more
      OBVIOUS
    <3>4. ParseSkips(c) = all
      BY <2>4, <2>10, <3>1, <3>3 DEF BindSkip
    <3>5. /\ Len(all) = Len(sk) + Len(l.skip)
          /\ \A j \in 1..Len(sk) : all[j] = sk[j]
          /\ \A k \in 1..Len(l.skip) : all[Len(sk) + k] = more[k]
      <4>1. /\ Len(all) = Len(sk) + Len(more)
            /\ \A j \in 1..(Len(sk) + Len(more)) :
                 all[j] = IF j <= Len(sk) THEN sk[j] ELSE more[j - Len(sk)]
        BY <3>3, ConcatProperties
      <4>2. ASSUME NEW j \in 1..Len(sk)  PROVE all[j] = sk[j]
        <5>1. j \in 1..(Len(sk) + Len(more)) /\ j <= Len(sk)
          BY <2>6, <3>2
        <5> QED  BY <4>1, <5>1
      <4>3. ASSUME NEW k \in 1..Len(l.skip)  PROVE all[Len(sk) + k] = more[k]
        <5>1. /\ Len(sk) + k \in 1..(Len(sk) + Len(more)) /\ ~(Len(sk) + k <= Len(sk))
              /\ (Len(sk) + k) - Len(sk) = k
          BY <2>6, <3>2
        <5> QED  BY <4>1, <5>1
      <4> QED  BY <3>2, <4>1, <4>2, <4>3
    <3>6. NewTokens(b, l) = {<<Len(b) + 1, m>> : m \in 1..Len(l.skip)}
      BY <2>10 DEF NewTokens
    <3>7. Cardinality(TokenAt(c)) = Len(sk) + Len(l.skip)
      <4>1. PICK new : new = {<<Len(b) + 1, m>> : m \in 1..Len(l.skip)}
        OBVIOUS
      <4>2. IsFiniteSet(new) /\ Cardinality(new) = Len(l.skip)
        BY <3>2, <4>1, TokensOfLine
      <4>3. TokenAt(b) \cap new = {}
        <5>1. \A q \in TokenAt(b) : q[1] # Len(b) + 1
          BY <2>5, PairParts
        <5> QED  BY <4>1, <5>1
      <4>4. Cardinality(TokenAt(b) \cup new)
              = Cardinality(TokenAt(b)) + Cardinality(new) - Cardinality({})
        BY <2>7, <4>2, <4>3, FS_Union
      <4>5. Cardinality({}) = 0
        BY FS_EmptySet
      <4> QED  BY <2>5, <2>6, <3>2, <3>6, <4>1, <4>2, <4>4, <4>5
    <3>8. ASSUME NEW p \in TokenAt(b)
          PROVE  all[Rank(c, p)] = [gate |-> c[p[1]].skip[p[2]], allow |-> OwnId(c, p)]
      <4>1. /\ Rank(c, p) = Rank(b, p) /\ Rank(b, p) \in 1..Len(sk) /\ c[p[1]] = b[p[1]]
            /\ OwnId(c, p) = OwnId(b, p)
        BY <2>8, <2>10
      <4>2. sk[Rank(b, p)] = [gate |-> b[p[1]].skip[p[2]], allow |-> OwnId(b, p)]
        BY <2>6
      <4> QED  BY <3>5, <4>1, <4>2
    <3>9. ASSUME NEW k \in 1..Len(l.skip)
          PROVE  all[Rank(c, <<Len(b) + 1, k>>)]
                   = [gate |-> c[Len(b) + 1].skip[k], allow |-> OwnId(c, <<Len(b) + 1, k>>)]
      <4>1. Rank(c, <<Len(b) + 1, k>>) = Len(sk) + k
        <5>1. l.allow = None =>
                \A j \in 1..Len(l.skip) : Rank(c, <<Len(b) + 1, j>>) = Cardinality(TokenAt(b)) + j
          BY <2>1, <2>3, RankAppend
        <5>2. PICK r : r = Rank(c, <<Len(b) + 1, k>>)
          OBVIOUS
        <5>3. r = Cardinality(TokenAt(b)) + k
          BY <2>10, <5>1, <5>2, Zenon
        <5> QED  BY <2>6, <5>2, <5>3
      <4>2. AllowsOf(c, <<Len(b) + 1, k>>) = {}
        <5>1. \A j \in DOMAIN c : ~(j > Len(b) + 1)
          BY <2>5
        <5>2. <<Len(b) + 1, k>>[1] = Len(b) + 1
          OBVIOUS
        <5> QED  BY <5>1, <5>2 DEF AllowsOf
      <4>3. OwnId(c, <<Len(b) + 1, k>>) = None
        BY <4>2 DEF OwnId
      <4> QED  BY <2>5, <3>2, <3>5, <4>1, <4>3
    <3>10. ASSUME NEW p \in TokenAt(c)
           PROVE  all[Rank(c, p)] = [gate |-> c[p[1]].skip[p[2]], allow |-> OwnId(c, p)]
      <4>1. CASE p \in TokenAt(b)
        BY <3>8, <4>1
      <4>2. CASE p \notin TokenAt(b)
        <5>1. PICK k \in 1..Len(l.skip) : p = <<Len(b) + 1, k>>
          BY <2>5, <3>6, <3>10, <4>2
        <5>2. p[1] = Len(b) + 1 /\ p[2] = k
          BY <5>1
        <5> QED  BY <3>9, <5>1, <5>2
      <4> QED  BY <4>1, <4>2
    <3> QED  BY <2>3, <3>4, <3>5, <3>7, <3>10 DEF BindsNearest
  <2> QED  BY <2>9, <2>10
<1>3. S = Seq(Line)
  <2>1. S \in SUBSET Seq(Line)
    OBVIOUS
  <2> HIDE DEF S
  <2> QED  BY <1>1, <1>2, <2>1, SeqSetInduction
<1> QED  BY <1>3

-----------------------------------------------------------------------------
(* The theorems *)

TypeInv == body \in Seq(Line)

LEMMA ReboundTyped ==
  ASSUME NEW b \in Seq(Line), NEW s \in Sources
  PROVE  /\ [Parse(b) EXCEPT !.source = s] \in Parsed
         /\ s \in Texts /\ s # Malformed
         /\ [Parse(b) EXCEPT !.source = s].source = s
         /\ [Parse(b) EXCEPT !.source = s].tickets = ParseTickets(b)
         /\ [Parse(b) EXCEPT !.source = s].skips = ParseSkips(b)
         /\ [Parse(b) EXCEPT !.source = s].sections = ParseSections(b)
<1>1. s \in Texts /\ s # Malformed
  BY SourcesAssumption
<1>2. PICK stamp \in Parsed : stamp = Parse(b)
  BY ParseTyped
<1>3. /\ stamp.tickets = ParseTickets(b) /\ stamp.skips = ParseSkips(b)
      /\ stamp.sections = ParseSections(b)
  BY <1>2, ParseTyped
<1> QED  BY <1>1, <1>2, <1>3 DEF Parsed

\* Every body is a sequence of lines: rendering writes lines.
THEOREM BodyTyped == Spec => []TypeInv
<1>1. Init => TypeInv
  BY DEF Init, TypeInv
<1>2. TypeInv /\ [Next]_body => TypeInv'
  <2> SUFFICES ASSUME TypeInv, [Next]_body  PROVE TypeInv'
    OBVIOUS
  <2>1. PICK b \in Seq(Line) : b = body
    BY DEF TypeInv
  <2>2. ASSUME NEW l \in Lines, AuthorAdds(l)  PROVE TypeInv'
    <3>1. body' = Append(b, l) /\ l \in Line
      BY <2>1, <2>2, LinesAssumption DEF AuthorAdds
    <3> QED  BY <3>1, AppendProperties DEF TypeInv
  <2>3. ASSUME NEW s \in Sources, Rebind(s)  PROVE TypeInv'
    <3>1. body' = Render([Parse(b) EXCEPT !.source = s])
      BY <2>1, <2>3 DEF Rebind
    <3>2. Render([Parse(b) EXCEPT !.source = s]) \in Seq(Line)
      BY ReboundTyped, RenderTyped
    <3> QED  BY <3>1, <3>2 DEF TypeInv
  <2>4. CASE UNCHANGED body
    BY <2>4 DEF TypeInv
  <2> QED  BY <2>2, <2>3, <2>4 DEF Next
<1> QED  BY <1>1, <1>2, PTL DEF Spec

\* Whatever an author and the automation write, the sections spell the body, neighbours differ
\* in class and a line that is not blank is in a section of its own class.
THEOREM SectionsLosslessHolds == Spec => []SectionsLossless
<1>1. TypeInv => SectionsLossless
  <2> SUFFICES ASSUME TypeInv  PROVE SectionsLossless
    OBVIOUS
  <2>1. PICK b \in Seq(Line) : b = body
    BY DEF TypeInv
  <2>2. PICK secs : secs = ParseSections(b) /\ Parse(b).sections = secs
    BY ParseTyped
  <2>3. SectionLines(secs) = b /\ WellGrouped(secs)
    BY <2>2, SectionsSpell, SectionsWellGrouped
  <2> QED  BY <2>1, <2>2, <2>3 DEF SectionsLossless, WellGrouped
<1> QED  BY <1>1, BodyTyped, PTL

\* What is rendered of a body, with any source, holds the plain prose of the body.
LEMMA RenderKeepsProse ==
  ASSUME NEW b \in Seq(Line), NEW stamp \in Parsed, stamp.tickets = ParseTickets(b),
         stamp.skips = ParseSkips(b), stamp.sections = ParseSections(b)
  PROVE  PlainProse(Render(stamp)) = PlainProse(b)
<1>1. PICK block : block = Block(stamp.tickets, stamp.source, stamp.skips)
  OBVIOUS
<1>2. block \in Seq(StampOnly)
  <2>1. stamp.source \in Texts
    BY DEF Parsed
  <2>2. stamp.tickets \in Seq(Named) /\ stamp.skips \in Seq(Skip)
    BY ParsedNamed, SkipLaws
  <2>3. /\ TicketLines(stamp.tickets) \in Seq(StampOnly)
        /\ SourceLines(stamp.source) \in Seq(StampOnly)
        /\ SkipLines(stamp.skips) \in Seq(StampOnly)
    BY <2>1, <2>2, BlockKinds
  <2> QED  BY <1>1, <2>3, ConcatProperties DEF Block
<1>3. PICK human \in Seq(Line) : human = Human(b)
  BY HumanAppend
<1>4. Render(stamp) = Joined(human, block)
  BY <1>1, <1>3, RenderJoins DEF Human
<1>5. PlainProse(Joined(human, block)) = PlainProse(b)
  BY <1>2, <1>3, ProseOfRendered, ProseIsHuman
<1> QED  BY <1>4, <1>5

\* A re-render keeps every line of plain prose, in its order and its number.
THEOREM PlainProseKeptHolds == Spec => []PlainProseKept
<1>1. TypeInv => PlainProseKept
  <2> SUFFICES ASSUME TypeInv  PROVE PlainProse(Rerender(body)) = PlainProse(body)
    BY DEF PlainProseKept
  <2>1. PICK b \in Seq(Line) : b = body
    BY DEF TypeInv
  <2>2. PICK stamp \in Parsed :
          /\ stamp = Parse(b) /\ stamp.tickets = ParseTickets(b) /\ stamp.skips = ParseSkips(b)
          /\ stamp.sections = ParseSections(b)
    BY ParseTyped
  <2>3. PlainProse(Render(stamp)) = PlainProse(b)
    BY <2>2, RenderKeepsProse
  <2> QED  BY <2>1, <2>2, <2>3 DEF Rerender
<1> QED  BY <1>1, BodyTyped, PTL

\* The automation adds and removes no line of plain prose, whatever it binds and however often
\* it runs between the author's edits.
THEOREM AutomationKeepsProse ==
  Spec => [][\A s \in Sources : Rebind(s) => PlainProse(body') = PlainProse(body)]_body
<1>1. ASSUME TypeInv, NEW s \in Sources, Rebind(s)  PROVE PlainProse(body') = PlainProse(body)
  <2>1. PICK b \in Seq(Line) : b = body
    BY <1>1 DEF TypeInv
  <2>2. PICK stamp \in Parsed :
          /\ stamp = [Parse(b) EXCEPT !.source = s] /\ stamp.tickets = ParseTickets(b)
          /\ stamp.skips = ParseSkips(b) /\ stamp.sections = ParseSections(b)
    BY ReboundTyped
  <2>3. PlainProse(Render(stamp)) = PlainProse(b)
    BY <2>2, RenderKeepsProse
  <2> QED  BY <1>1, <2>1, <2>2, <2>3 DEF Rebind
<1>2. TypeInv /\ [Next]_body
        => [\A s \in Sources : Rebind(s) => PlainProse(body') = PlainProse(body)]_body
  BY <1>1
<1> QED  BY <1>2, BodyTyped, PTL DEF Spec

\* A second re-render changes nothing, when no evidence marker strays.
THEOREM RenderIdempotentHolds == Spec => []RenderIdempotent
<1>1. TypeInv => RenderIdempotent
  <2> SUFFICES ASSUME TypeInv, NoStrayEvidence(body)
               PROVE  Rerender(Rerender(body)) = Rerender(body)
    BY DEF RenderIdempotent
  <2>1. PICK b \in Seq(Line) : b = body
    BY DEF TypeInv
  <2>2. PICK stamp \in Parsed :
          /\ stamp = Parse(b) /\ stamp.tickets = ParseTickets(b) /\ stamp.skips = ParseSkips(b)
          /\ stamp.sections = ParseSections(b) /\ stamp.source = ParseSource(b)
    BY ParseTyped
  <2>3. PICK src \in Texts : src = stamp.source /\ (src = None \/ src # Malformed)
    <3>1. stamp.source \in Texts
      BY DEF Parsed
    <3>2. stamp.source = None \/ stamp.source # Malformed
      BY <2>2 DEF ParseSource
    <3> QED  BY <3>1, <3>2
  <2>4. PICK out : out = Render(stamp)
    OBVIOUS
  <2>5. Render(Parse(out)) = out
    BY <2>1, <2>2, <2>3, <2>4, RenderReadsBack
  <2> QED  BY <2>1, <2>2, <2>4, <2>5 DEF Rerender
<1> QED  BY <1>1, BodyTyped, PTL

\* The body the automation writes reads back as the source it bound and the tickets, tokens and
\* allowlist ids of before, when no evidence marker strays.
THEOREM BoundStampReadsBackHolds == Spec => []BoundStampReadsBack
<1>1. TypeInv => BoundStampReadsBack
  <2> SUFFICES ASSUME TypeInv, NEW s \in Sources, NoStrayEvidence(body)
               PROVE  LET bound == [Parse(body) EXCEPT !.source = s]
                          back  == Parse(Render(bound))
                      IN  /\ back.source = s
                          /\ back.tickets = bound.tickets
                          /\ back.skips = bound.skips
    BY DEF BoundStampReadsBack
  <2>1. PICK b \in Seq(Line) : b = body
    BY DEF TypeInv
  <2>2. PICK stamp \in Parsed :
          /\ stamp = [Parse(b) EXCEPT !.source = s] /\ s \in Texts /\ s # Malformed
          /\ stamp.source = s /\ stamp.tickets = ParseTickets(b) /\ stamp.skips = ParseSkips(b)
          /\ stamp.sections = ParseSections(b)
    BY ReboundTyped
  <2>3. PICK out : out = Render(stamp)
    OBVIOUS
  <2>4. /\ Parse(out).source = s /\ Parse(out).tickets = ParseTickets(b)
        /\ Parse(out).skips = ParseSkips(b)
    <3>1. PICK src \in Texts : src = s /\ src = stamp.source /\ (src = None \/ src # Malformed)
      BY <2>2
    <3>2. NoStrayEvidence(b)
      BY <2>1
    <3>3. /\ stamp.source = src /\ stamp.tickets = ParseTickets(b) /\ stamp.skips = ParseSkips(b)
          /\ stamp.sections = ParseSections(b)
      BY <2>2, <3>1
    <3>4. /\ Parse(out).source = src /\ Parse(out).tickets = ParseTickets(b)
          /\ Parse(out).skips = ParseSkips(b)
      BY <2>3, <3>1, <3>2, <3>3, RenderReadsBack
    <3> QED  BY <3>1, <3>4
  <2> QED  BY <2>1, <2>2, <2>3, <2>4
<1> QED  BY <1>1, BodyTyped, PTL

\* A bound body can be parsed again, and binding the same source once more changes nothing:
\* automation that is retried after it had succeeded does no harm.
RetryChangesNothing ==
  \A s \in Sources :
    NoStrayEvidence(body) /\ ~ParseRaises(body) =>
      LET bound == Render([Parse(body) EXCEPT !.source = s])
      IN  ~ParseRaises(bound) /\ Render([Parse(bound) EXCEPT !.source = s]) = bound

\* Binding a source, failing to notice and binding it again is binding it once.
THEOREM RetriesChangeNothing == Spec => []RetryChangesNothing
<1>1. TypeInv => RetryChangesNothing
  <2> SUFFICES ASSUME TypeInv, NEW s \in Sources, NoStrayEvidence(body)
               PROVE  LET bound == Render([Parse(body) EXCEPT !.source = s])
                      IN  ~ParseRaises(bound) /\ Render([Parse(bound) EXCEPT !.source = s]) = bound
    BY DEF RetryChangesNothing
  <2>1. PICK b \in Seq(Line) : b = body
    BY DEF TypeInv
  <2>2. PICK stamp \in Parsed :
          /\ stamp = [Parse(b) EXCEPT !.source = s] /\ s \in Texts /\ s # Malformed
          /\ stamp.source = s /\ stamp.tickets = ParseTickets(b) /\ stamp.skips = ParseSkips(b)
          /\ stamp.sections = ParseSections(b)
    BY ReboundTyped
  <2>3. PICK out \in Seq(Line) : out = Render(stamp)
    BY <2>2, RenderTyped
  <2>4. Parse(out).source = s /\ Render(Parse(out)) = out
    <3>1. PICK src \in Texts : src = s /\ src = stamp.source /\ (src = None \/ src # Malformed)
      BY <2>2
    <3>2. NoStrayEvidence(b)
      BY <2>1
    <3>3. /\ stamp.source = src /\ stamp.tickets = ParseTickets(b) /\ stamp.skips = ParseSkips(b)
          /\ stamp.sections = ParseSections(b)
      BY <2>2, <3>1
    <3>4. Parse(out).source = src /\ Render(Parse(out)) = out
      BY <2>3, <3>1, <3>2, <3>3, RenderReadsBack
    <3> QED  BY <3>1, <3>4
  <2>5. [Parse(out) EXCEPT !.source = s] = Parse(out)
    <3>1. PICK back \in Parsed : back = Parse(out)
      BY <2>3, ParseTyped
    <3>2. back.source = s
      BY <2>4, <3>1
    <3>3. [back EXCEPT !.source = s] = back
      BY <3>1, <3>2 DEF Parsed
    <3> QED  BY <3>1, <3>3
  <2>6. ~ParseRaises(out)
    <3>1. ParseSource(out) = s
      BY <2>3, <2>4, ParseTyped
    <3>2. s # None /\ s # Refused
      BY SourcesAssumption
    <3> QED  BY <3>1, <3>2 DEF ParseSource, ParseRaises
  <2> QED  BY <2>1, <2>2, <2>3, <2>4, <2>5, <2>6
<1> QED  BY <1>1, BodyTyped, PTL

\* A token carries the last allowlist id that follows it before another token, and no other.
THEOREM AllowlistBindsNearestHolds == Spec => []AllowlistBindsNearest
<1>1. TypeInv => AllowlistBindsNearest
  <2> SUFFICES ASSUME TypeInv  PROVE AllowlistBindsNearest
    OBVIOUS
  <2>1. PICK b \in Seq(Line) : b = body
    BY DEF TypeInv
  <2>2. BindsNearest(b)
    BY AllBindNearest
  <2> QED  BY <2>1, <2>2 DEF BindsNearest, Rank, OwnId, AllowlistBindsNearest
<1> QED  BY <1>1, BodyTyped, PTL

=============================================================================
