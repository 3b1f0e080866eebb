---------------------------- MODULE DocumentProofs ----------------------------
(***************************************************************************)
(* What the calls of a path do to a document, for every document, every    *)
(* path and every sequence of calls.                                       *)
(***************************************************************************)
EXTENDS Document, TLAPS, SequenceTheorems, WellFoundedInduction,
        NaturalsInduction, FiniteSetTheorems, FunctionTheorems

Key == STRING
Position == Seq(Key)

------------------------------------------------------------------------------
(* Positions *)

LEMMA Prefix ==
  ASSUME NEW p \in Position, NEW n \in 0..Len(p)
  PROVE  /\ SubSeq(p, 1, n) \in Position
         /\ Len(SubSeq(p, 1, n)) = n
         /\ \A i \in 1..n : SubSeq(p, 1, n)[i] = p[i]
<1>1. Len(p) \in Nat /\ n \in Int
  BY LenProperties DEF Position
<1>2. \A i \in 1..n : p[i] \in Key
  BY <1>1, ElementOfSeq DEF Position
<1>3. /\ SubSeq(p, 1, n) \in Seq(Key)
      /\ Len(SubSeq(p, 1, n)) = IF 1 <= n THEN n - 1 + 1 ELSE 0
      /\ \A i \in 1..n - 1 + 1 : SubSeq(p, 1, n)[i] = p[1 + i - 1]
  BY <1>1, <1>2, SubSeqProperties, SMT
<1> QED
  BY <1>1, <1>3 DEF Position

LEMMA Suffix ==
  ASSUME NEW p \in Position, NEW n \in 0..Len(p)
  PROVE  /\ SubSeq(p, n + 1, Len(p)) \in Position
         /\ Len(SubSeq(p, n + 1, Len(p))) = Len(p) - n
         /\ \A i \in 1..Len(p) - n : SubSeq(p, n + 1, Len(p))[i] = p[n + i]
<1>1. Len(p) \in Nat /\ n \in Int
  BY LenProperties DEF Position
<1>2. \A i \in n + 1..Len(p) : p[i] \in Key
  BY <1>1, ElementOfSeq DEF Position
<1>3. /\ SubSeq(p, n + 1, Len(p)) \in Seq(Key)
      /\ Len(SubSeq(p, n + 1, Len(p))) = IF n + 1 <= Len(p) THEN Len(p) - (n + 1) + 1 ELSE 0
      /\ \A i \in 1..Len(p) - (n + 1) + 1 : SubSeq(p, n + 1, Len(p))[i] = p[n + 1 + i - 1]
  BY <1>1, <1>2, SubSeqProperties, SMT
<1> QED
  BY <1>1, <1>3 DEF Position

LEMMA Equal ==
  ASSUME NEW p \in Position, NEW q \in Position,
         Len(p) = Len(q), \A i \in 1..Len(p) : p[i] = q[i]
  PROVE  p = q
  BY SeqEqual DEF Position

LEMMA WithinMeans ==
  ASSUME NEW p \in Position, NEW q \in Position
  PROVE  /\ Within(p, q) <=> Len(p) <= Len(q) /\ SubSeq(q, 1, Len(p)) = p
         /\ Within(p, q) <=> Len(p) <= Len(q) /\ \A i \in 1..Len(p) : q[i] = p[i]
<1>1. Len(p) \in Nat /\ Len(q) \in Nat
  BY LenProperties DEF Position
<1>2. Within(p, q) <=> Len(p) <= Len(q) /\ SubSeq(q, 1, Len(p)) = p
  <2>1. SubSeq(q, 1, Len(q)) = q
    BY SubSeqFull DEF Position
  <2>2. CASE Len(p) = Len(q)
    BY <1>1, <2>1, <2>2 DEF Within, Below
  <2>3. CASE Len(p) # Len(q)
    BY <1>1, <2>3 DEF Within, Below
  <2> QED
    BY <2>2, <2>3
<1>3. ASSUME Len(p) <= Len(q)
      PROVE  SubSeq(q, 1, Len(p)) = p <=> \A i \in 1..Len(p) : q[i] = p[i]
  <2> DEFINE s == SubSeq(q, 1, Len(p))
  <2>1. Len(p) \in 0..Len(q)
    BY <1>1, <1>3
  <2>2. s \in Position /\ Len(s) = Len(p) /\ \A i \in 1..Len(p) : s[i] = q[i]
    BY <2>1, Prefix
  <2> HIDE DEF s
  <2>3. (\A i \in 1..Len(p) : q[i] = p[i]) => s = p
    BY <2>2, Equal
  <2>4. s = p => \A i \in 1..Len(p) : q[i] = p[i]
    BY <2>2
  <2> QED
    BY <2>3, <2>4 DEF s
<1> QED
  BY <1>2, <1>3

LEMMA WithinSelf == ASSUME NEW p \in Position PROVE Within(p, p) BY DEF Within

LEMMA WithinTransitive ==
  ASSUME NEW p \in Position, NEW q \in Position, NEW r \in Position,
         Within(p, q), Within(q, r)
  PROVE  Within(p, r)
<1>1. Len(p) \in Nat /\ Len(q) \in Nat /\ Len(r) \in Nat
  BY LenProperties DEF Position
<1> QED
  BY <1>1, WithinMeans

(* Of two positions a third is within, one is within the other.            *)
LEMMA WithinBoth ==
  ASSUME NEW p \in Position, NEW q \in Position, NEW r \in Position,
         Within(p, r), Within(q, r), Len(p) <= Len(q)
  PROVE  Within(p, q)
<1>1. Len(p) \in Nat /\ Len(q) \in Nat /\ Len(r) \in Nat
  BY LenProperties DEF Position
<1> QED
  BY <1>1, WithinMeans

LEMMA WithinSameLength ==
  ASSUME NEW p \in Position, NEW q \in Position,
         Within(p, q), Len(p) = Len(q)
  PROVE  p = q
<1>1. \A i \in 1..Len(p) : p[i] = q[i]
  BY WithinMeans
<1> QED
  BY <1>1, Equal

LEMMA Joined ==
  ASSUME NEW p \in Position, NEW s \in Position
  PROVE  /\ p \o s \in Position /\ Within(p, p \o s)
         /\ Len(p \o s) = Len(p) + Len(s)
         /\ SubSeq(p \o s, Len(p) + 1, Len(p \o s)) = s
         /\ \A i \in 1..Len(p) : (p \o s)[i] = p[i]
         /\ \A i \in 1..Len(s) : (p \o s)[Len(p) + i] = s[i]
<1>1. Len(p) \in Nat /\ Len(s) \in Nat
  BY LenProperties DEF Position
<1>2. /\ p \o s \in Position
      /\ Len(p \o s) = Len(p) + Len(s)
      /\ \A i \in 1..Len(p) + Len(s) :
           (p \o s)[i] = IF i <= Len(p) THEN p[i] ELSE s[i - Len(p)]
  BY ConcatProperties DEF Position
<1>3. \A i \in 1..Len(p) : (p \o s)[i] = p[i]
  BY <1>1, <1>2
<1>4. \A i \in 1..Len(s) : (p \o s)[Len(p) + i] = s[i]
  BY <1>1, <1>2
<1>5. Within(p, p \o s)
  <2>1. Len(p) <= Len(p \o s)
    BY <1>1, <1>2
  <2> QED
    BY <2>1, <1>2, <1>3, WithinMeans
<1>6. SubSeq(p \o s, Len(p) + 1, Len(p \o s)) = s
  <2> DEFINE t == SubSeq(p \o s, Len(p) + 1, Len(p \o s))
  <2>1. Len(p) \in 0..Len(p \o s) /\ Len(p \o s) - Len(p) = Len(s)
    BY <1>1, <1>2
  <2>2. t \in Position /\ Len(t) = Len(s) /\ \A i \in 1..Len(s) : t[i] = (p \o s)[Len(p) + i]
    BY <2>1, <1>2, Suffix
  <2> QED
    BY <2>2, <1>4, Equal
<1> QED
  BY <1>2, <1>3, <1>4, <1>5, <1>6

LEMMA Split ==
  ASSUME NEW p \in Position, NEW q \in Position, Within(p, q)
  PROVE  /\ SubSeq(q, Len(p) + 1, Len(q)) \in Position
         /\ q = p \o SubSeq(q, Len(p) + 1, Len(q))
<1> DEFINE s == SubSeq(q, Len(p) + 1, Len(q))
<1>1. Len(p) \in Nat /\ Len(q) \in Nat /\ Len(p) <= Len(q) /\ \A i \in 1..Len(p) : q[i] = p[i]
  BY WithinMeans, LenProperties DEF Position
<1>2. Len(p) \in 0..Len(q)
  BY <1>1
<1>3. s \in Position /\ Len(s) = Len(q) - Len(p) /\ \A i \in 1..Len(q) - Len(p) : s[i] = q[Len(p) + i]
  BY <1>2, Suffix
<1> HIDE DEF s
<1>4. /\ p \o s \in Position /\ Len(p \o s) = Len(q)
      /\ \A i \in 1..Len(p) : (p \o s)[i] = p[i]
      /\ \A i \in 1..Len(s) : (p \o s)[Len(p) + i] = s[i]
  BY <1>1, <1>3, Joined
<1>5. ASSUME NEW i \in 1..Len(q) PROVE (p \o s)[i] = q[i]
  <2>1. CASE i <= Len(p)
    <3>1. i \in 1..Len(p)
      BY <1>1, <2>1
    <3> QED
      BY <3>1, <1>1, <1>4
  <2>2. CASE ~(i <= Len(p))
    <3>1. i - Len(p) \in 1..Len(s) /\ Len(p) + (i - Len(p)) = i
      BY <1>1, <1>3, <2>2
    <3>2. (p \o s)[Len(p) + (i - Len(p))] = s[i - Len(p)] /\ s[i - Len(p)] = q[Len(p) + (i - Len(p))]
      BY <3>1, <1>3, <1>4
    <3> QED
      BY <3>1, <3>2
  <2> QED
    BY <2>1, <2>2
<1>6. p \o s = q
  BY <1>4, <1>5, Equal
<1> QED
  BY <1>3, <1>6 DEF s

LEMMA Above ==
  ASSUME NEW p \in Position, p # <<>>
  PROVE  /\ Len(p) \in Nat \ {0}
         /\ Parent(p) \in Position /\ Len(Parent(p)) = Len(p) - 1
         /\ Within(Parent(p), p)
         /\ Last(p) \in Key /\ p = Append(Parent(p), Last(p))
<1>1. Len(p) \in Nat \ {0}
  BY EmptySeq DEF Position
<1>2. Len(p) - 1 \in 0..Len(p)
  BY <1>1
<1>3. /\ Parent(p) \in Position /\ Len(Parent(p)) = Len(p) - 1
      /\ \A i \in 1..Len(p) - 1 : Parent(p)[i] = p[i]
  BY <1>2, Prefix DEF Parent
<1>4. Within(Parent(p), p)
  <2>1. Len(Parent(p)) <= Len(p)
    BY <1>1, <1>3
  <2> QED
    BY <2>1, <1>3, WithinMeans
<1>5. Last(p) \in Key /\ Last(p) = p[Len(p)]
  <2>1. Len(p) \in 1..Len(p)
    BY <1>1
  <2> QED
    BY <2>1, ElementOfSeq DEF Last, Position
<1>6. p = Append(Parent(p), Last(p))
  <2> DEFINE q == Append(Parent(p), Last(p))
  <2>1. /\ q \in Position /\ Len(q) = Len(Parent(p)) + 1
        /\ \A i \in 1..Len(Parent(p)) : q[i] = Parent(p)[i]
        /\ q[Len(Parent(p)) + 1] = Last(p)
    BY <1>3, <1>5, AppendProperties DEF Position
  <2> HIDE DEF q
  <2>2. Len(q) = Len(p)
    BY <2>1, <1>1, <1>3
  <2>3. \A i \in 1..Len(p) : q[i] = p[i]
    <3> TAKE i \in 1..Len(p)
    <3>1. CASE i = Len(p)
      BY <3>1, <2>1, <1>1, <1>3, <1>5
    <3>2. CASE i # Len(p)
      <4>1. i \in 1..Len(p) - 1
        BY <3>2, <1>1
      <4> QED
        BY <4>1, <2>1, <1>3
    <3> QED
      BY <3>1, <3>2
  <2>4. q = p
    BY <2>1, <2>2, <2>3, Equal
  <2> QED
    BY <2>4 DEF q
<1> QED
  BY <1>1, <1>3, <1>4, <1>5, <1>6

LEMMA AppendAbove ==
  ASSUME NEW p \in Position, NEW k
  PROVE  /\ Append(p, k) # <<>>
         /\ Parent(Append(p, k)) = p /\ Last(Append(p, k)) = k
         /\ k \in Key => Append(p, k) \in Position
<1> DEFINE S == Key \cup {k}
           q == Append(p, k)
           r == SubSeq(q, 1, Len(q) - 1)
<1>1. p \in Seq(S) /\ k \in S
  <2>1. Key \subseteq S
    OBVIOUS
  <2> HIDE DEF S
  <2> QED
    BY <2>1, SeqMonotonic DEF Position, S
<1> HIDE DEF S
<1>2. /\ q \in Seq(S) /\ q # <<>> /\ Len(q) = Len(p) + 1
      /\ \A i \in 1..Len(p) : q[i] = p[i]
      /\ q[Len(p) + 1] = k
  BY <1>1, AppendProperties
<1>3. Len(p) \in Nat /\ Len(q) - 1 = Len(p)
  BY <1>1, <1>2, LenProperties
<1> HIDE DEF q
<1>4. \A i \in 1..Len(p) : q[i] \in S
  BY <1>1, <1>2, ElementOfSeq
<1>5. r = SubSeq(q, 1, Len(p))
  BY <1>3
<1> HIDE DEF r
<1>6. /\ r \in Seq(S) /\ Len(r) = IF 1 <= Len(p) THEN Len(p) - 1 + 1 ELSE 0
      /\ \A i \in 1..Len(p) - 1 + 1 : r[i] = q[1 + i - 1]
  BY <1>3, <1>4, <1>5, SubSeqProperties, SMT
<1>7. Len(r) = Len(p) /\ \A i \in 1..Len(r) : r[i] = p[i]
  BY <1>2, <1>3, <1>6
<1>8. r = p
  BY <1>1, <1>6, <1>7, SeqEqual
<1>9. k \in Key => q \in Position
  BY AppendProperties DEF q, Position
<1> QED
  BY <1>2, <1>3, <1>8, <1>9 DEF q, r, Parent, Last

(* A position within another hangs in it, or is the same.                  *)
LEMMA WithinParent ==
  ASSUME NEW p \in Position, NEW q \in Position, Within(p, q), p # q
  PROVE  q # <<>> /\ Within(p, Parent(q))
<1>1. Len(p) \in Nat /\ Len(q) \in Nat
  BY LenProperties DEF Position
<1>2. Len(p) < Len(q)
  BY <1>1, WithinMeans, WithinSameLength
<1>3. q # <<>>
  BY <1>1, <1>2, EmptySeq DEF Position
<1>4. Parent(q) \in Position /\ Within(Parent(q), q) /\ Len(p) <= Len(Parent(q))
  BY <1>1, <1>2, <1>3, Above
<1> QED
  BY <1>3, <1>4, WithinBoth

LEMMA JoinedAbove ==
  ASSUME NEW p \in Position, NEW s \in Position, s # <<>>
  PROVE  /\ p \o s # <<>>
         /\ Parent(p \o s) = p \o Parent(s)
         /\ Last(p \o s) = Last(s)
<1>1. PICK u \in Position, k \in Key : u = Parent(s) /\ k = Last(s) /\ s = Append(u, k)
  BY Above
<1>2. \A v \in Position : Append(v, k) = v \o <<k>>
  BY AppendIsConcat DEF Position
<1>3. <<k>> \in Position
  BY DEF Position
<1>4. p \o u \in Position
  BY Joined
<1>5. p \o (u \o <<k>>) = (p \o u) \o <<k>>
  BY <1>3, ConcatAssociative DEF Position
<1>6. p \o s = Append(p \o u, k)
  BY <1>1, <1>2, <1>4, <1>5
<1>7. /\ Append(p \o u, k) # <<>>
      /\ Parent(Append(p \o u, k)) = p \o u /\ Last(Append(p \o u, k)) = k
  BY <1>4, AppendAbove
<1> QED
  BY <1>1, <1>6, <1>7

LEMMA Root ==
  ASSUME NEW p \in Position
  PROVE  /\ <<>> \in Position /\ Len(<<>>) = 0
         /\ Len(p) = 0 <=> p = <<>>
         /\ Within(<<>>, p)
         /\ Within(p, <<>>) => p = <<>>
         /\ p \o <<>> = p
<1>1. <<>> \in Position /\ Len(<<>>) = 0 /\ (Len(p) = 0 <=> p = <<>>) /\ Len(p) \in Nat
  BY EmptySeq, LenProperties DEF Position
<1>2. Within(<<>>, p)
  BY <1>1, WithinMeans
<1>3. Within(p, <<>>) => p = <<>>
  BY <1>1, WithinMeans
<1> QED
  BY <1>1, <1>2, <1>3, ConcatEmptySeq DEF Position

LEMMA ChildrenMeans ==
  ASSUME NEW d, DOMAIN d \subseteq Position, NEW p \in Position, NEW q \in DOMAIN d
  PROVE  q \in Children(d, p) <=> q # <<>> /\ Parent(q) = p
<1>1. Len(p) \in Nat /\ q \in Position /\ Len(q) \in Nat
  BY LenProperties DEF Position
<1>2. q \in Children(d, p) <=> Len(q) = Len(p) + 1 /\ SubSeq(q, 1, Len(p)) = p
  BY <1>1 DEF Children, Below
<1>3. ASSUME Len(q) = Len(p) + 1, SubSeq(q, 1, Len(p)) = p
      PROVE  q # <<>> /\ Parent(q) = p
  <2>1. q # <<>>
    BY <1>1, <1>3, Root
  <2>2. Len(q) - 1 = Len(p)
    BY <1>1, <1>3
  <2> QED
    BY <2>1, <2>2, <1>3 DEF Parent
<1>4. ASSUME q # <<>>, Parent(q) = p
      PROVE  Len(q) = Len(p) + 1 /\ SubSeq(q, 1, Len(p)) = p
  <2>1. Len(p) = Len(q) - 1
    BY <1>1, <1>4, Above
  <2>2. Len(q) = Len(p) + 1
    BY <1>1, <2>1
  <2> QED
    BY <2>1, <2>2, <1>4 DEF Parent
<1> QED
  BY <1>2, <1>3, <1>4

------------------------------------------------------------------------------
(* The rules of a path, one after another *)

(* Induction, said with a set.                                             *)
LEMMA UpTo ==
  ASSUME NEW N \in Nat, NEW S, 0 \in S,
         \A n \in 1..N : n - 1 \in S => n \in S
  PROVE  \A n \in 0..N : n \in S
<1> SUFFICES ASSUME {n \in 0..N : n \notin S} # {} PROVE FALSE
  OBVIOUS
<1> DEFINE T == {n \in 0..N : n \notin S}
           R == {ss \in Nat \X Nat : ss[1] < ss[2]}
<1>1. IsWellFoundedOn(R, Nat)
  BY NatLessThanWellFounded DEF OpToRel
<1>2. T \subseteq Nat /\ T # {}
  OBVIOUS
<1> HIDE DEF R
<1>3. PICK m \in T : \A n \in T : ~ (<<n, m>> \in R)
  BY <1>1, <1>2, WFMin
<1>4. \A n \in T : ~ (n < m)
  BY <1>2, <1>3 DEF R
<1>5. m \in 1..N
  BY <1>3
<1>6. m - 1 \in 0..N /\ m - 1 < m
  BY <1>5
<1>7. m - 1 \in S
  BY <1>4, <1>6
<1> QED
  BY <1>3, <1>5, <1>7

(* The recursive functions of SubscriptAll and Locations are what their    *)
(* equations say.                                                          *)
Subscripted(d, rules, from, at) ==
  /\ at[0] = from
  /\ \A n \in 1..Len(rules) : \A q :
       q \in at[n] <=> \E r \in at[n - 1] : q \in Subscript(d, rules[n], r)
  /\ SubscriptAll(d, rules, from) = at[Len(rules)]
Executed(d, rules, at) ==
  /\ at[0] = {<<>>}
  /\ \A n \in 1..Len(rules) : at[n] = Execute(d, rules[n], at[n - 1])
  /\ Locations(d, rules) = at[Len(rules)]

LEMMA SubscriptAllSteps ==
  ASSUME NEW d, NEW rules, Len(rules) \in Nat, NEW from
  PROVE  \E at : Subscripted(d, rules, from, at)
<1> DEFINE N == Len(rules)
           Step(n, ps) == UNION {Subscript(d, rules[n], p) : p \in ps}
           Fits(m, f) == f = [n \in 0..m |-> IF n = 0 THEN from ELSE Step(n, f[n - 1])]
           S == {m \in 0..N : \E f : Fits(m, f)}
           at == CHOOSE f : Fits(N, f)
<1>1. SubscriptAll(d, rules, from) = at[N]
  BY Zenon DEF SubscriptAll
<1> HIDE DEF Step
<1>2. 0 \in S
  <2> DEFINE f == [n \in 0..0 |-> from]
  <2>1. f = [n \in 0..0 |-> IF n = 0 THEN from ELSE Step(n, f[n - 1])]
    OBVIOUS
  <2>2. Fits(0, f)
    BY <2>1
  <2> HIDE DEF f, Fits
  <2> QED
    BY <2>2
<1>3. ASSUME NEW n \in 1..N, n - 1 \in S PROVE n \in S
  <2>1. PICK f : Fits(n - 1, f)
    BY <1>3
  <2> DEFINE g == [j \in 0..n |-> IF j = n THEN Step(n, f[n - 1]) ELSE f[j]]
  <2>2. ASSUME NEW j \in 0..n
        PROVE  g[j] = IF j = 0 THEN from ELSE Step(j, g[j - 1])
    <3>1. CASE j = 0
      BY <3>1, <2>1
    <3>2. CASE j = n
      BY <3>2
    <3>3. CASE j # 0 /\ j # n
      <4>1. j \in 0..n - 1 /\ j - 1 \in 0..n - 1 /\ j - 1 \in 0..n /\ j - 1 # n
        BY <3>3
      <4>2. f[j] = Step(j, f[j - 1])
        BY <4>1, <2>1, <3>3
      <4> QED
        BY <4>1, <4>2, <3>3
    <3> QED
      BY <3>1, <3>2, <3>3
  <2>3. g = [j \in 0..n |-> IF j = 0 THEN from ELSE Step(j, g[j - 1])]
    BY <2>2
  <2> HIDE DEF g
  <2>4. Fits(n, g)
    BY <2>3
  <2> QED
    BY <2>4
<1>4. N \in S
  <2> HIDE DEF S
  <2>1. \A n \in 0..N : n \in S
    BY <1>2, <1>3, UpTo
  <2> QED
    BY <2>1
<1>5. \E f : Fits(N, f)
  BY <1>4
<1>6. Fits(N, at)
  BY <1>5, Zenon
<1> HIDE DEF at
<1>7. /\ at[0] = from
      /\ \A n \in 1..N : at[n] = Step(n, at[n - 1])
  BY <1>6
<1>8. \A n, ps : \A q : q \in Step(n, ps) <=> \E r \in ps : q \in Subscript(d, rules[n], r)
  BY DEF Step
<1>9. \A n \in 1..N : \A q : q \in at[n] <=> \E r \in at[n - 1] : q \in Subscript(d, rules[n], r)
  BY <1>7, <1>8
<1>10. at[0] = from
  BY <1>7
<1> QED
  BY <1>1, <1>9, <1>10 DEF Subscripted

LEMMA LocationsSteps ==
  ASSUME NEW d, NEW rules, Len(rules) \in Nat
  PROVE  \E at : Executed(d, rules, at)
<1> DEFINE N == Len(rules)
           from == {<<>>}
           Step(n, ps) == Execute(d, rules[n], ps)
           Fits(m, f) == f = [n \in 0..m |-> IF n = 0 THEN from ELSE Step(n, f[n - 1])]
           S == {m \in 0..N : \E f : Fits(m, f)}
           at == CHOOSE f : Fits(N, f)
<1>1. Locations(d, rules) = at[N]
  BY Zenon DEF Locations
<1> HIDE DEF Step, from
<1>2. 0 \in S
  <2> DEFINE f == [n \in 0..0 |-> from]
  <2>1. f = [n \in 0..0 |-> IF n = 0 THEN from ELSE Step(n, f[n - 1])]
    OBVIOUS
  <2>2. Fits(0, f)
    BY <2>1
  <2> HIDE DEF f, Fits
  <2> QED
    BY <2>2
<1>3. ASSUME NEW n \in 1..N, n - 1 \in S PROVE n \in S
  <2>1. PICK f : Fits(n - 1, f)
    BY <1>3
  <2> DEFINE g == [j \in 0..n |-> IF j = n THEN Step(n, f[n - 1]) ELSE f[j]]
  <2>2. ASSUME NEW j \in 0..n
        PROVE  g[j] = IF j = 0 THEN from ELSE Step(j, g[j - 1])
    <3>1. CASE j = 0
      BY <3>1, <2>1
    <3>2. CASE j = n
      BY <3>2
    <3>3. CASE j # 0 /\ j # n
      <4>1. j \in 0..n - 1 /\ j - 1 \in 0..n - 1 /\ j - 1 \in 0..n /\ j - 1 # n
        BY <3>3
      <4>2. f[j] = Step(j, f[j - 1])
        BY <4>1, <2>1, <3>3
      <4> QED
        BY <4>1, <4>2, <3>3
    <3> QED
      BY <3>1, <3>2, <3>3
  <2>3. g = [j \in 0..n |-> IF j = 0 THEN from ELSE Step(j, g[j - 1])]
    BY <2>2
  <2> HIDE DEF g
  <2>4. Fits(n, g)
    BY <2>3
  <2> QED
    BY <2>4
<1>4. N \in S
  <2> HIDE DEF S
  <2>1. \A n \in 0..N : n \in S
    BY <1>2, <1>3, UpTo
  <2> QED
    BY <2>1
<1>5. \E f : Fits(N, f)
  BY <1>4
<1>6. Fits(N, at)
  BY <1>5, Zenon
<1> HIDE DEF at
<1>7. /\ at[0] = from
      /\ \A n \in 1..N : at[n] = Step(n, at[n - 1])
  BY <1>6
<1> QED
  BY <1>1, <1>7 DEF Step, from, Executed

------------------------------------------------------------------------------
(* What a rule chooses *)

LEMMA DocumentFacts ==
  ASSUME NEW d, IsDocument(d)
  PROVE  /\ DOMAIN d \subseteq Position /\ <<>> \in DOMAIN d
         /\ \A p \in DOMAIN d : p # <<>> =>
              /\ Parent(p) \in DOMAIN d /\ d[Parent(p)] \in Node
              /\ d[Parent(p)] = "list" =>
                   Last(p) \in {ToString(i) : i \in 0..Cardinality(Children(d, Parent(p))) - 1}
  BY DEF IsDocument, Position, Key

LEMMA PrefixOfPrefix ==
  ASSUME NEW p \in Position, NEW n \in 0..Len(p), NEW m \in 0..n
  PROVE  SubSeq(SubSeq(p, 1, n), 1, m) = SubSeq(p, 1, m)
<1> DEFINE q == SubSeq(p, 1, n)
           r == SubSeq(q, 1, m)
           s == SubSeq(p, 1, m)
<1>1. Len(p) \in Nat
  BY LenProperties DEF Position
<1>2. q \in Position /\ Len(q) = n /\ \A i \in 1..n : q[i] = p[i]
  BY Prefix
<1>3. m \in 0..Len(p) /\ m \in 0..Len(q)
  BY <1>1, <1>2
<1>4. s \in Position /\ Len(s) = m /\ \A i \in 1..m : s[i] = p[i]
  BY <1>3, Prefix
<1> HIDE DEF q
<1>5. r \in Position /\ Len(r) = m /\ \A i \in 1..m : r[i] = q[i]
  BY <1>2, <1>3, Prefix
<1> HIDE DEF r, s
<1>6. \A i \in 1..m : r[i] = s[i]
  BY <1>2, <1>4, <1>5
<1>7. r = s
  BY <1>4, <1>5, <1>6, Equal
<1> QED
  BY <1>7 DEF q, r, s

LEMMA PrefixAbove ==
  ASSUME NEW p \in Position, NEW n \in 1..Len(p)
  PROVE  SubSeq(p, 1, n) # <<>> /\ Parent(SubSeq(p, 1, n)) = SubSeq(p, 1, n - 1)
<1>1. n \in 0..Len(p) /\ n - 1 \in 0..n
  OBVIOUS
<1>2. Len(SubSeq(p, 1, n)) = n /\ SubSeq(p, 1, n) \in Position
  BY <1>1, Prefix
<1>3. SubSeq(SubSeq(p, 1, n), 1, n - 1) = SubSeq(p, 1, n - 1)
  BY <1>1, PrefixOfPrefix
<1>4. SubSeq(p, 1, n) # <<>>
  BY <1>2, Root
<1> QED
  BY <1>2, <1>3, <1>4 DEF Parent

(* A document, or what is left of one: all hangs in a map or a list, but a *)
(* list may have gaps.                                                     *)
Tree(d) ==
  /\ DOMAIN d \subseteq Position /\ <<>> \in DOMAIN d
  /\ d = [p \in DOMAIN d |-> d[p]]
  /\ \A p \in DOMAIN d : p # <<>> => Parent(p) \in DOMAIN d /\ d[Parent(p)] \in Node

LEMMA DocumentIsTree ==
  ASSUME NEW d, IsDocument(d)
  PROVE  Tree(d)
  BY DocumentFacts DEF Tree, IsDocument

(* All that is above a node of a tree is there.                            *)
LEMMA AboveIsThere ==
  ASSUME NEW d, Tree(d), NEW p \in DOMAIN d, NEW q \in Position, Within(q, p)
  PROVE  q \in DOMAIN d
<1>1. p \in Position /\ Len(p) \in Nat /\ Len(q) \in Nat
  BY LenProperties DEF Position, Tree
<1> DEFINE N == Len(p)
           S == {k \in 0..N : SubSeq(p, 1, N - k) \in DOMAIN d}
<1>2. 0 \in S
  <2>1. N - 0 = N /\ 0 \in 0..N
    BY <1>1
  <2>2. SubSeq(p, 1, N) \in DOMAIN d
    BY <1>1, SubSeqFull DEF Position
  <2> QED
    BY <2>1, <2>2
<1>3. ASSUME NEW k \in 1..N, k - 1 \in S PROVE k \in S
  <2>1. N - (k - 1) \in 1..N /\ (N - (k - 1)) - 1 = N - k
    BY <1>1, <1>3
  <2>2. /\ SubSeq(p, 1, N - (k - 1)) # <<>>
        /\ Parent(SubSeq(p, 1, N - (k - 1))) = SubSeq(p, 1, N - k)
    BY <1>1, <2>1, PrefixAbove
  <2>3. SubSeq(p, 1, N - (k - 1)) \in DOMAIN d
    BY <1>3
  <2>4. SubSeq(p, 1, N - k) \in DOMAIN d
    BY <2>2, <2>3 DEF Tree
  <2> QED
    BY <2>4
<1>4. \A k \in 0..N : k \in S
  <2> HIDE DEF S
  <2> QED
    BY <1>1, <1>2, <1>3, UpTo
<1>5. Len(q) <= N /\ SubSeq(p, 1, Len(q)) = q
  BY <1>1, WithinMeans
<1>6. N - Len(q) \in 0..N /\ N - (N - Len(q)) = Len(q)
  BY <1>1, <1>5
<1>7. SubSeq(p, 1, N - (N - Len(q))) \in DOMAIN d
  BY <1>4, <1>6
<1> QED
  BY <1>5, <1>6, <1>7

LEMMA SubscriptMeans ==
  ASSUME NEW d, IsDocument(d), NEW rule \in SubscriptType, NEW p \in Position
  PROVE  Subscript(d, rule, p) = {q \in Position : q # <<>> /\ Parent(q) = p /\ Selects(d, rule, q)}
<1> DEFINE C == {q \in Position : q # <<>> /\ Parent(q) = p /\ Selects(d, rule, q)}
<1>1. DOMAIN d \subseteq Position
  BY DocumentFacts
<1>2. CASE p \notin DOMAIN d \/ d[p] \notin Node
  <2>1. Subscript(d, rule, p) = {}
    BY <1>2 DEF Subscript
  <2>2. C = {}
    BY <1>2 DEF Selects
  <2> QED
    BY <2>1, <2>2
<1>3. CASE p \in DOMAIN d /\ d[p] \in Node
  <2>1. CASE rule.rule = "all"
    <3>1. Subscript(d, rule, p) = Children(d, p)
      BY <1>3, <2>1 DEF Subscript
    <3>2. \A q \in Position : Parent(q) = p => (Selects(d, rule, q) <=> q \in DOMAIN d)
      BY <1>3, <2>1 DEF Selects
    <3>3. \A q \in DOMAIN d : q \in Children(d, p) <=> q # <<>> /\ Parent(q) = p
      BY <1>1, ChildrenMeans
    <3>4. Children(d, p) \subseteq DOMAIN d
      BY DEF Children
    <3> QED
      BY <3>1, <3>2, <3>3, <3>4, <1>1
  <2>2. CASE rule.rule = "name"
    <3>1. rule.key \in Key
      <4>1. rule # All
        BY <2>2 DEF All
      <4>2. rule.key \in STRING
        BY <4>1 DEF SubscriptType
      <4> QED
        BY <4>2 DEF Key
    <3>2. ASSUME NEW q \in Position, NEW k
          PROVE  q = Append(p, k) <=> q # <<>> /\ Parent(q) = p /\ Last(q) = k
      <4>1. q # <<>> => q = Append(Parent(q), Last(q))
        BY Above
      <4> QED
        BY <4>1, AppendAbove
    <3>3. CASE d[p] = "map"
      <4>1. Subscript(d, rule, p) = {Append(p, rule.key)}
        BY <1>3, <2>2, <3>3 DEF Subscript
      <4>2. Append(p, rule.key) \in Position
        BY <3>1, AppendAbove
      <4>3. \A q \in Position : Parent(q) = p => (Selects(d, rule, q) <=> Last(q) = rule.key)
        BY <1>3, <2>2, <3>3 DEF Selects
      <4>4. \A q \in Position : q = Append(p, rule.key)
                                 <=> q # <<>> /\ Parent(q) = p /\ Last(q) = rule.key
        BY <3>2
      <4> QED
        BY <4>1, <4>2, <4>3, <4>4
    <3>4. CASE d[p] = "list"
      <4>1. Subscript(d, rule, p) = {Append(p, Atoi(rule.key))} \cap DOMAIN d
        BY <1>3, <2>2, <3>4 DEF Subscript
      <4>2. \A q \in Position : Parent(q) = p =>
              (Selects(d, rule, q) <=> q \in DOMAIN d /\ Last(q) = Atoi(rule.key))
        BY <1>3, <2>2, <3>4 DEF Selects
      <4>3. \A q \in DOMAIN d : q = Append(p, Atoi(rule.key))
                                  <=> q # <<>> /\ Parent(q) = p /\ Last(q) = Atoi(rule.key)
        BY <1>1, <3>2
      <4> QED
        BY <1>1, <4>1, <4>2, <4>3
    <3> QED
      BY <1>3, <3>3, <3>4 DEF Node
  <2> QED
    BY <2>1, <2>2 DEF SubscriptType, All
<1> QED
  BY <1>2, <1>3

LEMMA PrefixesOfParent ==
  ASSUME NEW q \in Position, q # <<>>
  PROVE  /\ Parent(q) \in Position /\ Len(Parent(q)) = Len(q) - 1 /\ Len(q) \in Nat \ {0}
         /\ \A m \in 0..Len(q) - 1 : SubSeq(Parent(q), 1, m) = SubSeq(q, 1, m)
         /\ SubSeq(q, 1, Len(q)) = q
<1>1. Parent(q) \in Position /\ Len(Parent(q)) = Len(q) - 1 /\ Len(q) \in Nat \ {0}
  BY Above
<1>2. Len(q) - 1 \in 0..Len(q)
  BY <1>1
<1>3. \A m \in 0..Len(q) - 1 : SubSeq(Parent(q), 1, m) = SubSeq(q, 1, m)
  BY <1>2, PrefixOfPrefix DEF Parent
<1>4. SubSeq(q, 1, Len(q)) = q
  BY SubSeqFull DEF Position
<1> QED
  BY <1>1, <1>3, <1>4

(* What Means says of one rule and the position it has led to.             *)
FilterFound(d, rule, p) ==
  {q \in DOMAIN d :
     /\ Len(q) = Len(p) + Len(rule.path)
     /\ SubSeq(q, 1, Len(p)) = p
     /\ \A j \in 1..Len(rule.path) : Selects(d, rule.path[j], SubSeq(q, 1, Len(p) + j))}
Chosen(d, rule, p) ==
  /\ Selects(d, rule, p)
  /\ rule.rule = "filter" =>
       \E f \in FilterFound(d, rule, p) :
          FilterFound(d, rule, p) = {f} /\ d[f] = rule.equals

LEMMA SubscriptChosen ==
  ASSUME NEW d, NEW rule \in SubscriptType, NEW p
  PROVE  Chosen(d, rule, p) <=> Selects(d, rule, p)
<1>1. rule.rule # "filter"
  BY DEF SubscriptType, All
<1> QED
  BY <1>1 DEF Chosen

(* Where the first n rules lead from p.                                    *)
Reach(d, rules, p, n) ==
  {q \in Position : /\ Len(q) = Len(p) + n /\ Within(p, q)
                    /\ \A j \in 1..n : Chosen(d, rules[j], SubSeq(q, 1, Len(p) + j))}

LEMMA ReachOn ==
  ASSUME NEW d, NEW rules, NEW p \in Position, NEW n \in Nat \ {0}, NEW q \in Position
  PROVE  q \in Reach(d, rules, p, n)
           <=> q # <<>> /\ Parent(q) \in Reach(d, rules, p, n - 1) /\ Chosen(d, rules[n], q)
<1>1. Len(p) \in Nat /\ Len(q) \in Nat
  BY LenProperties DEF Position
<1>2. CASE Len(q) # Len(p) + n
  <2>1. q # <<>> => Len(Parent(q)) # Len(p) + (n - 1)
    BY <1>1, <1>2, Above
  <2> QED
    BY <1>2, <2>1 DEF Reach
<1>3. CASE Len(q) = Len(p) + n
  <2>1. q # <<>>
    BY <1>1, <1>3, Root
  <2>2. Parent(q) \in Position /\ Len(Parent(q)) = Len(p) + (n - 1)
    <3>1. Parent(q) \in Position /\ Len(Parent(q)) = Len(q) - 1
      BY <2>1, Above
    <3>2. Len(q) - 1 = Len(p) + (n - 1)
      BY <1>1, <1>3
    <3> QED
      BY <3>1, <3>2
  <2>3. \A j \in 1..n - 1 : SubSeq(Parent(q), 1, Len(p) + j) = SubSeq(q, 1, Len(p) + j)
    <3> TAKE j \in 1..n - 1
    <3>1. Len(p) + j \in 0..Len(q) - 1
      BY <1>1, <1>3
    <3> QED
      BY <3>1, <2>1, PrefixesOfParent
  <2>4. SubSeq(q, 1, Len(p) + n) = q
    BY <1>3, <2>1, PrefixesOfParent
  <2>5. Within(p, q) <=> Within(p, Parent(q))
    <3>1. Within(Parent(q), q) /\ p # q
      BY <1>1, <1>3, <2>1, Above
    <3> QED
      BY <2>2, <3>1, WithinParent, WithinTransitive
  <2>6. (\A j \in 1..n : Chosen(d, rules[j], SubSeq(q, 1, Len(p) + j)))
          <=> /\ \A j \in 1..n - 1 : Chosen(d, rules[j], SubSeq(q, 1, Len(p) + j))
              /\ Chosen(d, rules[n], SubSeq(q, 1, Len(p) + n))
    <3>1. \A j \in 1..n : j \in 1..n - 1 \/ j = n
      OBVIOUS
    <3>2. n \in 1..n /\ \A j \in 1..n - 1 : j \in 1..n
      OBVIOUS
    <3> QED
      BY <3>1, <3>2
  <2>7. q \in Reach(d, rules, p, n)
          <=> Within(p, q) /\ \A j \in 1..n : Chosen(d, rules[j], SubSeq(q, 1, Len(p) + j))
    BY <1>3 DEF Reach
  <2>8. Parent(q) \in Reach(d, rules, p, n - 1)
          <=> /\ Within(p, Parent(q))
              /\ \A j \in 1..n - 1 : Chosen(d, rules[j], SubSeq(Parent(q), 1, Len(p) + j))
    BY <2>2 DEF Reach
  <2>9. (\A j \in 1..n - 1 : Chosen(d, rules[j], SubSeq(Parent(q), 1, Len(p) + j)))
          <=> \A j \in 1..n - 1 : Chosen(d, rules[j], SubSeq(q, 1, Len(p) + j))
    BY <2>3
  <2> QED
    BY <2>1, <2>4, <2>5, <2>6, <2>7, <2>8, <2>9
<1> QED
  BY <1>2, <1>3

LEMMA SubscriptAllMeans ==
  ASSUME NEW d, IsDocument(d), NEW rules \in Seq(SubscriptType), NEW p \in Position
  PROVE  SubscriptAll(d, rules, {p}) = Reach(d, rules, p, Len(rules))
<1> DEFINE N == Len(rules)
<1>1. N \in Nat /\ Len(p) \in Nat
  BY LenProperties DEF Position
<1> HIDE DEF N
<1>2. PICK at : /\ at[0] = {p}
                /\ \A n \in 1..N : \A q :
                      q \in at[n] <=> \E r \in at[n - 1] : q \in Subscript(d, rules[n], r)
                /\ SubscriptAll(d, rules, {p}) = at[N]
  <2>1. PICK at : Subscripted(d, rules, {p}, at)
    BY <1>1, SubscriptAllSteps DEF N
  <2> QED
    BY <2>1 DEF N, Subscripted
<1> DEFINE S == {n \in 0..N : at[n] = Reach(d, rules, p, n)}
<1>3. 0 \in S
  <2>1. p \in Reach(d, rules, p, 0)
    BY <1>1, WithinSelf DEF Reach
  <2>2. \A q \in Reach(d, rules, p, 0) : q = p
    BY <1>1, WithinSameLength DEF Reach
  <2>3. at[0] = Reach(d, rules, p, 0)
    BY <1>2, <2>1, <2>2
  <2>4. 0 \in 0..N
    BY <1>1
  <2> QED
    BY <2>3, <2>4
<1>4. ASSUME NEW n \in 1..N, n - 1 \in S PROVE n \in S
  <2>1. rules[n] \in SubscriptType
    BY <1>4, ElementOfSeq DEF N
  <2>2. at[n - 1] = Reach(d, rules, p, n - 1)
    BY <1>4
  <2>3. at[n - 1] \subseteq Position
    BY <2>2 DEF Reach
  <2>4. \A q : q \in at[n] <=> \E r \in at[n - 1] : q \in Subscript(d, rules[n], r)
    BY <1>2, <1>4
  <2>5. \A r \in Position : Subscript(d, rules[n], r) =
          {q \in Position : q # <<>> /\ Parent(q) = r /\ Chosen(d, rules[n], q)}
    BY <2>1, SubscriptMeans, SubscriptChosen
  <2>6. \A q : q \in at[n] <=>
          /\ q \in Position /\ q # <<>> /\ Parent(q) \in at[n - 1] /\ Chosen(d, rules[n], q)
    BY <2>3, <2>4, <2>5
  <2>7. n \in Nat \ {0}
    BY <1>4
  <2>8. \A q \in Position : q \in Reach(d, rules, p, n)
           <=> q # <<>> /\ Parent(q) \in Reach(d, rules, p, n - 1) /\ Chosen(d, rules[n], q)
    BY <2>7, ReachOn
  <2>9. Reach(d, rules, p, n) \subseteq Position
    BY DEF Reach
  <2>10. at[n] = Reach(d, rules, p, n)
    BY <2>2, <2>6, <2>8, <2>9
  <2> QED
    BY <2>10
<1>5. \A n \in 0..N : n \in S
  <2> HIDE DEF S
  <2> QED
    BY <1>1, <1>3, <1>4, UpTo
<1> QED
  BY <1>1, <1>2, <1>5 DEF N

LEMMA FoundMeans ==
  ASSUME NEW d, IsDocument(d), NEW p \in Position,
         NEW rule, rule.path \in Seq(SubscriptType)
  PROVE  Found(d, rule, p) = FilterFound(d, rule, p)
<1> DEFINE path == rule.path
<1>1. Len(path) \in Nat /\ Len(p) \in Nat
  BY LenProperties DEF Position
<1>2. Found(d, rule, p) = Reach(d, path, p, Len(path)) \cap DOMAIN d
  BY SubscriptAllMeans DEF Found
<1>3. \A j \in 1..Len(path) : \A q : Chosen(d, path[j], q) <=> Selects(d, path[j], q)
  BY ElementOfSeq, SubscriptChosen
<1>4. ASSUME NEW q \in DOMAIN d, Len(q) = Len(p) + Len(path)
      PROVE  Within(p, q) <=> SubSeq(q, 1, Len(p)) = p
  <2>1. q \in Position /\ Len(p) <= Len(q)
    BY <1>1, <1>4, DocumentFacts
  <2> QED
    BY <2>1, WithinMeans
<1>5. \A q \in DOMAIN d : q \in Reach(d, path, p, Len(path)) <=> q \in FilterFound(d, rule, p)
  <2> TAKE q \in DOMAIN d
  <2>1. q \in Position
    BY DocumentFacts
  <2> QED
    BY <2>1, <1>3, <1>4 DEF Reach, FilterFound
<1>6. FilterFound(d, rule, p) \subseteq DOMAIN d
  BY DEF FilterFound
<1> QED
  BY <1>2, <1>5, <1>6

LEMMA ExecuteMeans ==
  ASSUME NEW d, IsDocument(d), NEW rule \in RuleType, NEW ps \in SUBSET Position, NEW q
  PROVE  q \in Execute(d, rule, ps)
           <=> q \in Position /\ q # <<>> /\ Parent(q) \in ps /\ Chosen(d, rule, q)
<1>1. CASE rule \in SubscriptType
  <2>1. rule.rule # "filter"
    BY <1>1 DEF SubscriptType, All
  <2>2. q \in Execute(d, rule, ps) <=> \E p \in ps : q \in Subscript(d, rule, p)
    BY <2>1 DEF Execute
  <2>3. \A p \in ps : q \in Subscript(d, rule, p)
                        <=> q \in Position /\ q # <<>> /\ Parent(q) = p /\ Selects(d, rule, q)
    BY <1>1, SubscriptMeans
  <2>4. Chosen(d, rule, q) <=> Selects(d, rule, q)
    BY <1>1, SubscriptChosen
  <2> QED
    BY <2>2, <2>3, <2>4
<1>2. CASE rule \in [rule : {"filter"}, path : Seq(SubscriptType), equals : STRING]
  <2>1. rule.rule = "filter" /\ rule.path \in Seq(SubscriptType)
    BY <1>2
  <2>2. q \in Execute(d, rule, ps) <=> \E p \in ps : q \in Filter(d, rule, p)
    BY <2>1 DEF Execute
  <2>3. DOMAIN d \subseteq Position
    BY DocumentFacts
  <2>4. q \in Position => Found(d, rule, q) = FilterFound(d, rule, q)
    BY <2>1, FoundMeans
  <2>5. \A p \in ps : q \in Filter(d, rule, p)
          <=> /\ q \in DOMAIN d /\ q # <<>> /\ Parent(q) = p
              /\ \E f \in FilterFound(d, rule, q) : FilterFound(d, rule, q) = {f} /\ d[f] = rule.equals
    <3> TAKE p \in ps
    <3>1. q \in Filter(d, rule, p)
            <=> /\ q \in Children(d, p)
                /\ \E f \in Found(d, rule, q) : Found(d, rule, q) = {f} /\ d[f] = rule.equals
      BY DEF Filter
    <3>2. q \in Children(d, p) <=> q \in DOMAIN d /\ q # <<>> /\ Parent(q) = p
      <4>1. Children(d, p) \subseteq DOMAIN d
        BY DEF Children
      <4> QED
        BY <4>1, <2>3, ChildrenMeans
    <3> QED
      BY <3>1, <3>2, <2>3, <2>4
  <2>6. q # <<>> => (Selects(d, rule, q) <=> q \in DOMAIN d)
    <3>1. q \in DOMAIN d /\ q # <<>> => Parent(q) \in DOMAIN d /\ d[Parent(q)] \in Node
      BY DocumentFacts
    <3> QED
      BY <3>1, <2>1 DEF Selects
  <2> QED
    BY <2>1, <2>2, <2>3, <2>5, <2>6 DEF Chosen
<1> QED
  BY <1>1, <1>2 DEF RuleType

LEMMA LocationsReach ==
  ASSUME NEW d, IsDocument(d), NEW rules \in Seq(RuleType)
  PROVE  Locations(d, rules) = Reach(d, rules, <<>>, Len(rules))
<1> DEFINE N == Len(rules)
<1>1. N \in Nat /\ <<>> \in Position
  BY LenProperties, EmptySeq DEF Position
<1> HIDE DEF N
<1>2. PICK at : /\ at[0] = {<<>>}
                /\ \A n \in 1..N : at[n] = Execute(d, rules[n], at[n - 1])
                /\ Locations(d, rules) = at[N]
  <2>1. PICK at : Executed(d, rules, at)
    BY <1>1, LocationsSteps DEF N
  <2> QED
    BY <2>1 DEF N, Executed
<1> DEFINE S == {n \in 0..N : at[n] = Reach(d, rules, <<>>, n)}
<1>3. 0 \in S
  <2>1. <<>> \in Reach(d, rules, <<>>, 0)
    BY <1>1, WithinSelf, Root DEF Reach
  <2>2. \A q \in Reach(d, rules, <<>>, 0) : q = <<>>
    BY <1>1, WithinSameLength, Root DEF Reach
  <2>3. at[0] = Reach(d, rules, <<>>, 0)
    BY <1>2, <2>1, <2>2
  <2>4. 0 \in 0..N
    BY <1>1
  <2> QED
    BY <2>3, <2>4
<1>4. ASSUME NEW n \in 1..N, n - 1 \in S PROVE n \in S
  <2>1. rules[n] \in RuleType
    BY <1>4, ElementOfSeq DEF N
  <2>2. at[n - 1] = Reach(d, rules, <<>>, n - 1)
    BY <1>4
  <2>3. at[n - 1] \in SUBSET Position
    BY <2>2 DEF Reach
  <2>4. at[n] = Execute(d, rules[n], at[n - 1])
    BY <1>2, <1>4
  <2>5. \A q : q \in at[n] <=>
          q \in Position /\ q # <<>> /\ Parent(q) \in at[n - 1] /\ Chosen(d, rules[n], q)
    BY <2>1, <2>3, <2>4, ExecuteMeans
  <2>6. n \in Nat \ {0}
    BY <1>4
  <2>7. \A q \in Position : q \in Reach(d, rules, <<>>, n)
           <=> q # <<>> /\ Parent(q) \in Reach(d, rules, <<>>, n - 1) /\ Chosen(d, rules[n], q)
    BY <1>1, <2>6, ReachOn
  <2>8. Reach(d, rules, <<>>, n) \subseteq Position
    BY DEF Reach
  <2>9. at[n] = Reach(d, rules, <<>>, n)
    BY <2>2, <2>5, <2>7, <2>8
  <2> QED
    BY <2>9
<1>5. \A n \in 0..N : n \in S
  <2> HIDE DEF S
  <2> QED
    BY <1>1, <1>3, <1>4, UpTo
<1> QED
  BY <1>1, <1>2, <1>5 DEF N

LEMMA MeansReach ==
  ASSUME NEW d, NEW rules \in Seq(RuleType), NEW p \in Position
  PROVE  Means(d, rules, p) <=> p \in Reach(d, rules, <<>>, Len(rules))
<1>1. Len(<<>>) = 0 /\ Within(<<>>, p) /\ Len(rules) \in Nat
  BY Root, LenProperties
<1>2. CASE Len(p) # Len(rules)
  BY <1>1, <1>2 DEF Means, Reach
<1>3. CASE Len(p) = Len(rules)
  <2>1. p \in Reach(d, rules, <<>>, Len(rules))
          <=> \A i \in 1..Len(rules) : Chosen(d, rules[i], SubSeq(p, 1, i))
    BY <1>1, <1>3 DEF Reach
  <2>2. ASSUME NEW i \in 1..Len(rules)
        PROVE  FilterFound(d, rules[i], SubSeq(p, 1, i)) =
                 {q \in DOMAIN d :
                   /\ Len(q) = i + Len(rules[i].path)
                   /\ SubSeq(q, 1, i) = SubSeq(p, 1, i)
                   /\ \A j \in 1..Len(rules[i].path) :
                        Selects(d, rules[i].path[j], SubSeq(q, 1, i + j))}
    <3>1. i \in 0..Len(p)
      BY <1>3
    <3>2. Len(SubSeq(p, 1, i)) = i
      BY <3>1, Prefix
    <3> QED
      BY <3>2 DEF FilterFound
  <2>3. Means(d, rules, p) <=>
          /\ \A i \in 1..Len(rules) : Selects(d, rules[i], SubSeq(p, 1, i))
          /\ \A i \in 1..Len(rules) : rules[i].rule = "filter" =>
               \E f \in FilterFound(d, rules[i], SubSeq(p, 1, i)) :
                  /\ FilterFound(d, rules[i], SubSeq(p, 1, i)) = {f}
                  /\ d[f] = rules[i].equals
    BY <1>3, <2>2 DEF Means
  <2> QED
    BY <2>1, <2>3 DEF Chosen
<1> QED
  BY <1>2, <1>3

LEMMA LocationsMean ==
  ASSUME NEW d, IsDocument(d), NEW rules \in Seq(RuleType)
  PROVE  Locations(d, rules) = {p \in Position : Means(d, rules, p)}
<1>1. Reach(d, rules, <<>>, Len(rules)) \subseteq Position
  BY DEF Reach
<1> QED
  BY <1>1, LocationsReach, MeansReach

LEMMA CandidatesTyped ==
  ASSUME NEW d, IsDocument(d), NEW rules \in Seq(RuleType)
  PROVE  Candidates(d, rules) \subseteq Position
<1>1. \A i \in 1..Len(rules) : rules[i].rule = "name" => rules[i].key \in Key
  <2> TAKE i \in 1..Len(rules)
  <2>1. rules[i] \in RuleType
    BY ElementOfSeq
  <2> QED
    BY <2>1 DEF RuleType, SubscriptType, All, Key
<1>2. Names(rules) \subseteq Key
  BY <1>1 DEF Names
<1>3. DOMAIN d \subseteq Position
  BY DocumentFacts
<1>4. \A p \in DOMAIN d, k \in Names(rules) : Append(p, k) \in Position
  BY <1>2, <1>3, AppendAbove
<1>5. \A q \in Candidates(d, rules) :
        q \in DOMAIN d \/ \E p \in DOMAIN d, k \in Names(rules) : q = Append(p, k)
  BY DEF Candidates
<1> QED
  BY <1>3, <1>4, <1>5

(* A path means no position but those of the document and the free entries *)
(* of its maps.                                                            *)
LEMMA MeansCandidate ==
  ASSUME NEW d, IsDocument(d), NEW rules \in Seq(RuleType),
         NEW p \in Position, Means(d, rules, p)
  PROVE  /\ p \in Candidates(d, rules) /\ Len(p) = Len(rules)
         /\ p # <<>> => /\ Parent(p) \in DOMAIN d /\ d[Parent(p)] \in Node
                        /\ d[Parent(p)] = "list" => p \in DOMAIN d
<1>1. Len(p) = Len(rules) /\ Len(p) \in Nat
  BY LenProperties DEF Means, Position
<1>2. CASE p = <<>>
  BY <1>1, <1>2, DocumentFacts DEF Candidates
<1>3. CASE p # <<>>
  <2>1. Len(p) \in 1..Len(rules) /\ SubSeq(p, 1, Len(p)) = p
    BY <1>1, <1>3, PrefixesOfParent
  <2> DEFINE rule == rules[Len(p)]
  <2>2. Selects(d, rule, p)
    BY <2>1 DEF Means
  <2>3. rule \in RuleType
    BY <2>1, ElementOfSeq
  <2>4. rule.rule \in {"all", "name", "filter"}
    BY <2>3 DEF RuleType, SubscriptType, All
  <2>5. p = Append(Parent(p), Last(p))
    BY <1>3, Above
  <2>6. rule.rule = "name" => rule.key \in Names(rules)
    BY <2>1 DEF Names
  <2> HIDE DEF rule
  <2>7. /\ Parent(p) \in DOMAIN d /\ d[Parent(p)] \in Node
        /\ \/ p \in DOMAIN d
           \/ d[Parent(p)] = "map" /\ rule.rule = "name" /\ Last(p) = rule.key
    BY <2>2, <2>4 DEF Selects
  <2>8. p \in Candidates(d, rules)
    BY <2>5, <2>6, <2>7 DEF Candidates
  <2> QED
    BY <1>1, <2>7, <2>8
<1> QED
  BY <1>2, <1>3

LEMMA PathMeansPositions ==
  ASSUME NEW d, IsDocument(d), NEW rules \in Seq(RuleType)
  PROVE  Locations(d, rules) = {p \in Candidates(d, rules) : Means(d, rules, p)}
  BY LocationsMean, CandidatesTyped, MeansCandidate

------------------------------------------------------------------------------
(* What CutAt and PutAt leave alone *)

Kept(d, L) == {q \in DOMAIN d : \A l \in L : ~Within(l, q)}

LEMMA CutFrame ==
  ASSUME NEW d, NEW L
  PROVE  /\ DOMAIN CutAt(d, L) = {<<>>} \cup Kept(d, L)
         /\ \A q \in DOMAIN CutAt(d, L) : CutAt(d, L)[q] = d[q]
         /\ CutAt(d, L) = [q \in DOMAIN CutAt(d, L) |-> CutAt(d, L)[q]]
  BY DEF CutAt, Kept

(* What hangs in something kept is kept, or cut itself.                    *)
LEMMA KeptChildren ==
  ASSUME NEW d, IsDocument(d), NEW L \in SUBSET Position, <<>> \notin L,
         NEW q \in DOMAIN d, q # <<>>
  PROVE  /\ q \in Kept(d, L) => Parent(q) \in {<<>>} \cup Kept(d, L)
         /\ Parent(q) \in {<<>>} \cup Kept(d, L) => q \in Kept(d, L) \/ q \in L
<1>1. /\ q \in Position /\ Parent(q) \in Position /\ Parent(q) \in DOMAIN d
      /\ Within(Parent(q), q)
  BY DocumentFacts, Above
<1>2. q \in Kept(d, L) => Parent(q) \in Kept(d, L)
  BY <1>1, WithinTransitive DEF Kept
<1>3. ASSUME Parent(q) \in {<<>>} \cup Kept(d, L), q \notin L
      PROVE  q \in Kept(d, L)
  <2> SUFFICES ASSUME NEW l \in L, Within(l, q) PROVE FALSE
    BY DEF Kept
  <2>1. Within(l, Parent(q))
    BY <1>1, <1>3, WithinParent
  <2>2. Parent(q) # <<>>
    BY <1>1, <2>1, Root
  <2> QED
    BY <1>3, <2>1, <2>2 DEF Kept
<1> QED
  BY <1>2, <1>3

LEMMA CutDocument ==
  ASSUME NEW d, IsDocument(d), NEW L \in SUBSET Position, \A l \in L : InMap(d, l)
  PROVE  IsDocument(CutAt(d, L))
<1> DEFINE e == CutAt(d, L)
<1>1. /\ DOMAIN e = {<<>>} \cup Kept(d, L)
      /\ \A q \in DOMAIN e : e[q] = d[q]
      /\ e = [q \in DOMAIN e |-> e[q]]
  BY CutFrame
<1> HIDE DEF e
<1>2. <<>> \notin L /\ Kept(d, L) \subseteq DOMAIN d /\ <<>> \in DOMAIN d
  BY DocumentFacts DEF InMap, Kept
<1>3. DOMAIN e \subseteq Seq(STRING) /\ DOMAIN e \subseteq Position
  BY <1>1, <1>2 DEF IsDocument, Position, Key
<1>4. ASSUME NEW p \in DOMAIN e, p # <<>>
      PROVE  /\ Parent(p) \in DOMAIN e /\ e[Parent(p)] \in Node
             /\ e[Parent(p)] = "list" =>
                  Last(p) \in {ToString(i) : i \in 0..Cardinality(Children(e, Parent(p))) - 1}
  <2>1. p \in DOMAIN d /\ p \in Kept(d, L)
    BY <1>1, <1>2, <1>4
  <2>2. Parent(p) \in DOMAIN e
    BY <1>1, <1>2, <1>4, <2>1, KeptChildren
  <2>3. e[Parent(p)] = d[Parent(p)]
    BY <1>1, <2>2
  <2>4. ASSUME d[Parent(p)] = "list"
        PROVE  Children(e, Parent(p)) = Children(d, Parent(p))
    <3>1. Parent(p) \in Position /\ DOMAIN d \subseteq Position
      BY <1>3, <2>2, DocumentFacts
    <3>2. ASSUME NEW q \in DOMAIN d, q # <<>>, Parent(q) = Parent(p)
          PROVE  q \in DOMAIN e
      <4>1. q \notin L
        BY <2>4, <3>2 DEF InMap
      <4> QED
        BY <1>1, <1>2, <2>2, <3>2, <4>1, KeptChildren
    <3>3. \A q : q \in Children(d, Parent(p)) <=> q \in DOMAIN d /\ q # <<>> /\ Parent(q) = Parent(p)
      <4>1. Children(d, Parent(p)) \subseteq DOMAIN d
        BY DEF Children
      <4> QED
        BY <4>1, <3>1, ChildrenMeans
    <3>4. \A q : q \in Children(e, Parent(p)) <=> q \in DOMAIN e /\ q # <<>> /\ Parent(q) = Parent(p)
      <4>1. Children(e, Parent(p)) \subseteq DOMAIN e
        BY DEF Children
      <4> QED
        BY <4>1, <3>1, <1>3, ChildrenMeans
    <3>5. DOMAIN e \subseteq DOMAIN d
      BY <1>1, <1>2
    <3> QED
      BY <3>2, <3>3, <3>4, <3>5
  <2>5. /\ d[Parent(p)] \in Node
        /\ d[Parent(p)] = "list" =>
             Last(p) \in {ToString(i) : i \in 0..Cardinality(Children(d, Parent(p))) - 1}
    BY <2>1, <1>4, DocumentFacts
  <2> QED
    BY <2>2, <2>3, <2>4, <2>5
<1>5. IsDocument(e)
  BY <1>1, <1>3, <1>4 DEF IsDocument
<1> QED
  BY <1>5 DEF e

(* Set: the positions of a value put at l are l, joined with its own; no   *)
(* two places of one length share one.                                     *)
Put(L, x) == {l \o s : l \in L, s \in DOMAIN x}

LEMMA PutMember ==
  ASSUME NEW L, NEW x
  PROVE  \A q : q \in Put(L, x) <=> \E l \in L : \E s \in DOMAIN x : q = l \o s
  BY DEF Put

LEMMA PutDomain ==
  ASSUME NEW d, NEW L, NEW x
  PROVE  /\ DOMAIN PutAt(d, L, x) = {<<>>} \cup Kept(d, L) \cup Put(L, x)
         /\ PutAt(d, L, x) = [q \in DOMAIN PutAt(d, L, x) |-> PutAt(d, L, x)[q]]
<1> DEFINE kept == CutAt(d, L)
           Of(q) == CHOOSE l \in L : Within(l, q)
           Value(q) == x[SubSeq(q, Len(Of(q)) + 1, Len(q))]
<1>1. PutAt(d, L, x) = [q \in DOMAIN kept \cup Put(L, x) |-> IF q \in DOMAIN kept THEN kept[q] ELSE Value(q)]
  BY DEF PutAt, Put
<1>2. DOMAIN kept = {<<>>} \cup Kept(d, L)
  BY CutFrame
<1> HIDE DEF kept, Value
<1> QED
  BY <1>1, <1>2

LEMMA PutFrame ==
  ASSUME NEW d, DOMAIN d \subseteq Position, NEW x, DOMAIN x \subseteq Position,
         NEW n \in Nat \ {0}, NEW L \in SUBSET Position, \A l \in L : Len(l) = n
  PROVE  /\ \A q \in DOMAIN CutAt(d, L) : PutAt(d, L, x)[q] = d[q]
         /\ \A l \in L, s \in DOMAIN x :
              l \o s \notin DOMAIN CutAt(d, L) /\ PutAt(d, L, x)[l \o s] = x[s]
<1> DEFINE kept == CutAt(d, L)
           e == PutAt(d, L, x)
           Of(q) == CHOOSE l \in L : Within(l, q)
           Value(q) == x[SubSeq(q, Len(Of(q)) + 1, Len(q))]
<1>1. e = [q \in DOMAIN kept \cup Put(L, x) |-> IF q \in DOMAIN kept THEN kept[q] ELSE Value(q)]
  BY DEF PutAt, Put
<1>2. DOMAIN kept = {<<>>} \cup Kept(d, L) /\ \A q \in DOMAIN kept : kept[q] = d[q]
  BY CutFrame
<1> HIDE DEF kept, e
<1>3. ASSUME NEW l \in L, NEW s \in DOMAIN x
      PROVE  l \o s \notin DOMAIN kept /\ Value(l \o s) = x[s]
  <2>1. l \in Position /\ s \in Position
    OBVIOUS
  <2>2. /\ l \o s \in Position /\ Within(l, l \o s)
        /\ SubSeq(l \o s, Len(l) + 1, Len(l \o s)) = s
    BY <2>1, Joined
  <2>3. l \o s \notin Kept(d, L)
    BY <2>2 DEF Kept
  <2>4. l \o s # <<>>
    <3>1. l # <<>>
      BY <2>1, Root
    <3>2. Within(l, <<>>) => l = <<>>
      BY <2>1, Root
    <3> QED
      BY <3>1, <3>2, <2>2
  <2>5. Of(l \o s) = l
    <3>1. ASSUME NEW m \in L, Within(m, l \o s) PROVE m = l
      <4>1. m \in Position /\ Len(m) = Len(l) /\ Len(m) <= Len(l)
        OBVIOUS
      <4>2. Within(m, l)
        BY <4>1, <2>1, <2>2, <3>1, WithinBoth
      <4> QED
        BY <4>1, <4>2, <2>1, WithinSameLength
    <3> QED
      BY <3>1, <2>2
  <2> QED
    BY <1>2, <2>2, <2>3, <2>4, <2>5
<1> HIDE DEF Value
<1>5. \A q \in DOMAIN kept : e[q] = d[q]
  BY <1>1, <1>2
<1>6. ASSUME NEW l \in L, NEW s \in DOMAIN x
      PROVE  l \o s \notin DOMAIN kept /\ e[l \o s] = x[s]
  <2>1. l \o s \in Put(L, x)
    BY PutMember
  <2> QED
    BY <1>1, <1>3, <2>1
<1> QED
  BY <1>5, <1>6 DEF e, kept

(* What Set can be given: the locations of a path.                         *)
Settable(d, L, n) ==
  \A l \in L : /\ l \in Position /\ Len(l) = n
               /\ Parent(l) \in DOMAIN d /\ d[Parent(l)] \in Node
               /\ d[Parent(l)] = "list" => l \in DOMAIN d

LEMMA ChildrenAre ==
  ASSUME NEW d, DOMAIN d \subseteq Position, NEW p \in Position
  PROVE  \A q : q \in Children(d, p) <=> q \in DOMAIN d /\ q # <<>> /\ Parent(q) = p
<1>1. Children(d, p) \subseteq DOMAIN d
  BY DEF Children
<1> QED
  BY <1>1, ChildrenMeans

LEMMA PutBeside ==
  ASSUME NEW d, IsDocument(d), NEW x, IsDocument(x), NEW n \in Nat \ {0},
         NEW L, Settable(d, L, n),
         NEW p \in {<<>>} \cup Kept(d, L), d[p] = "list"
  PROVE  Children(PutAt(d, L, x), p) = Children(d, p)
<1> DEFINE e == PutAt(d, L, x)
<1>1. /\ DOMAIN d \subseteq Position /\ <<>> \in DOMAIN d
      /\ DOMAIN x \subseteq Position /\ <<>> \in DOMAIN x
  BY DocumentFacts
<1>2. L \in SUBSET Position /\ (\A l \in L : Len(l) = n) /\ <<>> \notin L
  BY Root DEF Settable
<1>3. DOMAIN e = {<<>>} \cup Kept(d, L) \cup Put(L, x)
  BY PutDomain
<1> HIDE DEF e
<1>4. Kept(d, L) \subseteq DOMAIN d /\ p \in Position
  BY <1>1 DEF Kept
<1>5. DOMAIN e \subseteq Position
  <2>1. \A l \in L, s \in DOMAIN x : l \o s \in Position
    BY <1>1, <1>2, Joined
  <2>2. ASSUME NEW q \in Put(L, x) PROVE q \in Position
    <3>1. PICK l \in L, s \in DOMAIN x : q = l \o s
      BY PutMember
    <3> QED
      BY <3>1, <2>1
  <2> QED
    BY <2>2, <1>1, <1>3, <1>4
<1>6. ASSUME NEW q \in DOMAIN e, q # <<>>, Parent(q) = p PROVE q \in DOMAIN d
  <2>1. CASE q \in Kept(d, L)
    BY <2>1, <1>4
  <2>2. CASE q \in Put(L, x)
    <3>1. PICK l \in L, s \in DOMAIN x : q = l \o s
      BY <2>2, PutMember
    <3>2. l \in Position /\ s \in Position
      BY <1>1, <1>2
    <3>3. CASE s = <<>>
      <4>1. q = l
        BY <3>1, <3>2, <3>3, Root
      <4> QED
        BY <4>1, <1>6 DEF Settable
    <3>4. CASE s # <<>>
      <4>1. p = l \o Parent(s) /\ Parent(s) \in Position
        BY <3>1, <3>2, <3>4, <1>6, JoinedAbove, Above
      <4>2. Within(l, p)
        BY <4>1, <3>2, Joined
      <4>3. p # <<>>
        BY <4>2, <3>2, <1>2, Root
      <4> QED
        BY <4>2, <4>3 DEF Kept
    <3> QED
      BY <3>3, <3>4
  <2> QED
    BY <2>1, <2>2, <1>3, <1>6
<1>7. ASSUME NEW q \in DOMAIN d, q # <<>>, Parent(q) = p PROVE q \in DOMAIN e
  <2>1. q \in Kept(d, L) \/ q \in L
    BY <1>2, <1>7, KeptChildren
  <2>2. ASSUME q \in L PROVE q \in Put(L, x)
    <3>1. q \o <<>> = q
      BY <1>2, <2>2, Root
    <3>2. q \o <<>> \in Put(L, x)
      BY <2>2, <1>1, PutMember
    <3> QED
      BY <3>1, <3>2
  <2> QED
    BY <2>1, <2>2, <1>3
<1>8. /\ \A q : q \in Children(d, p) <=> q \in DOMAIN d /\ q # <<>> /\ Parent(q) = p
      /\ \A q : q \in Children(e, p) <=> q \in DOMAIN e /\ q # <<>> /\ Parent(q) = p
  BY <1>1, <1>4, <1>5, ChildrenAre
<1> QED
  BY <1>6, <1>7, <1>8 DEF e

LEMMA PutPositions ==
  ASSUME NEW d, DOMAIN d \subseteq Position, <<>> \in DOMAIN d,
         NEW x, DOMAIN x \subseteq Position, NEW L \in SUBSET Position
  PROVE  /\ DOMAIN PutAt(d, L, x) \subseteq Position
         /\ \A l \in L, s \in DOMAIN x : l \o s \in DOMAIN PutAt(d, L, x)
<1>1. ASSUME NEW q \in Put(L, x) PROVE q \in Position
  <2>1. PICK l \in L, s \in DOMAIN x : q = l \o s
    BY PutMember
  <2>2. l \in Position /\ s \in Position
    OBVIOUS
  <2> QED
    BY <2>1, <2>2, Joined
<1>2. Kept(d, L) \subseteq Position /\ <<>> \in Position
  BY DEF Kept
<1>3. DOMAIN PutAt(d, L, x) = {<<>>} \cup Kept(d, L) \cup Put(L, x)
  BY PutDomain
<1>4. DOMAIN PutAt(d, L, x) \subseteq Position
  BY <1>1, <1>2, <1>3
<1>5. ASSUME NEW l \in L, NEW s \in DOMAIN x PROVE l \o s \in DOMAIN PutAt(d, L, x)
  <2>1. l \o s \in Put(L, x)
    BY PutMember
  <2> QED
    BY <2>1, <1>3
<1> QED
  BY <1>4, <1>5

(* The children of a position inside what was put are those it had.        *)
LEMMA PutInside ==
  ASSUME NEW d, IsDocument(d), NEW x, IsDocument(x), IsFiniteSet(DOMAIN x),
         NEW n \in Nat \ {0}, NEW L \in SUBSET Position, \A l \in L : Len(l) = n,
         NEW l \in L, NEW s \in DOMAIN x
  PROVE  Cardinality(Children(PutAt(d, L, x), l \o s)) = Cardinality(Children(x, s))
<1> DEFINE e == PutAt(d, L, x)
           S == Children(x, s)
           T == Children(e, l \o s)
           f == [c \in S |-> l \o c]
<1>1. /\ DOMAIN d \subseteq Position /\ <<>> \in DOMAIN d
      /\ DOMAIN x \subseteq Position /\ <<>> \in DOMAIN x
      /\ l \in Position /\ s \in Position /\ l \o s \in Position
      /\ Len(l) \in Nat \ {0} /\ Within(l, l \o s)
  BY DocumentFacts, Joined
<1>2. /\ DOMAIN e \subseteq Position
      /\ \A m \in L, r \in DOMAIN x : m \o r \in DOMAIN e
  BY <1>1, PutPositions
<1>3. DOMAIN e = {<<>>} \cup Kept(d, L) \cup Put(L, x)
  BY PutDomain
<1> HIDE DEF e
<1>4. /\ \A q : q \in S <=> q \in DOMAIN x /\ q # <<>> /\ Parent(q) = s
      /\ \A q : q \in T <=> q \in DOMAIN e /\ q # <<>> /\ Parent(q) = l \o s
  BY <1>1, <1>2, ChildrenAre
<1> HIDE DEF S, T
<1>5. ASSUME NEW c \in S PROVE l \o c \in T
  <2>1. c \in Position /\ c # <<>> /\ Parent(c) = s /\ c \in DOMAIN x
    BY <1>1, <1>4
  <2>2. l \o c # <<>> /\ Parent(l \o c) = l \o s
    BY <1>1, <2>1, JoinedAbove
  <2> QED
    BY <1>2, <1>4, <2>1, <2>2
<1>6. ASSUME NEW c \in S, NEW b \in S, l \o c = l \o b PROVE c = b
  <2>1. c \in Position /\ b \in Position
    BY <1>1, <1>4
  <2>2. /\ SubSeq(l \o c, Len(l) + 1, Len(l \o c)) = c
        /\ SubSeq(l \o b, Len(l) + 1, Len(l \o b)) = b
    BY <1>1, <2>1, Joined
  <2> QED
    BY <2>2, <1>6
<1>7. ASSUME NEW q \in T PROVE \E c \in S : l \o c = q
  <2>1. q \in DOMAIN e /\ q \in Position /\ q # <<>> /\ Parent(q) = l \o s
    BY <1>2, <1>4
  <2>2. Within(l, q)
    <3>1. Within(l \o s, q)
      BY <2>1, Above
    <3> QED
      BY <3>1, <1>1, <2>1, WithinTransitive
  <2>3. q \in Put(L, x)
    BY <1>3, <2>1, <2>2 DEF Kept
  <2>4. PICK m \in L, c \in DOMAIN x : q = m \o c
    BY <2>3, PutMember
  <2>5. m \in Position /\ c \in Position /\ Len(m) = Len(l) /\ Within(m, q)
    <3>1. m \in Position /\ c \in Position
      BY <1>1
    <3> QED
      BY <3>1, <2>4, Joined
  <2>6. m = l
    <3>1. Len(m) <= Len(l)
      BY <1>1, <2>5
    <3>2. Within(m, l)
      BY <3>1, <1>1, <2>1, <2>2, <2>5, WithinBoth
    <3> QED
      BY <3>2, <1>1, <2>5, WithinSameLength
  <2>7. c # <<>>
    <3>1. ASSUME c = <<>> PROVE FALSE
      <4>1. q = l
        BY <3>1, <1>1, <2>4, <2>6, Root
      <4>2. /\ Len(Parent(l)) = Len(l) - 1 /\ Len(l) <= Len(Parent(l))
            /\ Len(Parent(l)) \in Nat
        <5>1. Parent(l) = l \o s /\ l # <<>>
          BY <4>1, <2>1
        <5>2. Within(l, Parent(l)) /\ Parent(l) \in Position
          BY <5>1, <1>1
        <5> QED
          BY <5>1, <5>2, <1>1, Above, WithinMeans, LenProperties DEF Position
      <4> QED
        BY <4>2, <1>1
    <3> QED
      BY <3>1
  <2>8. Parent(c) = s
    <3>1. Parent(q) = l \o Parent(c) /\ Parent(c) \in Position
      BY <1>1, <2>4, <2>5, <2>6, <2>7, JoinedAbove, Above
    <3>2. /\ SubSeq(l \o s, Len(l) + 1, Len(l \o s)) = s
          /\ SubSeq(l \o Parent(c), Len(l) + 1, Len(l \o Parent(c))) = Parent(c)
      BY <1>1, <3>1, Joined
    <3>3. l \o s = l \o Parent(c)
      BY <2>1, <3>1
    <3> QED
      BY <3>2, <3>3
  <2> QED
    BY <1>4, <2>4, <2>6, <2>7, <2>8
<1>8. f \in Bijection(S, T)
  <2>1. f \in [S -> T]
    BY <1>5
  <2>2. \A a, b \in S : f[a] = f[b] => a = b
    BY <1>6
  <2>3. \A t \in T : \E c \in S : f[c] = t
    BY <1>7
  <2> HIDE DEF f
  <2> QED
    BY <2>1, <2>2, <2>3, Fun_IsBij
<1>9. IsFiniteSet(S)
  <2>1. S \in SUBSET DOMAIN x
    BY <1>4
  <2> QED
    BY <2>1, FS_Subset
<1>10. ExistsBijection(S, T)
  BY <1>8 DEF ExistsBijection
<1>11. Cardinality(T) = Cardinality(S)
  BY <1>9, <1>10, FS_Bijection
<1> QED
  BY <1>11 DEF S, T, e

LEMMA PutDocument ==
  ASSUME NEW d, IsDocument(d), NEW x, IsDocument(x), IsFiniteSet(DOMAIN x),
         NEW n \in Nat \ {0}, NEW L, Settable(d, L, n)
  PROVE  IsDocument(PutAt(d, L, x))
<1> DEFINE e == PutAt(d, L, x)
           Hangs(p) == /\ Parent(p) \in DOMAIN e /\ e[Parent(p)] \in Node
                       /\ e[Parent(p)] = "list" =>
                            Last(p) \in {ToString(i) : i \in 0..Cardinality(Children(e, Parent(p))) - 1}
<1>1. /\ DOMAIN d \subseteq Position /\ <<>> \in DOMAIN d
      /\ DOMAIN x \subseteq Position /\ <<>> \in DOMAIN x
  BY DocumentFacts
<1>2. L \in SUBSET Position /\ (\A l \in L : Len(l) = n) /\ <<>> \notin L
  BY Root DEF Settable
<1>3. /\ DOMAIN e \subseteq Position
      /\ \A l \in L, s \in DOMAIN x : l \o s \in DOMAIN e
  BY <1>1, <1>2, PutPositions
<1>4. DOMAIN e = {<<>>} \cup Kept(d, L) \cup Put(L, x) /\ e = [q \in DOMAIN e |-> e[q]]
  BY PutDomain
<1>5. DOMAIN CutAt(d, L) = {<<>>} \cup Kept(d, L)
  BY CutFrame
<1>6. /\ \A q \in {<<>>} \cup Kept(d, L) : e[q] = d[q]
      /\ \A l \in L, s \in DOMAIN x : e[l \o s] = x[s]
  BY <1>1, <1>2, <1>5, PutFrame
<1>7. \A p \in {<<>>} \cup Kept(d, L) : d[p] = "list" => Children(e, p) = Children(d, p)
  BY PutBeside
<1>8. \A l \in L, s \in DOMAIN x : Cardinality(Children(e, l \o s)) = Cardinality(Children(x, s))
  BY <1>2, PutInside
<1> HIDE DEF e
<1>9. Kept(d, L) \subseteq DOMAIN d
  BY DEF Kept
<1>10. ASSUME NEW p \in DOMAIN d, p # <<>>, Parent(p) \in {<<>>} \cup Kept(d, L)
       PROVE  Hangs(p)
  <2>1. /\ Parent(p) \in DOMAIN d /\ d[Parent(p)] \in Node
        /\ d[Parent(p)] = "list" =>
             Last(p) \in {ToString(i) : i \in 0..Cardinality(Children(d, Parent(p))) - 1}
    BY <1>10, DocumentFacts
  <2>2. e[Parent(p)] = d[Parent(p)] /\ Parent(p) \in DOMAIN e
    BY <1>4, <1>6, <1>10
  <2>3. d[Parent(p)] = "list" => Children(e, Parent(p)) = Children(d, Parent(p))
    BY <1>7, <1>10
  <2> QED
    BY <2>1, <2>2, <2>3
<1>11. ASSUME NEW l \in L
       PROVE  l # <<>> /\ Parent(l) \in {<<>>} \cup Kept(d, L)
  <2>1. l \in Position /\ l # <<>> /\ Len(l) = n /\ Parent(l) \in DOMAIN d
    BY <1>2 DEF Settable
  <2>2. Parent(l) \in Position /\ Len(Parent(l)) = n - 1
    BY <2>1, Above
  <2>3. \A m \in L : ~Within(m, Parent(l))
    <3> SUFFICES ASSUME NEW m \in L, Within(m, Parent(l)) PROVE FALSE
      OBVIOUS
    <3>1. m \in Position /\ Len(m) = n
      BY <1>2
    <3>2. Len(m) <= Len(Parent(l))
      BY <3>1, <2>2, WithinMeans
    <3> QED
      BY <3>1, <3>2, <2>2
  <2> QED
    BY <2>1, <2>3 DEF Kept
<1>12. ASSUME NEW p \in DOMAIN e, p # <<>> PROVE Hangs(p)
  <2>1. CASE p \in Kept(d, L)
    <3>1. Parent(p) \in {<<>>} \cup Kept(d, L)
      BY <2>1, <1>2, <1>9, <1>12, KeptChildren
    <3> QED
      BY <3>1, <2>1, <1>9, <1>10, <1>12
  <2>2. CASE p \in Put(L, x)
    <3>1. PICK l \in L, s \in DOMAIN x : p = l \o s
      BY <2>2, PutMember
    <3>2. l \in Position /\ s \in Position
      BY <1>1, <1>2
    <3>3. CASE s = <<>>
      <4>1. p = l
        BY <3>1, <3>2, <3>3, Root
      <4>2. /\ Parent(p) \in {<<>>} \cup Kept(d, L)
            /\ d[Parent(p)] \in Node
            /\ d[Parent(p)] = "list" => p \in DOMAIN d
        BY <4>1, <1>11 DEF Settable
      <4>3. CASE p \in DOMAIN d
        BY <4>2, <4>3, <1>10, <1>12
      <4>4. CASE p \notin DOMAIN d
        <5>1. e[Parent(p)] = d[Parent(p)] /\ Parent(p) \in DOMAIN e
          BY <4>2, <1>4, <1>6
        <5> QED
          BY <5>1, <4>2, <4>4
      <4> QED
        BY <4>3, <4>4
    <3>4. CASE s # <<>>
      <4>1. Parent(p) = l \o Parent(s) /\ Last(p) = Last(s)
        BY <3>1, <3>2, <3>4, JoinedAbove
      <4>2. /\ Parent(s) \in DOMAIN x /\ x[Parent(s)] \in Node
            /\ x[Parent(s)] = "list" =>
                 Last(s) \in {ToString(i) : i \in 0..Cardinality(Children(x, Parent(s))) - 1}
        BY <3>4, DocumentFacts
      <4>3. /\ Parent(p) \in DOMAIN e /\ e[Parent(p)] = x[Parent(s)]
            /\ Cardinality(Children(e, Parent(p))) = Cardinality(Children(x, Parent(s)))
        BY <4>1, <4>2, <1>3, <1>6, <1>8
      <4> QED
        BY <4>1, <4>2, <4>3
    <3> QED
      BY <3>3, <3>4
  <2> QED
    BY <2>1, <2>2, <1>4, <1>12
<1>13. DOMAIN e \subseteq Seq(STRING) /\ <<>> \in DOMAIN e
  BY <1>3, <1>4 DEF Position, Key
<1>14. IsDocument(e)
  BY <1>4, <1>12, <1>13 DEF IsDocument
<1> QED
  BY <1>14 DEF e

------------------------------------------------------------------------------
(* What a path finds, and what the calls do there *)

(* The positions above one are the beginnings of it.                       *)
LEMMA WithinPrefix ==
  ASSUME NEW p \in Position, NEW q \in Position
  PROVE  Within(p, q) <=> \E i \in 0..Len(q) : p = SubSeq(q, 1, i)
<1>1. Len(p) \in Nat /\ Len(q) \in Nat
  BY LenProperties DEF Position
<1>2. ASSUME Within(p, q) PROVE \E i \in 0..Len(q) : p = SubSeq(q, 1, i)
  <2>1. Len(p) \in 0..Len(q) /\ p = SubSeq(q, 1, Len(p))
    BY <1>1, <1>2, WithinMeans
  <2> QED
    BY <2>1
<1>3. ASSUME NEW i \in 0..Len(q), p = SubSeq(q, 1, i) PROVE Within(p, q)
  <2>1. Len(p) = i
    BY <1>3, Prefix
  <2>2. Len(p) <= Len(q) /\ SubSeq(q, 1, Len(p)) = p
    BY <1>1, <1>3, <2>1
  <2> QED
    BY <2>2, WithinMeans
<1> QED
  BY <1>2, <1>3

LEMMA GetMeans ==
  ASSUME NEW d, IsDocument(d), NEW rules \in Seq(RuleType)
  PROVE  /\ Locations(d, rules) \subseteq Position
         /\ \A p : p \in Locations(d, rules) <=> p \in Position /\ Means(d, rules, p)
         /\ \A p : p \in Get(d, rules) <=> p \in DOMAIN d /\ Means(d, rules, p)
         /\ \A p \in Locations(d, rules) : Len(p) = Len(rules)
<1>1. Locations(d, rules) = {p \in Position : Means(d, rules, p)}
  BY LocationsMean
<1>2. DOMAIN d \subseteq Position
  BY DocumentFacts
<1>3. \A p : p \in Get(d, rules) <=> p \in Locations(d, rules) /\ p \in DOMAIN d
  BY DEF Get
<1>4. \A p : Means(d, rules, p) => Len(p) = Len(rules)
  BY DEF Means
<1> QED
  BY <1>1, <1>2, <1>3, <1>4

LEMMA LocationsSettable ==
  ASSUME NEW d, IsDocument(d), NEW rules \in Seq(RuleType), rules # <<>>
  PROVE  /\ Len(rules) \in Nat \ {0}
         /\ Settable(d, Locations(d, rules), Len(rules))
<1>1. Len(rules) \in Nat \ {0}
  BY EmptySeq, LenProperties
<1>2. ASSUME NEW p \in Locations(d, rules)
      PROVE  /\ p \in Position /\ Len(p) = Len(rules)
             /\ Parent(p) \in DOMAIN d /\ d[Parent(p)] \in Node
             /\ d[Parent(p)] = "list" => p \in DOMAIN d
  <2>1. p \in Position /\ Means(d, rules, p) /\ Len(p) = Len(rules)
    BY GetMeans
  <2>2. p # <<>>
    BY <2>1, <1>1, Root
  <2> QED
    BY <2>1, <2>2, MeansCandidate
<1> QED
  BY <1>1, <1>2 DEF Settable

(* One step: the document it leaves.                                       *)
Wrote(rules, x) ==
  /\ rules # <<>> /\ doc' = PutAt(doc, Locations(doc, rules), x)
Removed(L) ==
  /\ \A l \in L : InMap(doc, l)
  /\ doc' = CutAt(doc, L)

(* A call that returns is one of three.                                    *)
LEMMA Returns ==
  ASSUME DocumentNext, ~panic'
  PROVE  \E rules \in Paths, x \in Arguments \cup {EmptyMap} :
           /\ call'.path = rules /\ call'.value = x
           /\ \/ call'.op = "set" /\ x \in Arguments /\ Wrote(rules, x)
              \/ call'.op = "delete" /\ Removed(Get(doc, rules))
              \/ call'.op = "deleteIfMatch" /\ Removed(Matching(doc, rules, x))
<1>1. PICK rules \in Paths :
        \/ CallDelete(rules)
        \/ \E x \in Arguments : CallSet(rules, x) \/ CallDeleteIfMatch(rules, x)
  BY DEF DocumentNext
<1>2. CASE CallDelete(rules)
  <2>1. /\ call' = [op |-> "delete", path |-> rules, value |-> EmptyMap]
        /\ ~DeletePanics(doc, Get(doc, rules)) /\ doc' = CutAt(doc, Get(doc, rules))
    BY <1>2 DEF CallDelete, Called, Delete
  <2>2. Removed(Get(doc, rules))
    BY <2>1 DEF Removed, DeletePanics
  <2> QED
    BY <2>1, <2>2
<1>3. ASSUME NEW x \in Arguments, CallSet(rules, x)
      PROVE  call' = [op |-> "set", path |-> rules, value |-> x] /\ Wrote(rules, x)
  BY <1>3 DEF CallSet, Called, Set, Wrote
<1>4. ASSUME NEW x \in Arguments, CallDeleteIfMatch(rules, x)
      PROVE  /\ call' = [op |-> "deleteIfMatch", path |-> rules, value |-> x]
             /\ Removed(Matching(doc, rules, x))
  <2>1. /\ call' = [op |-> "deleteIfMatch", path |-> rules, value |-> x]
        /\ ~DeletePanics(doc, Matching(doc, rules, x)) /\ doc' = CutAt(doc, Matching(doc, rules, x))
    BY <1>4 DEF CallDeleteIfMatch, Called, DeleteIfMatch
  <2> QED
    BY <2>1 DEF Removed, DeletePanics
<1> QED
  BY <1>1, <1>2, <1>3, <1>4

LEMMA MatchingFound ==
  ASSUME NEW d, NEW rules, NEW x
  PROVE  /\ Matching(d, rules, x) \subseteq Get(d, rules)
         /\ Get(d, rules) \subseteq Locations(d, rules) /\ Get(d, rules) \subseteq DOMAIN d
  BY DEF Matching, Get

(* The inductive invariant of the calls: that the document is one.         *)
LEMMA CallsKeepDocuments ==
  ASSUME DocumentTypeOK, [DocumentNext]_documentVars
  PROVE  DocumentTypeOK'
<1> USE DocumentAssumption
<1>1. panic' \in BOOLEAN
  <2>1. CASE UNCHANGED documentVars
    BY <2>1 DEF documentVars, DocumentTypeOK
  <2>2. CASE DocumentNext
    BY <2>2 DEF DocumentNext, CallSet, CallDelete, CallDeleteIfMatch, DocumentTypeOK
  <2> QED
    BY <2>1, <2>2
<1>2. IsDocument(doc')
  <2>1. CASE UNCHANGED documentVars
    BY <2>1 DEF documentVars, DocumentTypeOK
  <2>2. CASE DocumentNext /\ ~panic'
    <3>1. PICK rules \in Paths, x \in Arguments \cup {EmptyMap} :
            \/ x \in Arguments /\ Wrote(rules, x)
            \/ Removed(Get(doc, rules))
            \/ Removed(Matching(doc, rules, x))
      BY <2>2, Returns
    <3>2. rules \in Seq(RuleType) /\ IsDocument(doc)
      BY DEF DocumentAssumption, DocumentTypeOK
    <3>3. CASE x \in Arguments /\ Wrote(rules, x)
      <4>1. IsDocument(x) /\ IsFiniteSet(DOMAIN x)
        BY <3>3 DEF DocumentAssumption
      <4>2. rules # <<>> /\ doc' = PutAt(doc, Locations(doc, rules), x)
        BY <3>3 DEF Wrote
      <4> QED
        BY <4>1, <4>2, <3>2, LocationsSettable, PutDocument
    <3>4. ASSUME NEW L, L \subseteq Get(doc, rules), Removed(L) PROVE IsDocument(doc')
      <4>1. L \in SUBSET Position
        BY <3>2, <3>4, MatchingFound, GetMeans
      <4> QED
        BY <4>1, <3>2, <3>4, CutDocument DEF Removed
    <3> QED
      BY <3>1, <3>3, <3>4, MatchingFound
  <2>3. CASE DocumentNext /\ panic'
    <3>1. ~panic
      BY <2>3 DEF DocumentNext, CallSet, CallDelete, CallDeleteIfMatch
    <3>2. doc' = doc
      BY <3>1, <2>3 DEF DocumentNext, CallSet, CallDelete, CallDeleteIfMatch
    <3> QED
      BY <3>2 DEF DocumentTypeOK
  <2> QED
    BY <2>1, <2>2, <2>3
<1> QED
  BY <1>1, <1>2 DEF DocumentTypeOK

(* Every call leaves a document: each node hangs in a map or a list, and   *)
(* no list gets a gap (jsonpath.go 92-133).                                *)
THEOREM DocumentTypes == DocumentSpec => []DocumentTypeOK
<1>1. DocumentInit => DocumentTypeOK
  BY DocumentAssumption DEF DocumentInit, DocumentTypeOK, DocumentAssumption
<1>2. DocumentTypeOK /\ [DocumentNext]_documentVars => DocumentTypeOK'
  BY CallsKeepDocuments
<1> QED
  BY <1>1, <1>2, PTL DEF DocumentSpec

(* The rules of a path, executed one after another, find the positions it  *)
(* means, in every document the calls can make (subscript.go 14-48,        *)
(* filter.go 14-42).                                                       *)
THEOREM PathsFindTheirMeaning == DocumentSpec => []PathsMeanPositions
<1>1. DocumentTypeOK => PathsMeanPositions
  BY DocumentAssumption, PathMeansPositions
     DEF PathsMeanPositions, DocumentTypeOK, DocumentAssumption
<1> QED
  BY <1>1, DocumentTypes, PTL

(* What is within no location of a call is there before it and after it.   *)
LEMMA BesideIsKept ==
  ASSUME NEW d, NEW L, NEW x, NEW n \in Nat \ {0}, IsDocument(d), IsDocument(x),
         L \in SUBSET Position, \A l \in L : Len(l) = n,
         NEW p \in DOMAIN d \cup DOMAIN PutAt(d, L, x), \A l \in L : ~Within(l, p)
  PROVE  p \in DOMAIN d /\ p \in DOMAIN PutAt(d, L, x) /\ PutAt(d, L, x)[p] = d[p]
<1>1. /\ DOMAIN d \subseteq Position /\ <<>> \in DOMAIN d
      /\ DOMAIN x \subseteq Position /\ <<>> \in DOMAIN x
  BY DocumentFacts
<1>2. DOMAIN PutAt(d, L, x) = {<<>>} \cup Kept(d, L) \cup Put(L, x)
  BY PutDomain
<1>3. \A q \in {<<>>} \cup Kept(d, L) : PutAt(d, L, x)[q] = d[q]
  <2>1. \A q \in DOMAIN CutAt(d, L) : PutAt(d, L, x)[q] = d[q]
    BY <1>1, PutFrame
  <2> QED
    BY <2>1, CutFrame
<1>4. p \notin Put(L, x)
  <2> SUFFICES ASSUME NEW l \in L, NEW s \in DOMAIN x, p = l \o s PROVE FALSE
    BY PutMember
  <2>1. l \in Position /\ s \in Position
    BY <1>1
  <2> QED
    BY <2>1, Joined
<1>5. p \in DOMAIN d
  BY <1>1, <1>2, <1>4 DEF Kept
<1>6. p \in Kept(d, L)
  BY <1>5 DEF Kept
<1> QED
  BY <1>2, <1>3, <1>5, <1>6

(* A call changes nothing but what its path selects, and what hangs there  *)
(* (jsonpath.go 92-133).                                                   *)
THEOREM CallsStayLocal == DocumentSpec => CallsAreLocal
<1> DEFINE Beside(p) == \A i \in 0..Len(p) : ~Means(doc, call'.path, SubSeq(p, 1, i))
           Same(p) == p \in DOMAIN doc /\ p \in DOMAIN doc' /\ doc'[p] = doc[p]
<1>1. DocumentTypeOK /\ DocumentTypeOK' /\ DocumentNext
        => (~panic' => \A p \in DOMAIN doc \cup DOMAIN doc' : Beside(p) => Same(p))
  <2> SUFFICES ASSUME DocumentTypeOK, DocumentTypeOK', DocumentNext, ~panic',
                      NEW p \in DOMAIN doc \cup DOMAIN doc', Beside(p)
               PROVE  Same(p)
    OBVIOUS
  <2> USE DocumentAssumption
  <2>1. PICK rules \in Paths, x \in Arguments \cup {EmptyMap} :
          /\ call'.path = rules
          /\ \/ x \in Arguments /\ Wrote(rules, x)
             \/ Removed(Get(doc, rules))
             \/ Removed(Matching(doc, rules, x))
    BY Returns
  <2>2. rules \in Seq(RuleType) /\ IsDocument(doc) /\ IsDocument(doc')
    BY DEF DocumentAssumption, DocumentTypeOK
  <2>3. p \in Position
    BY <2>2, DocumentFacts
  <2>4. ASSUME NEW l \in Locations(doc, rules) PROVE ~Within(l, p)
    <3>1. l \in Position /\ Means(doc, rules, l)
      BY <2>2, GetMeans
    <3>2. \A i \in 0..Len(p) : l # SubSeq(p, 1, i)
      BY <2>1, <3>1
    <3> QED
      BY <2>3, <3>1, <3>2, WithinPrefix
  <2> HIDE DEF Beside
  <2>5. CASE x \in Arguments /\ Wrote(rules, x)
    <3>1. IsDocument(x)
      BY <2>5 DEF DocumentAssumption
    <3>2. rules # <<>> /\ doc' = PutAt(doc, Locations(doc, rules), x)
      BY <2>5 DEF Wrote
    <3>3. Len(rules) \in Nat \ {0}
      BY <2>2, <3>2, EmptySeq, LenProperties
    <3>4. /\ Locations(doc, rules) \in SUBSET Position
          /\ \A l \in Locations(doc, rules) : Len(l) = Len(rules)
      BY <2>2, GetMeans
    <3> QED
      BY <2>2, <2>4, <3>1, <3>2, <3>3, <3>4, BesideIsKept
  <2>6. ASSUME NEW L, L \subseteq Locations(doc, rules), Removed(L) PROVE Same(p)
    <3>1. DOMAIN doc' = {<<>>} \cup Kept(doc, L) /\ \A q \in DOMAIN doc' : doc'[q] = doc[q]
      <4>1. doc' = CutAt(doc, L)
        BY <2>6 DEF Removed
      <4>2. /\ DOMAIN CutAt(doc, L) = {<<>>} \cup Kept(doc, L)
            /\ \A q \in DOMAIN CutAt(doc, L) : CutAt(doc, L)[q] = doc[q]
        BY CutFrame
      <4> QED
        BY <4>1, <4>2
    <3>2. p \in DOMAIN doc
      BY <2>2, <3>1, DocumentFacts DEF Kept
    <3>3. p \in Kept(doc, L)
      BY <3>2, <2>4, <2>6 DEF Kept
    <3> QED
      BY <3>1, <3>2, <3>3
  <2> QED
    BY <2>1, <2>5, <2>6, MatchingFound
<1>2. DocumentTypeOK /\ DocumentTypeOK' /\ [DocumentNext]_documentVars
        => [~panic' => \A p \in DOMAIN doc \cup DOMAIN doc' :
              (\A i \in 0..Len(p) : ~Means(doc, call'.path, SubSeq(p, 1, i))) =>
                 /\ p \in DOMAIN doc /\ p \in DOMAIN doc'
                 /\ doc'[p] = doc[p]]_documentVars
  BY <1>1
<1> QED
  BY <1>2, DocumentTypes, PTL DEF DocumentSpec, CallsAreLocal

LEMMA JoinedSame ==
  ASSUME NEW l \in Position, NEW m \in Position, NEW s \in Position, NEW t \in Position,
         Len(l) = Len(m), l \o s = m \o t
  PROVE  l = m /\ s = t
<1>1. Within(l, l \o s) /\ Within(m, l \o s) /\ l \o s \in Position
  BY Joined
<1>2. Len(l) \in Nat /\ Len(l) <= Len(m)
  BY LenProperties DEF Position
<1>3. l = m
  BY <1>1, <1>2, WithinBoth, WithinSameLength
<1>4. /\ SubSeq(l \o s, Len(l) + 1, Len(l \o s)) = s
      /\ SubSeq(l \o t, Len(l) + 1, Len(l \o t)) = t
  BY Joined
<1> QED
  BY <1>3, <1>4

LEMMA SubDocumentIs ==
  ASSUME NEW d, DOMAIN d \subseteq Position, NEW p \in Position
  PROVE  SubDocument(d, p) = [s \in {s \in Position : p \o s \in DOMAIN d} |-> d[p \o s]]
<1> DEFINE S == {SubSeq(r, Len(p) + 1, Len(r)) : r \in {r \in DOMAIN d : Within(p, r)}}
           T == {s \in Position : p \o s \in DOMAIN d}
<1>1. SubDocument(d, p) = [s \in S |-> d[p \o s]]
  BY DEF SubDocument
<1>2. ASSUME NEW s \in S PROVE s \in T
  <2>1. PICK r \in DOMAIN d : Within(p, r) /\ s = SubSeq(r, Len(p) + 1, Len(r))
    OBVIOUS
  <2>2. r \in Position
    OBVIOUS
  <2> QED
    BY <2>1, <2>2, Split
<1>3. ASSUME NEW s \in T PROVE s \in S
  <2>1. /\ p \o s \in DOMAIN d /\ Within(p, p \o s)
        /\ SubSeq(p \o s, Len(p) + 1, Len(p \o s)) = s
    BY Joined
  <2> QED
    BY <2>1
<1>4. S = T
  BY <1>2, <1>3
<1> HIDE DEF S, T
<1>5. SubDocument(d, p) = [s \in T |-> d[p \o s]]
  BY <1>1, <1>4
<1> QED
  BY <1>5 DEF T

(* Set leaves its value at every location.                                 *)
LEMMA PutIsThere ==
  ASSUME NEW d, IsDocument(d), NEW x, IsDocument(x), NEW n \in Nat \ {0},
         NEW L \in SUBSET Position, \A l \in L : Len(l) = n, NEW l \in L
  PROVE  SubDocument(PutAt(d, L, x), l) = x
<1> DEFINE e == PutAt(d, L, x)
<1>1. /\ DOMAIN d \subseteq Position /\ <<>> \in DOMAIN d
      /\ DOMAIN x \subseteq Position /\ <<>> \in DOMAIN x
      /\ x = [s \in DOMAIN x |-> x[s]]
  BY DocumentFacts DEF IsDocument
<1>2. /\ DOMAIN e \subseteq Position
      /\ \A m \in L, s \in DOMAIN x : m \o s \in DOMAIN e
  BY <1>1, PutPositions
<1>3. DOMAIN e = {<<>>} \cup Kept(d, L) \cup Put(L, x)
  BY PutDomain
<1>4. \A s \in DOMAIN x : e[l \o s] = x[s]
  BY <1>1, PutFrame
<1> HIDE DEF e
<1>5. ASSUME NEW s \in Position, l \o s \in DOMAIN e PROVE s \in DOMAIN x
  <2>1. Within(l, l \o s) /\ l # <<>>
    BY Joined, Root
  <2>2. l \o s # <<>>
    BY <2>1, Root
  <2>3. l \o s \notin Kept(d, L)
    BY <2>1 DEF Kept
  <2>4. l \o s \in Put(L, x)
    BY <1>3, <1>5, <2>2, <2>3
  <2>5. PICK m \in L : \E t \in DOMAIN x : l \o s = m \o t
    <3> DEFINE q == l \o s
    <3> HIDE DEF q
    <3>1. q \in Put(L, x)
      BY <2>4 DEF q
    <3>2. \E m \in L : \E t \in DOMAIN x : q = m \o t
      BY <3>1, PutMember
    <3> QED
      BY <3>2 DEF q
  <2>6. PICK t \in DOMAIN x : l \o s = m \o t
    BY <2>5
  <2>7. m \in Position /\ t \in Position /\ Len(l) = Len(m)
    BY <1>1
  <2> QED
    BY <2>6, <2>7, JoinedSame
<1>6. {s \in Position : l \o s \in DOMAIN e} = DOMAIN x
  BY <1>1, <1>2, <1>5
<1>7. SubDocument(e, l) = [s \in {s \in Position : l \o s \in DOMAIN e} |-> e[l \o s]]
  BY <1>2, SubDocumentIs
<1>8. SubDocument(e, l) = [s \in DOMAIN x |-> e[l \o s]]
  BY <1>6, <1>7
<1>9. SubDocument(e, l) = [s \in DOMAIN x |-> x[s]]
  BY <1>4, <1>8
<1> QED
  BY <1>1, <1>9 DEF e

(* A cut leaves nothing where it cuts, and its neighbours whole.           *)
LEMMA CutIsGone ==
  ASSUME NEW d, IsDocument(d), NEW L \in SUBSET Position, <<>> \notin L, NEW p \in L
  PROVE  p \notin DOMAIN CutAt(d, L) /\ SubDocument(CutAt(d, L), p) = <<>>
<1> DEFINE e == CutAt(d, L)
<1>1. DOMAIN e = {<<>>} \cup Kept(d, L)
  BY CutFrame
<1> HIDE DEF e
<1>2. DOMAIN e \subseteq Position
  BY <1>1, DocumentFacts DEF Kept
<1>3. ASSUME NEW s \in Position PROVE p \o s \notin DOMAIN e
  <2>1. Within(p, p \o s) /\ p # <<>>
    BY Joined
  <2>2. p \o s # <<>>
    BY <2>1, Root
  <2> QED
    BY <1>1, <2>1, <2>2 DEF Kept
<1>4. {s \in Position : p \o s \in DOMAIN e} = {}
  BY <1>3
<1>5. SubDocument(e, p) = [s \in {s \in Position : p \o s \in DOMAIN e} |-> e[p \o s]]
  BY <1>2, SubDocumentIs
<1>6. SubDocument(e, p) = [s \in {} |-> e[p \o s]]
  BY <1>4, <1>5
<1>7. SubDocument(e, p) = <<>>
  BY <1>6
<1>8. p \o <<>> = p /\ <<>> \in Position
  BY Root
<1> QED
  BY <1>3, <1>7, <1>8 DEF e

LEMMA CutBeside ==
  ASSUME NEW d, IsDocument(d), NEW n, NEW L \in SUBSET Position, \A l \in L : Len(l) = n,
         NEW p \in DOMAIN d, Len(p) = n, p \notin L
  PROVE  SubDocument(CutAt(d, L), p) = SubDocument(d, p)
<1> DEFINE e == CutAt(d, L)
<1>1. DOMAIN e = {<<>>} \cup Kept(d, L) /\ \A q \in DOMAIN e : e[q] = d[q]
  BY CutFrame
<1> HIDE DEF e
<1>2. DOMAIN d \subseteq Position /\ <<>> \in DOMAIN d /\ p \in Position
  BY DocumentFacts
<1>3. DOMAIN e \subseteq DOMAIN d
  BY <1>1, <1>2 DEF Kept
<1>4. ASSUME NEW s \in Position, p \o s \in DOMAIN d PROVE p \o s \in DOMAIN e
  <2> SUFFICES ASSUME NEW l \in L, Within(l, p \o s) PROVE FALSE
    BY <1>1, <1>4 DEF Kept
  <2>1. Within(p, p \o s) /\ p \o s \in Position
    BY <1>2, Joined
  <2>2. l \in Position /\ Len(l) = Len(p) /\ Len(l) <= Len(p)
    BY <1>2, LenProperties DEF Position
  <2> QED
    BY <1>2, <2>1, <2>2, WithinBoth, WithinSameLength
<1>5. {s \in Position : p \o s \in DOMAIN e} = {s \in Position : p \o s \in DOMAIN d}
  BY <1>3, <1>4
<1>6. /\ SubDocument(e, p) = [s \in {s \in Position : p \o s \in DOMAIN e} |-> e[p \o s]]
      /\ SubDocument(d, p) = [s \in {s \in Position : p \o s \in DOMAIN d} |-> d[p \o s]]
  BY <1>2, <1>3, SubDocumentIs
<1>7. \A s \in {s \in Position : p \o s \in DOMAIN d} : e[p \o s] = d[p \o s]
  BY <1>1, <1>5
<1>8. SubDocument(e, p) = SubDocument(d, p)
  BY <1>5, <1>6, <1>7
<1> QED
  BY <1>8 DEF e

(* A call that returns has done what its name says (jsonpath.go 92-133).   *)
THEOREM CallsDoIt == DocumentSpec => CallsDoTheirJob
<1> USE DocumentAssumption
<1>1. ASSUME DocumentTypeOK, DocumentNext, ~panic'
      PROVE  LET rules == call'.path IN
             CASE call'.op = "set" ->
                    \A p \in Candidates(doc, rules) : Means(doc, rules, p) =>
                       SubDocument(doc', p) = call'.value
               [] call'.op = "delete" -> \A p \in DOMAIN doc' : ~Means(doc, rules, p)
               [] OTHER -> \A p \in DOMAIN doc : Means(doc, rules, p) =>
                    SubDocument(doc', p) =
                       IF SubDocument(doc, p) = call'.value THEN <<>> ELSE SubDocument(doc, p)
  <2>1. PICK rules \in Paths, x \in Arguments \cup {EmptyMap} :
          /\ call'.path = rules /\ call'.value = x
          /\ \/ call'.op = "set" /\ x \in Arguments /\ Wrote(rules, x)
             \/ call'.op = "delete" /\ Removed(Get(doc, rules))
             \/ call'.op = "deleteIfMatch" /\ Removed(Matching(doc, rules, x))
    BY <1>1, Returns
  <2>2. rules \in Seq(RuleType) /\ IsDocument(doc)
    BY <1>1 DEF DocumentAssumption, DocumentTypeOK
  <2>3. /\ Locations(doc, rules) \in SUBSET Position
        /\ \A p : p \in Locations(doc, rules) <=> p \in Position /\ Means(doc, rules, p)
        /\ \A p : p \in Get(doc, rules) <=> p \in DOMAIN doc /\ Means(doc, rules, p)
        /\ \A p \in Locations(doc, rules) : Len(p) = Len(rules)
    BY <2>2, GetMeans
  <2>4. ASSUME x \in Arguments, Wrote(rules, x),
               NEW p \in Candidates(doc, rules), Means(doc, rules, p)
        PROVE  SubDocument(doc', p) = x
    <3>1. IsDocument(x)
      BY <2>4 DEF DocumentAssumption
    <3>2. rules # <<>> /\ doc' = PutAt(doc, Locations(doc, rules), x)
      BY <2>4 DEF Wrote
    <3>3. Len(rules) \in Nat \ {0}
      BY <2>2, <3>2, EmptySeq, LenProperties
    <3>4. p \in Locations(doc, rules)
      BY <2>2, <2>3, <2>4, CandidatesTyped
    <3> QED
      BY <2>2, <2>3, <3>1, <3>2, <3>3, <3>4, PutIsThere
  <2>5. ASSUME NEW L, L \subseteq Get(doc, rules), Removed(L)
        PROVE  /\ L \in SUBSET Position /\ <<>> \notin L
               /\ doc' = CutAt(doc, L)
    BY <2>3, <2>5, MatchingFound DEF Removed, InMap
  <2>6. ASSUME Removed(Get(doc, rules)), NEW p \in DOMAIN doc' PROVE ~Means(doc, rules, p)
    <3> SUFFICES ASSUME Means(doc, rules, p) PROVE FALSE
      OBVIOUS
    <3>1. /\ Get(doc, rules) \in SUBSET Position /\ <<>> \notin Get(doc, rules)
          /\ doc' = CutAt(doc, Get(doc, rules))
      BY <2>5, <2>6
    <3>2. DOMAIN doc' = {<<>>} \cup Kept(doc, Get(doc, rules))
      BY <3>1, CutFrame
    <3>3. p \in DOMAIN doc
      BY <2>2, <3>2, DocumentFacts DEF Kept
    <3>4. p \in Get(doc, rules)
      BY <2>3, <3>3
    <3> QED
      BY <2>2, <2>6, <3>1, <3>4, CutIsGone
  <2>7. ASSUME Removed(Matching(doc, rules, x)), NEW p \in DOMAIN doc, Means(doc, rules, p)
        PROVE  SubDocument(doc', p) =
                 IF SubDocument(doc, p) = x THEN <<>> ELSE SubDocument(doc, p)
    <3> DEFINE L == Matching(doc, rules, x)
    <3>1. L \subseteq Get(doc, rules) /\ L \subseteq Locations(doc, rules)
      BY MatchingFound
    <3>2. L \in SUBSET Position /\ <<>> \notin L /\ doc' = CutAt(doc, L)
      BY <2>5, <2>7, <3>1
    <3>3. p \in Get(doc, rules) /\ p \in Locations(doc, rules)
      BY <2>3, <2>7, MatchingFound
    <3>4. p \in L <=> SubDocument(doc, p) = x
      BY <3>3 DEF Matching
    <3> HIDE DEF L
    <3>5. CASE p \in L
      <4>1. SubDocument(CutAt(doc, L), p) = <<>>
        BY <2>2, <3>2, <3>5, CutIsGone
      <4> QED
        BY <4>1, <3>2, <3>4, <3>5
    <3>6. CASE p \notin L
      <4>1. Len(p) = Len(rules) /\ \A l \in L : Len(l) = Len(rules)
        BY <2>3, <3>1, <3>3
      <4>2. SubDocument(CutAt(doc, L), p) = SubDocument(doc, p)
        BY <2>2, <3>2, <3>6, <4>1, CutBeside
      <4> QED
        BY <4>2, <3>2, <3>4, <3>6
    <3> QED
      BY <3>5, <3>6
  <2>8. CASE call'.op = "set"
    BY <2>1, <2>4, <2>8
  <2>9. CASE call'.op = "delete"
    BY <2>1, <2>6, <2>9
  <2>10. CASE call'.op = "deleteIfMatch"
    BY <2>1, <2>7, <2>10
  <2> QED
    BY <2>1, <2>8, <2>9, <2>10
<1>2. DocumentTypeOK /\ [DocumentNext]_documentVars
        => [~panic' =>
             LET rules == call'.path IN
             CASE call'.op = "set" ->
                    \A p \in Candidates(doc, rules) : Means(doc, rules, p) =>
                       SubDocument(doc', p) = call'.value
               [] call'.op = "delete" -> \A p \in DOMAIN doc' : ~Means(doc, rules, p)
               [] OTHER -> \A p \in DOMAIN doc : Means(doc, rules, p) =>
                    SubDocument(doc', p) =
                       IF SubDocument(doc, p) = call'.value THEN <<>> ELSE SubDocument(doc, p)]_documentVars
  BY <1>1
<1> QED
  BY <1>2, DocumentTypes, PTL DEF DocumentSpec, CallsDoTheirJob

------------------------------------------------------------------------------
(* Deletions in either order *)

(* What a cut leaves of a document, a path without filters means as before. *)
LEMMA CutMeans ==
  ASSUME NEW d, IsDocument(d), NEW e, IsDocument(e),
         DOMAIN e \subseteq DOMAIN d, \A q \in DOMAIN e : e[q] = d[q],
         NEW rules, FilterFree(rules), NEW p \in DOMAIN e
  PROVE  Means(e, rules, p) <=> Means(d, rules, p)
<1>1. p \in Position /\ Len(p) \in Nat
  BY DocumentFacts, LenProperties DEF Position
<1>2. ASSUME NEW i \in 1..Len(p)
      PROVE  Selects(e, rules[i], SubSeq(p, 1, i)) <=> Selects(d, rules[i], SubSeq(p, 1, i))
  <2> DEFINE q == SubSeq(p, 1, i)
  <2>1. i \in 0..Len(p)
    BY <1>1
  <2>2. q \in Position /\ Within(q, p)
    BY <1>1, <2>1, Prefix, WithinPrefix
  <2>3. q \in DOMAIN e
    BY <2>2, AboveIsThere, DocumentIsTree
  <2>4. q # <<>>
    BY <1>1, PrefixAbove
  <2>5. Parent(q) \in DOMAIN e
    BY <2>3, <2>4, DocumentFacts
  <2>6. /\ q \in DOMAIN d /\ Parent(q) \in DOMAIN d
        /\ e[Parent(q)] = d[Parent(q)]
    BY <2>3, <2>5
  <2> HIDE DEF q
  <2>7. Selects(e, rules[i], q) <=> Selects(d, rules[i], q)
    BY <2>3, <2>5, <2>6 DEF Selects
  <2> QED
    BY <2>7 DEF q
<1>3. CASE Len(p) = Len(rules)
  <2>1. \A i \in 1..Len(rules) : rules[i].rule # "filter"
    BY DEF FilterFree
  <2> QED
    BY <1>2, <1>3, <2>1 DEF Means
<1>4. CASE Len(p) # Len(rules)
  BY <1>4 DEF Means
<1> QED
  BY <1>3, <1>4

(* Two deletions, one after the other, leave what neither path reaches.    *)
LEMMA DeleteTwice ==
  ASSUME NEW d, IsDocument(d), NEW r \in Seq(RuleType), NEW s \in Seq(RuleType),
         FilterFree(s), ~DeletePanics(d, Get(d, r)), ~DeletePanics(d, Get(d, s))
  PROVE  Delete(Delete(d, r), s) = CutAt(d, Get(d, r) \cup Get(d, s))
<1> DEFINE R == Get(d, r)
           S == Get(d, s)
           e == CutAt(d, R)
           T == Get(e, s)
<1>1. /\ R \in SUBSET Position /\ <<>> \notin R
      /\ S \in SUBSET Position /\ <<>> \notin S
      /\ \A l \in R : InMap(d, l)
  <2>1. Get(d, r) \subseteq Position /\ Get(d, s) \subseteq Position
    BY MatchingFound, GetMeans
  <2> QED
    BY <2>1 DEF DeletePanics, InMap
<1>2. /\ DOMAIN e = {<<>>} \cup Kept(d, R)
      /\ \A q \in DOMAIN e : e[q] = d[q]
  BY CutFrame
<1>3. IsDocument(e)
  BY <1>1, CutDocument
<1>4. <<>> \in DOMAIN d /\ DOMAIN d \subseteq Position
  BY DocumentFacts
<1>5. \A q : q \in S <=> q \in DOMAIN d /\ Means(d, s, q)
  BY GetMeans
<1> HIDE DEF R, S, e
<1>6. \A q : q \in T <=> q \in DOMAIN e /\ Means(e, s, q)
  BY <1>3, GetMeans
<1> HIDE DEF T
<1>7. DOMAIN e \subseteq DOMAIN d
  BY <1>2, <1>4 DEF Kept
<1>8. \A q : q \in T <=> q \in S /\ q \in DOMAIN e
  BY <1>2, <1>3, <1>5, <1>6, <1>7, CutMeans
<1>9. \A q : q \in Kept(e, T) \cup {<<>>} <=>
        q \in {<<>>} \cup {q2 \in DOMAIN d : \A l \in R \cup S : ~Within(l, q2)}
  <2>1. ASSUME NEW q \in Kept(e, T), q # <<>>, NEW l \in R \cup S, Within(l, q) PROVE FALSE
    <3>1. q \in DOMAIN e /\ q \in Kept(d, R)
      BY <1>2, <2>1 DEF Kept
    <3>2. l \in S
      BY <2>1, <3>1 DEF Kept
    <3>3. l \in Position
      BY <1>1, <3>2
    <3>4. l \in DOMAIN e
      BY <1>3, <2>1, <3>1, <3>3, AboveIsThere, DocumentIsTree
    <3> QED
      BY <1>8, <2>1, <3>2, <3>4 DEF Kept
  <2>2. Kept(e, T) \subseteq DOMAIN d
    BY <1>7 DEF Kept
  <2>3. ASSUME NEW q \in DOMAIN d, \A l \in R \cup S : ~Within(l, q)
        PROVE  q \in Kept(e, T)
    <3>1. q \in DOMAIN e
      BY <1>2, <2>3 DEF Kept
    <3> QED
      BY <1>8, <2>3, <3>1 DEF Kept
  <2> QED
    BY <2>1, <2>2, <2>3
<1>10. /\ DOMAIN CutAt(e, T) = {<<>>} \cup Kept(e, T)
       /\ \A q \in DOMAIN CutAt(e, T) : CutAt(e, T)[q] = e[q]
       /\ CutAt(e, T) = [q \in DOMAIN CutAt(e, T) |-> CutAt(e, T)[q]]
  BY CutFrame
<1> DEFINE U == {<<>>} \cup {q \in DOMAIN d : \A l \in R \cup S : ~Within(l, q)}
<1>11. DOMAIN CutAt(e, T) = U
  BY <1>9, <1>10
<1>12. \A q \in U : CutAt(e, T)[q] = d[q]
  <2>1. U \subseteq DOMAIN e
    BY <1>2 DEF Kept
  <2> QED
    BY <1>2, <1>10, <1>11, <2>1
<1>13. CutAt(d, R \cup S) = [q \in U |-> d[q]]
  BY DEF CutAt
<1> HIDE DEF U
<1>14. CutAt(e, T) = [q \in U |-> d[q]]
  BY <1>10, <1>11, <1>12
<1>15. CutAt(e, T) = CutAt(d, R \cup S)
  BY <1>13, <1>14
<1> QED
  BY <1>15 DEF R, S, e, T, Delete

(* The order of two deletions is of no matter, nested or not, unless a     *)
(* filter looks at what the other deletes (default.go 16-106).             *)
THEOREM DeletionsInAnyOrder == DocumentSpec => []DeletionsCommute
<1> USE DocumentAssumption
<1>1. DocumentTypeOK => DeletionsCommute
  <2> SUFFICES ASSUME DocumentTypeOK, NEW r \in Paths, NEW s \in Paths,
                      FilterFree(r), ~DeletePanics(doc, Get(doc, r)),
                      FilterFree(s), ~DeletePanics(doc, Get(doc, s))
               PROVE  Delete(Delete(doc, r), s) = Delete(Delete(doc, s), r)
    BY DEF DeletionsCommute
  <2>1. IsDocument(doc) /\ r \in Seq(RuleType) /\ s \in Seq(RuleType)
    BY DEF DocumentTypeOK, DocumentAssumption
  <2>2. Delete(Delete(doc, r), s) = CutAt(doc, Get(doc, r) \cup Get(doc, s))
    BY <2>1, DeleteTwice
  <2>3. Delete(Delete(doc, s), r) = CutAt(doc, Get(doc, s) \cup Get(doc, r))
    BY <2>1, DeleteTwice
  <2>4. Get(doc, s) \cup Get(doc, r) = Get(doc, r) \cup Get(doc, s)
    OBVIOUS
  <2> QED
    BY <2>2, <2>3, <2>4
<1> QED
  BY <1>1, DocumentTypes, PTL
==============================================================================
