--------------------- MODULE InferenceCoordinatorProofs ---------------------
(***************************************************************************)
(* Theorems about the inference and lifecycle lease, for every number of   *)
(* requests, operations and rounds: the types of the coordinator, that     *)
(* who sleeps has somebody who will wake it, and that the condition        *)
(* variable and the lock implement ModelLease.                             *)
(***************************************************************************)
EXTENDS InferenceCoordinator, FiniteSetTheorems, SequenceTheorems, TLAPS

\* Requests never wait for the lock; the lock's list holds who waits for it, and its
\* owner is the operation past it.
Queued == ToSet(queue) = {o \in Op : at[o] \in {"queued", "called", "dropped"}}
RequestsElsewhere == \A c \in Client : at[c] \notin {"queued", "called", "dropped"}
Owned == \A o \in Op : at[o] \in {"asleep", "woken", "inside", "leave"} <=> owner = o

\* The lock is handed to the first who waits for it, while nobody has it.
Called == \A o \in Op : at[o] = "called" => owner = None /\ queue # <<>> /\ Head(queue) = o

\* The coordinator's counters count the tasks they are about.
Counted ==
    /\ active_inferences = Cardinality(Readers)
    /\ lifecycle_active <=> \E o \in Op : at[o] \in {"inside", "leave"}
    /\ lifecycle_waiters = IF Asked = {} THEN 0 ELSE 1

Excludes == lifecycle_active => active_inferences = 0

\* An operation sleeps only beside a request that will end.
AskedBeside == (\E o \in Op : at[o] = "asleep") => active_inferences > 0

\* Who sleeps is woken by somebody inside, or by somebody who was woken and did not run yet.
Wakeful ==
    sleepers # <<>> => \/ lifecycle_active \/ active_inferences > 0
                       \/ \E t \in Task : at[t] = "woken"

IInv == /\ TypeOK /\ Queued /\ RequestsElsewhere /\ Owned /\ Called
        /\ Counted /\ Excludes /\ AskedBeside /\ (PassesOn => Wakeful)

-----------------------------------------------------------------------------
(* Lists without repetition: members and order.                            *)

\* A list of members of S, each at most once.
List(S) == {s \in Seq(S) : IsInjective(s)}

\* The empty list has no members.
LEMMA EmptyList == ASSUME NEW S PROVE <<>> \in List(S) /\ ToSet(<<>>) = {}
  BY DEF List, IsInjective, ToSet

\* A list of one.
LEMMA OneList == ASSUME NEW S, NEW e \in S PROVE <<e>> \in List(S) /\ ToSet(<<e>>) = {e}
  BY DEF List, IsInjective, ToSet

\* The members of a list over S are in S.
LEMMA ListMembers == ASSUME NEW S, NEW s \in List(S) PROVE ToSet(s) \subseteq S
  BY DEF List, ToSet

\* A new member of a list comes after all others.
LEMMA ListAppend ==
  ASSUME NEW S, NEW s \in List(S), NEW e \in S, e \notin ToSet(s)
  PROVE  /\ Append(s, e) \in List(S) /\ ToSet(Append(s, e)) = ToSet(s) \cup {e}
         /\ Append(s, e) # <<>>
         /\ s # <<>> => Head(Append(s, e)) = Head(s)
         /\ \A p, q : Ahead(Append(s, e), p, q) <=> Ahead(s, p, q) \/ (p \in ToSet(s) /\ q = e)
<1>1. /\ s \in Seq(S) /\ IsInjective(s) /\ Append(s, e) \in Seq(S)
      /\ DOMAIN s = 1..Len(s) /\ DOMAIN Append(s, e) = 1..(Len(s) + 1) /\ Len(s) \in Nat
      /\ Append(s, e)[Len(s) + 1] = e /\ \A i \in 1..Len(s) : Append(s, e)[i] = s[i]
  BY DEF List
<1>2. ToSet(Append(s, e)) = ToSet(s) \cup {e}
  BY <1>1 DEF ToSet
<1>3. IsInjective(Append(s, e))
  BY <1>1 DEF IsInjective, ToSet
<1>4. Append(s, e) # <<>> /\ (s # <<>> => Head(Append(s, e)) = Head(s))
  BY <1>1
<1>5. ASSUME NEW p, NEW q
      PROVE  Ahead(Append(s, e), p, q) <=> Ahead(s, p, q) \/ (p \in ToSet(s) /\ q = e)
  BY <1>1 DEF Ahead, ToSet
<1> QED
  BY <1>1, <1>2, <1>3, <1>4, <1>5 DEF List

\* Taking the head off a list keeps the order of the rest.
LEMMA ListTail ==
  ASSUME NEW S, NEW s \in List(S), s # <<>>
  PROVE  /\ Head(s) \in ToSet(s) /\ Head(s) \in S
         /\ Tail(s) \in List(S) /\ ToSet(Tail(s)) = ToSet(s) \ {Head(s)}
         /\ \A p, q : p # Head(s) => (Ahead(Tail(s), p, q) <=> Ahead(s, p, q))
         /\ \A q : q \in ToSet(s) \ {Head(s)} <=> Ahead(s, Head(s), q)
         /\ \A p : ~Ahead(s, p, Head(s))
<1>1. /\ s \in Seq(S) /\ IsInjective(s) /\ Tail(s) \in Seq(S) /\ Head(s) = s[1]
      /\ DOMAIN s = 1..Len(s) /\ DOMAIN Tail(s) = 1..(Len(s) - 1) /\ Len(s) \in Nat \ {0}
      /\ \A i \in 1..(Len(s) - 1) : Tail(s)[i] = s[i + 1]
  BY DEF List
<1>2. Head(s) \in ToSet(s) /\ Head(s) \in S
  BY <1>1 DEF ToSet
<1>3. IsInjective(Tail(s))
  BY <1>1 DEF IsInjective
<1>4. \A i \in 2..Len(s) : i - 1 \in 1..(Len(s) - 1) /\ s[i] = Tail(s)[i - 1]
  BY <1>1
<1>5. ToSet(Tail(s)) = ToSet(s) \ {Head(s)}
  <2>1. ToSet(Tail(s)) \subseteq ToSet(s) \ {Head(s)}
    BY <1>1 DEF ToSet, IsInjective
  <2>2. ASSUME NEW i \in DOMAIN s, s[i] # Head(s) PROVE s[i] \in ToSet(Tail(s))
    <3>1. i - 1 \in DOMAIN Tail(s) /\ s[i] = Tail(s)[i - 1]
      BY <1>1, <1>4, <2>2
    <3> QED
      BY <3>1 DEF ToSet
  <2> QED
    BY <2>1, <2>2 DEF ToSet
<1>6. ASSUME NEW p, NEW q, p # Head(s) PROVE Ahead(Tail(s), p, q) <=> Ahead(s, p, q)
  <2>1. Ahead(Tail(s), p, q) => Ahead(s, p, q)
    BY <1>1 DEF Ahead
  <2>2. ASSUME NEW i \in DOMAIN s, NEW j \in DOMAIN s, i < j, s[i] = p, s[j] = q
        PROVE  Ahead(Tail(s), p, q)
    <3>1. /\ i - 1 \in DOMAIN Tail(s) /\ j - 1 \in DOMAIN Tail(s) /\ i - 1 < j - 1
          /\ Tail(s)[i - 1] = p /\ Tail(s)[j - 1] = q
      BY <1>1, <1>4, <1>6, <2>2
    <3> QED
      BY <3>1 DEF Ahead
  <2> QED
    BY <2>1, <2>2 DEF Ahead
<1>7. ASSUME NEW q PROVE q \in ToSet(s) \ {Head(s)} <=> Ahead(s, Head(s), q)
  BY <1>1 DEF Ahead, ToSet, IsInjective
<1>8. ASSUME NEW p PROVE ~Ahead(s, p, Head(s))
  BY <1>1 DEF Ahead, IsInjective
<1> QED
  BY <1>1, <1>2, <1>3, <1>5, <1>6, <1>7, <1>8 DEF List

\* Two lists without a common member, one after the other.
LEMMA ListConcat ==
  ASSUME NEW S, NEW s \in List(S), NEW u \in List(S), ToSet(s) \cap ToSet(u) = {}
  PROVE  /\ s \o u \in List(S) /\ ToSet(s \o u) = ToSet(s) \cup ToSet(u)
         /\ \A p, q : Ahead(s \o u, p, q) <=> \/ Ahead(s, p, q) \/ Ahead(u, p, q)
                                              \/ p \in ToSet(s) /\ q \in ToSet(u)
<1>1. /\ s \in Seq(S) /\ IsInjective(s) /\ u \in Seq(S) /\ IsInjective(u) /\ s \o u \in Seq(S)
      /\ DOMAIN s = 1..Len(s) /\ DOMAIN u = 1..Len(u) /\ Len(s) \in Nat /\ Len(u) \in Nat
      /\ DOMAIN (s \o u) = 1..(Len(s) + Len(u))
      /\ \A i \in 1..Len(s) : (s \o u)[i] = s[i]
      /\ \A i \in 1..Len(u) : i + Len(s) \in DOMAIN (s \o u) /\ (s \o u)[i + Len(s)] = u[i]
      /\ \A i \in (Len(s) + 1)..(Len(s) + Len(u)) :
            i - Len(s) \in 1..Len(u) /\ (s \o u)[i] = u[i - Len(s)]
  BY DEF List
<1>2. ToSet(s \o u) = ToSet(s) \cup ToSet(u)
  <2>1. ToSet(s \o u) \subseteq ToSet(s) \cup ToSet(u)
    BY <1>1 DEF ToSet
  <2>2. ToSet(s) \subseteq ToSet(s \o u)
    BY <1>1 DEF ToSet
  <2>3. ASSUME NEW i \in DOMAIN u PROVE u[i] \in ToSet(s \o u)
    <3>1. i + Len(s) \in DOMAIN (s \o u) /\ u[i] = (s \o u)[i + Len(s)]
      BY <1>1
    <3> QED
      BY <3>1 DEF ToSet
  <2> QED
    BY <2>1, <2>2, <2>3 DEF ToSet
<1>3. IsInjective(s \o u)
  <2> SUFFICES ASSUME NEW i \in DOMAIN (s \o u), NEW j \in DOMAIN (s \o u),
                      (s \o u)[i] = (s \o u)[j]
               PROVE  i = j
    BY DEF IsInjective
  <2>1. CASE i \in 1..Len(s) /\ j \in 1..Len(s)
    BY <1>1, <2>1 DEF IsInjective
  <2>2. CASE i \notin 1..Len(s) /\ j \notin 1..Len(s)
    <3>1. i - Len(s) \in DOMAIN u /\ j - Len(s) \in DOMAIN u /\ u[i - Len(s)] = u[j - Len(s)]
      BY <1>1, <2>2
    <3> QED
      BY <1>1, <2>2, <3>1 DEF IsInjective
  <2>3. CASE i \in 1..Len(s) /\ j \notin 1..Len(s)
    <3>1. j - Len(s) \in DOMAIN u /\ u[j - Len(s)] = s[i]
      BY <1>1, <2>3
    <3>2. s[i] \in ToSet(s) /\ u[j - Len(s)] \in ToSet(u)
      BY <1>1, <2>3, <3>1 DEF ToSet
    <3> QED
      BY <3>1, <3>2
  <2>4. CASE i \notin 1..Len(s) /\ j \in 1..Len(s)
    <3>1. i - Len(s) \in DOMAIN u /\ u[i - Len(s)] = s[j]
      BY <1>1, <2>4
    <3> QED
      BY <1>1, <2>4, <3>1 DEF ToSet
  <2> QED
    BY <2>1, <2>2, <2>3, <2>4
<1>4. ASSUME NEW p, NEW q, Ahead(s \o u, p, q)
      PROVE  Ahead(s, p, q) \/ Ahead(u, p, q) \/ (p \in ToSet(s) /\ q \in ToSet(u))
  <2>1. PICK i, j \in DOMAIN (s \o u) : i < j /\ (s \o u)[i] = p /\ (s \o u)[j] = q
    BY <1>4 DEF Ahead
  <2>2. CASE j \in 1..Len(s)
    BY <1>1, <2>1, <2>2 DEF Ahead
  <2>3. CASE i \notin 1..Len(s)
    <3>1. i - Len(s) \in DOMAIN u /\ j - Len(s) \in DOMAIN u /\ i - Len(s) < j - Len(s)
          /\ u[i - Len(s)] = p /\ u[j - Len(s)] = q
      BY <1>1, <2>1, <2>3
    <3> QED
      BY <3>1 DEF Ahead
  <2>4. CASE i \in 1..Len(s) /\ j \notin 1..Len(s)
    BY <1>1, <2>1, <2>4 DEF ToSet
  <2> QED
    BY <1>1, <2>1, <2>2, <2>3, <2>4
<1>5. ASSUME NEW p, NEW q
      PROVE  /\ Ahead(s, p, q) => Ahead(s \o u, p, q)
             /\ Ahead(u, p, q) => Ahead(s \o u, p, q)
             /\ p \in ToSet(s) /\ q \in ToSet(u) => Ahead(s \o u, p, q)
  <2>1. Ahead(s, p, q) => Ahead(s \o u, p, q)
    BY <1>1 DEF Ahead
  <2>2. ASSUME NEW i \in DOMAIN u, NEW j \in DOMAIN u, i < j, u[i] = p, u[j] = q
        PROVE  Ahead(s \o u, p, q)
    <3>1. /\ i + Len(s) \in DOMAIN (s \o u) /\ j + Len(s) \in DOMAIN (s \o u)
          /\ i + Len(s) < j + Len(s) /\ (s \o u)[i + Len(s)] = p /\ (s \o u)[j + Len(s)] = q
      BY <1>1, <2>2
    <3> QED
      BY <3>1 DEF Ahead
  <2>3. ASSUME NEW i \in DOMAIN s, NEW j \in DOMAIN u, s[i] = p, u[j] = q
        PROVE  Ahead(s \o u, p, q)
    <3>1. /\ i \in DOMAIN (s \o u) /\ j + Len(s) \in DOMAIN (s \o u)
          /\ i < j + Len(s) /\ (s \o u)[i] = p /\ (s \o u)[j + Len(s)] = q
      BY <1>1, <2>3
    <3> QED
      BY <3>1 DEF Ahead
  <2> QED
    BY <2>1, <2>2, <2>3 DEF Ahead, ToSet
<1>6. s \o u \in List(S)
  BY <1>1, <1>3 DEF List
<1>7. ASSUME NEW p, NEW q
      PROVE  Ahead(s \o u, p, q) <=> \/ Ahead(s, p, q) \/ Ahead(u, p, q)
                                     \/ p \in ToSet(s) /\ q \in ToSet(u)
  BY <1>4, <1>5
<1> QED
  BY <1>2, <1>6, <1>7

\* How many positions are behind position k.
LEMMA RestLength ==
  \A n \in Nat : \A k \in 1..n : (IF k + 1 <= n THEN n - (k + 1) + 1 ELSE 0) = n - k
  OBVIOUS

\* Taking any member off a list keeps the order of the rest.
LEMMA ListWithout ==
  ASSUME NEW S, NEW s \in List(S), NEW e
  PROVE  /\ Without(s, e) \in List(S) /\ ToSet(Without(s, e)) = ToSet(s) \ {e}
         /\ s # <<>> /\ Head(s) # e => Without(s, e) # <<>> /\ Head(Without(s, e)) = Head(s)
         /\ \A p, q : p # e /\ q # e => (Ahead(Without(s, e), p, q) <=> Ahead(s, p, q))
<1>1. CASE e \notin ToSet(s)
  <2>1. Without(s, e) = s
    BY <1>1 DEF Without
  <2> QED
    BY <1>1, <2>1
<1>2. CASE e \in ToSet(s)
  <2> DEFINE k == CHOOSE i \in DOMAIN s : s[i] = e
             w == RemoveAt(s, k)
  <2>1. k \in DOMAIN s /\ s[k] = e
    BY <1>2 DEF ToSet
  <2> HIDE DEF k
  <2>2. Without(s, e) = w
    BY <1>2 DEF Without, k
  <2>3. /\ s \in Seq(S) /\ IsInjective(s) /\ Len(s) \in Nat /\ DOMAIN s = 1..Len(s) /\ k \in 1..Len(s)
    BY <2>1 DEF List
  <2>4. /\ SubSeq(s, 1, k - 1) \in Seq(S) /\ SubSeq(s, k + 1, Len(s)) \in Seq(S)
        /\ Len(SubSeq(s, 1, k - 1)) = k - 1 /\ Len(SubSeq(s, k + 1, Len(s))) = Len(s) - k
        /\ \A i \in 1..(k - 1) : SubSeq(s, 1, k - 1)[i] = s[i]
        /\ \A i \in 1..(Len(s) - k) : SubSeq(s, k + 1, Len(s))[i] = s[k + i]
    <3>1. \A i \in 1..(k - 1) : s[i] \in S
      BY <2>3
    <3>2. \A i \in (k + 1)..Len(s) : s[i] \in S
      BY <2>3
    <3>3. /\ SubSeq(s, 1, k - 1) \in Seq(S) /\ Len(SubSeq(s, 1, k - 1)) = k - 1
          /\ \A i \in 1..(k - 1) : SubSeq(s, 1, k - 1)[i] = s[i]
      BY <2>3, <3>1, SubSeqProperties
    <3>4. /\ SubSeq(s, k + 1, Len(s)) \in Seq(S) /\ Len(SubSeq(s, k + 1, Len(s))) = Len(s) - k
          /\ \A i \in 1..(Len(s) - k) : SubSeq(s, k + 1, Len(s))[i] = s[k + i]
      <4>1. /\ SubSeq(s, k + 1, Len(s)) \in Seq(S)
            /\ Len(SubSeq(s, k + 1, Len(s))) =
                 IF k + 1 <= Len(s) THEN Len(s) - (k + 1) + 1 ELSE 0
            /\ \A i \in 1..(Len(s) - (k + 1) + 1) :
                  SubSeq(s, k + 1, Len(s))[i] = s[k + 1 + i - 1]
        BY <2>3, <3>2, SubSeqProperties
      <4>2. Len(SubSeq(s, k + 1, Len(s))) = Len(s) - k
        <5> DEFINE m == IF k + 1 <= Len(s) THEN Len(s) - (k + 1) + 1 ELSE 0
        <5>1. m = Len(s) - k
          BY <2>3, RestLength, Zenon
        <5>2. Len(SubSeq(s, k + 1, Len(s))) = m
          BY <4>1
        <5> HIDE DEF m
        <5> QED
          BY <5>1, <5>2, Zenon
      <4>3. ASSUME NEW i \in 1..(Len(s) - k) PROVE SubSeq(s, k + 1, Len(s))[i] = s[k + i]
        <5>1. i \in 1..(Len(s) - (k + 1) + 1) /\ k + 1 + i - 1 = k + i
          BY <2>3
        <5> QED
          BY <4>1, <5>1
      <4> QED
        BY <4>1, <4>2, <4>3
    <3> QED
      BY <3>3, <3>4
  <2>5. /\ w \in Seq(S) /\ DOMAIN w = 1..(Len(s) - 1)
        /\ \A i \in 1..(k - 1) : w[i] = s[i]
        /\ \A i \in k..(Len(s) - 1) : w[i] = s[i + 1]
    <3> DEFINE a == SubSeq(s, 1, k - 1)
               b == SubSeq(s, k + 1, Len(s))
    <3>1. w = a \o b
      BY DEF RemoveAt
    <3>2. /\ a \in Seq(S) /\ b \in Seq(S) /\ Len(a) = k - 1 /\ Len(b) = Len(s) - k
          /\ \A i \in 1..(k - 1) : a[i] = s[i]
          /\ \A i \in 1..(Len(s) - k) : b[i] = s[k + i]
      BY <2>4
    <3> HIDE DEF w, a, b
    <3>3. /\ w \in Seq(S) /\ Len(w) = Len(s) - 1
          /\ \A i \in 1..(k - 1) : w[i] = a[i]
          /\ \A i \in k..(Len(s) - 1) : w[i] = b[i - (k - 1)]
      <4>1. w \in Seq(S) /\ Len(w) = Len(s) - 1
        <5>1. w \in Seq(S) /\ Len(w) = Len(a) + Len(b)
          BY <3>1, <3>2, ConcatProperties
        <5> QED
          BY <2>3, <3>2, <5>1
      <4>2. \A i \in 1..(k - 1) : w[i] = a[i]
        BY <2>3, <3>1, <3>2
      <4>3. ASSUME NEW i \in k..(Len(s) - 1) PROVE w[i] = b[i - (k - 1)]
        <5>1. i \in 1..(Len(a) + Len(b)) /\ i > Len(a) /\ i - Len(a) = i - (k - 1)
          BY <2>3, <3>2
        <5> QED
          BY <3>1, <3>2, <5>1, ConcatProperties
      <4> QED
        BY <4>1, <4>2, <4>3
    <3>4. \A i \in k..(Len(s) - 1) : i - (k - 1) \in 1..(Len(s) - k) /\ k + (i - (k - 1)) = i + 1
      BY <2>3
    <3> QED
      BY <2>3, <3>2, <3>3, <3>4
  <2> HIDE DEF w
  <2>6. \A i \in DOMAIN s : i # k => i \in 1..(k - 1) \/ i - 1 \in k..(Len(s) - 1)
    BY <2>3
  <2> DEFINE old(i) == IF i < k THEN i ELSE i + 1
  <2>12. \A i \in DOMAIN w : old(i) \in DOMAIN s /\ old(i) # k /\ w[i] = s[old(i)]
    BY <2>3, <2>5
  <2>13. \A i, j \in DOMAIN w : (i < j => old(i) < old(j)) /\ (old(i) = old(j) => i = j)
    BY <2>3, <2>5
  <2> HIDE DEF old
  <2>7. \A i \in DOMAIN w : w[i] # e
    BY <2>1, <2>3, <2>12 DEF IsInjective
  <2>8. IsInjective(w)
    BY <2>3, <2>12, <2>13 DEF IsInjective
  <2>9. ToSet(w) = ToSet(s) \ {e}
    <3>1. \A i \in DOMAIN w : w[i] \in ToSet(s)
      BY <2>3, <2>5 DEF ToSet
    <3>2. \A i \in DOMAIN s : i < k => w[i] = s[i] /\ i \in DOMAIN w
      BY <2>3, <2>5
    <3>3. \A i \in DOMAIN s : i > k => w[i - 1] = s[i] /\ i - 1 \in DOMAIN w
      BY <2>3, <2>5
    <3>4. ASSUME NEW i \in DOMAIN s, s[i] # e PROVE s[i] \in ToSet(w)
      BY <2>1, <2>3, <3>2, <3>3, <3>4 DEF ToSet
    <3> QED
      BY <2>7, <3>1, <3>4 DEF ToSet
  <2>10. s # <<>> /\ Head(s) # e => w # <<>> /\ Head(w) = Head(s)
    BY <2>1, <2>3, <2>5
  <2>11. ASSUME NEW p, NEW q, p # e, q # e PROVE Ahead(w, p, q) <=> Ahead(s, p, q)
    <3>1. ASSUME NEW i \in DOMAIN w, NEW j \in DOMAIN w, i < j, w[i] = p, w[j] = q
          PROVE  Ahead(s, p, q)
      BY <2>12, <2>13, <3>1 DEF Ahead
    <3>2. ASSUME NEW i \in DOMAIN s, NEW j \in DOMAIN s, i < j, s[i] = p, s[j] = q
          PROVE  Ahead(w, p, q)
      <4>1. i # k /\ j # k
        BY <2>1, <2>11, <3>2
      <4>2. CASE j < k
        BY SMTT(30), <2>3, <2>5, <3>2, <4>1, <4>2 DEF Ahead
      <4>3. CASE i < k /\ k < j
        <5>1. i \in DOMAIN w /\ j - 1 \in DOMAIN w /\ i < j - 1 /\ w[i] = p /\ w[j - 1] = q
          BY <2>3, <2>5, <3>2, <4>3
        <5> QED
          BY <5>1 DEF Ahead
      <4>4. CASE k < i
        <5>1. i - 1 \in DOMAIN w /\ j - 1 \in DOMAIN w /\ i - 1 < j - 1 /\ w[i - 1] = p /\ w[j - 1] = q
          BY <2>3, <2>5, <3>2, <4>4
        <5> QED
          BY <5>1 DEF Ahead
      <4> QED
        BY <2>3, <3>2, <4>1, <4>2, <4>3, <4>4
    <3> QED
      BY <3>1, <3>2 DEF Ahead
  <2> QED
    BY <2>2, <2>5, <2>8, <2>9, <2>10, <2>11 DEF List
<1> QED
  BY <1>1, <1>2

-----------------------------------------------------------------------------
(* What the event loop does.                                               *)

\* The part of TypeOK that is the loop's.
Loop ==
    /\ ready \in List(Task) /\ at \in [Task -> Point]
    /\ \A t \in Task : (at[t] \in Runnable) = (t \in ToSet(ready))
    /\ cancelled \subseteq ToSet(ready)

\* A task runs, suspends or ends at p, and makes those of woken and next ready, who
\* waited: the loop holds exactly who may run, and its order of arrivals stays.
LEMMA GoKeeps ==
  ASSUME TypeOK, NEW t, Runs(t), NEW p \in Point \ Runnable,
         NEW woken \in List(Task), \A u \in ToSet(woken) : at[u] = "asleep",
         NEW next \in List(Task), \A u \in ToSet(next) : at[u] = "queued",
         Go(t, p, woken, next)
  PROVE  /\ t \in Task /\ at[t] \in Runnable /\ Loop'
         /\ at'[t] = p
         /\ \A u \in Task \ {t} : at'[u] = IF u \in ToSet(woken) THEN "woken"
                                         ELSE IF u \in ToSet(next) THEN "called" ELSE at[u]
         /\ \A a, b \in Task \ {t} : at[a] = "enter" /\ at[b] = "enter"
                => (Ahead(ready', a, b) <=> Ahead(ready, a, b))
<1> DEFINE tl == Tail(ready)
           mid == Tail(ready) \o woken
<1>1. ready \in List(Task) /\ ready # <<>> /\ t = Head(ready)
  BY DEF TypeOK, List, Runs
<1>2. /\ t \in Task /\ t \in ToSet(ready) /\ tl \in List(Task) /\ ToSet(tl) = ToSet(ready) \ {t}
      /\ \A a, b : a # t => (Ahead(tl, a, b) <=> Ahead(ready, a, b))
  BY <1>1, ListTail
<1>3. /\ \A u \in ToSet(ready) : u \in Task /\ at[u] \in Runnable
      /\ \A u \in ToSet(woken) \cup ToSet(next) : u \in Task
  BY <1>1, ListMembers DEF TypeOK
<1> HIDE DEF tl
<1>4. /\ mid \in List(Task) /\ ToSet(mid) = ToSet(tl) \cup ToSet(woken)
      /\ \A a, b : Ahead(mid, a, b) <=> \/ Ahead(tl, a, b) \/ Ahead(woken, a, b)
                                        \/ a \in ToSet(tl) /\ b \in ToSet(woken)
  <2>1. ToSet(tl) \cap ToSet(woken) = {}
    BY <1>2, <1>3 DEF Runnable
  <2> QED
    BY <1>2, <2>1, ListConcat DEF tl
<1> HIDE DEF mid
<1>5. /\ ready' \in List(Task) /\ ToSet(ready') = ToSet(mid) \cup ToSet(next)
      /\ \A a, b : Ahead(ready', a, b) <=> \/ Ahead(mid, a, b) \/ Ahead(next, a, b)
                                           \/ a \in ToSet(mid) /\ b \in ToSet(next)
  <2>1. ToSet(mid) \cap ToSet(next) = {}
    BY <1>2, <1>3, <1>4 DEF Runnable
  <2>2. ready' = mid \o next
    BY DEF Go, mid
  <2> QED
    BY <1>4, <2>1, <2>2, ListConcat
<1>6. ToSet(ready') = (ToSet(ready) \ {t}) \cup ToSet(woken) \cup ToSet(next)
  BY <1>2, <1>4, <1>5
<1>7. /\ at' \in [Task -> Point] /\ at'[t] = p
      /\ \A u \in Task \ {t} : at'[u] = IF u \in ToSet(woken) THEN "woken"
                                      ELSE IF u \in ToSet(next) THEN "called" ELSE at[u]
  BY <1>2 DEF Go, TypeOK, Point
<1>8. \A u \in Task : (at'[u] \in Runnable) = (u \in ToSet(ready'))
  <2> SUFFICES ASSUME NEW u \in Task PROVE at'[u] \in Runnable <=> u \in ToSet(ready')
    OBVIOUS
  <2>1. (at[u] \in Runnable) <=> (u \in ToSet(ready))
    BY DEF TypeOK
  <2>2. CASE u = t
    BY <1>3, <1>6, <1>7, <2>2, <1>2 DEF Runnable
  <2>3. CASE u # t
    BY <1>6, <1>7, <2>1, <2>3 DEF Runnable
  <2> QED
    BY <2>2, <2>3
<1>9. cancelled' \subseteq ToSet(ready')
  BY <1>6 DEF Go, TypeOK
<1>10. ASSUME NEW a \in Task \ {t}, NEW b \in Task \ {t}, at[a] = "enter", at[b] = "enter"
       PROVE  Ahead(ready', a, b) <=> Ahead(ready, a, b)
  <2>1. a \notin ToSet(woken) \cup ToSet(next) /\ b \notin ToSet(woken) \cup ToSet(next)
    BY <1>10
  <2>2. ~Ahead(woken, a, b) /\ ~Ahead(next, a, b)
    BY <2>1 DEF Ahead, ToSet
  <2> QED
    BY <1>2, <1>4, <1>5, <2>1, <2>2
<1> QED
  BY <1>2, <1>3, <1>5, <1>7, <1>8, <1>9, <1>10 DEF Loop

\* A suspended or new task becomes ready.
LEMMA WakesKeeps ==
  ASSUME TypeOK, NEW t \in Task, at[t] \notin Runnable, NEW p \in Runnable, Wakes(t, p),
         cancelled' \subseteq cancelled \cup {t}
  PROVE  /\ Loop' /\ at'[t] = p /\ \A u \in Task \ {t} : at'[u] = at[u]
         /\ \A a, b \in Task : Ahead(ready', a, b) <=> Ahead(ready, a, b)
                                                      \/ (a \in ToSet(ready) /\ b = t)
<1>1. ready \in List(Task) /\ t \notin ToSet(ready)
  BY DEF TypeOK, List
<1>2. /\ ready' \in List(Task) /\ ToSet(ready') = ToSet(ready) \cup {t}
      /\ \A a, b : Ahead(ready', a, b) <=> Ahead(ready, a, b) \/ (a \in ToSet(ready) /\ b = t)
  BY <1>1, ListAppend DEF Wakes
<1>3. at' \in [Task -> Point] /\ at'[t] = p /\ \A u \in Task \ {t} : at'[u] = at[u]
  BY DEF Wakes, TypeOK, Runnable, Point
<1>4. \A u \in Task : (at'[u] \in Runnable) = (u \in ToSet(ready'))
  BY <1>2, <1>3 DEF TypeOK
<1> QED
  BY <1>2, <1>3, <1>4 DEF Loop, TypeOK

-----------------------------------------------------------------------------
(* Counting requests.                                                      *)

\* The counter of requests says how many are inside.
LEMMA ReaderBounds ==
  ASSUME TypeOK, Counted
  PROVE  /\ IsFiniteSet(Readers) /\ Cardinality(Readers) \in 0..Cardinality(Client)
         /\ active_inferences = 0 <=> Readers = {}
<1>1. IsFiniteSet(Client) /\ Readers \subseteq Client
  BY CoordinatorAssumption DEF Readers
<1>2. /\ IsFiniteSet(Readers) /\ Cardinality(Readers) <= Cardinality(Client)
      /\ Cardinality(Readers) \in Nat /\ Cardinality(Client) \in Nat
  BY <1>1, FS_Subset, FS_CardinalityType
<1>3. Cardinality(Readers) = 0 <=> Readers = {}
  BY <1>2, FS_EmptySet
<1> QED
  BY <1>2, <1>3 DEF Counted

\* One more reader, one less.
LEMMA ReaderEnters ==
  ASSUME TypeOK, Counted, NEW c \in Client, c \notin Readers, Readers' = Readers \cup {c},
         active_inferences' = active_inferences + 1
  PROVE  active_inferences' = Cardinality(Readers') /\ active_inferences' \in 1..Cardinality(Client)
<1>1. IsFiniteSet(Client) /\ Readers \cup {c} \subseteq Client
  BY CoordinatorAssumption DEF Readers
<1>2. Cardinality(Readers \cup {c}) = Cardinality(Readers) + 1
  BY ReaderBounds, FS_AddElement
<1>3. Cardinality(Readers \cup {c}) <= Cardinality(Client) /\ Cardinality(Client) \in Nat
  BY <1>1, FS_Subset, FS_CardinalityType
<1> QED
  BY <1>2, <1>3, ReaderBounds DEF Counted

\* It still does after one has left.
LEMMA ReaderLeaves ==
  ASSUME TypeOK, Counted, NEW c \in Client, c \in Readers, Readers' = Readers \ {c},
         active_inferences' = active_inferences - 1
  PROVE  active_inferences' = Cardinality(Readers') /\ active_inferences' \in 0..Cardinality(Client)
<1>1. Cardinality(Readers \ {c}) = Cardinality(Readers) - 1
  BY ReaderBounds, FS_RemoveElement
<1>2. Cardinality(Readers) \in 0..Cardinality(Client) /\ Cardinality(Readers) # 0
      /\ Cardinality(Client) \in Nat
  BY ReaderBounds, CoordinatorAssumption, FS_CardinalityType DEF Counted
<1> QED
  BY <1>1, <1>2 DEF Counted

-----------------------------------------------------------------------------
(* Requests.                                                               *)

\* A step of a request leaves the operations where they are, but that some wake up.
Sideways(c) ==
    /\ at \in [Task -> Point] /\ at' \in [Task -> Point]
    /\ at'[c] \notin {"queued", "called", "dropped"}
    /\ \A u \in Task \ {c} : at'[u] = at[u] \/ (at[u] = "asleep" /\ at'[u] = "woken")
    /\ UNCHANGED <<outer, lifecycle_waiters, lifecycle_active>>

\* A step of a request leaves what is said of the operations alone.
LEMMA SidewaysKeeps ==
  ASSUME IInv, NEW c \in Client, Sideways(c)
  PROVE  /\ Queued' /\ RequestsElsewhere' /\ Owned' /\ Called'
         /\ lifecycle_active' <=> \E o \in Op : at'[o] \in {"inside", "leave"}
         /\ lifecycle_waiters' = IF Asked' = {} THEN 0 ELSE 1
<1> USE DEF IInv, Sideways, outer
<1>1. \A o \in Op : o \in Task \ {c}
  BY CoordinatorAssumption DEF Task
<1>2. Queued'
  BY <1>1 DEF Queued
<1>3. RequestsElsewhere'
  BY DEF RequestsElsewhere, Task
<1>4. Owned'
  BY <1>1 DEF Owned
<1>5. Called'
  BY <1>1 DEF Called
<1>6. lifecycle_active' <=> \E o \in Op : at'[o] \in {"inside", "leave"}
  BY <1>1 DEF Counted
<1>7. Asked' = Asked
  BY <1>1 DEF Asked
<1> QED
  BY <1>2, <1>3, <1>4, <1>5, <1>6, <1>7 DEF Counted

\* A request that is let in.
LEMMA AdmitKeeps == ASSUME IInv, NEW c \in Client, Admit(c) PROVE IInv'
<1> USE DEF IInv
<1>1. /\ c \in Task /\ Loop' /\ at'[c] = "inside" /\ \A u \in Task \ {c} : at'[u] = at[u]
  BY EmptyList, GoKeeps DEF Admit, Point, Runnable
<1>2. Sideways(c)
  BY <1>1 DEF Sideways, Admit, Loop, TypeOK
<1>3. active_inferences' = Cardinality(Readers') /\ active_inferences' \in 1..Cardinality(Client)
  <2>1. Readers' = Readers \cup {c} /\ c \notin Readers
    BY <1>1, CoordinatorAssumption DEF Readers, Admit, Task
  <2> QED
    BY <2>1, ReaderEnters DEF Admit
<1>4. TypeOK'
  <2>1. {t \in Task : at'[t] = "asleep"} = {t \in Task : at[t] = "asleep"}
    BY <1>1 DEF Admit
  <2> QED
    BY <1>1, <1>3, <2>1 DEF TypeOK, Loop, List, Admit, outer
<1>5. Counted' /\ Excludes' /\ AskedBeside' /\ Wakeful'
  BY <1>2, <1>3, SidewaysKeeps DEF Counted, Excludes, AskedBeside, Wakeful, Admit, CanRead
<1> QED
  BY <1>2, <1>4, <1>5, SidewaysKeeps

\* A request that must wait.
LEMMA SleepKeeps == ASSUME IInv, NEW c \in Client, Sleep(c) PROVE IInv'
<1> USE DEF IInv
<1>1. /\ c \in Task /\ Loop' /\ at'[c] = "asleep" /\ \A u \in Task \ {c} : at'[u] = at[u]
  BY EmptyList, GoKeeps DEF Sleep, Point, Runnable
<1>2. Sideways(c)
  BY <1>1 DEF Sideways, Sleep, Loop, TypeOK, coordinator
<1>3. /\ sleepers \in List(Task) /\ sleepers' \in List(Task)
      /\ ToSet(sleepers') = ToSet(sleepers) \cup {c}
  BY <1>1, ListAppend DEF Sleep, TypeOK, List
<1>4. TypeOK'
  <2>1. {t \in Task : at'[t] = "asleep"} = {t \in Task : at[t] = "asleep"} \cup {c}
    BY <1>1
  <2> QED
    BY <1>1, <1>3, <2>1 DEF TypeOK, Loop, List, Sleep, outer, coordinator
<1>5. Readers' = Readers
  BY <1>1 DEF Readers, Sleep, Task
<1>6. Counted' /\ Excludes' /\ AskedBeside'
  BY <1>1, <1>2, <1>5, SidewaysKeeps, CoordinatorAssumption
     DEF Counted, Excludes, AskedBeside, Sleep, coordinator, Task
<1>7. Wakeful'
  <2>1. lifecycle_active \/ active_inferences > 0 \/ \E o \in Op : at[o] = "woken"
    BY DEF Sleep, CanRead, Counted, Asked, AskedBeside
  <2> QED
    BY <1>1, <2>1, CoordinatorAssumption DEF Wakeful, Sleep, coordinator, Task
<1> QED
  BY <1>2, <1>4, <1>6, <1>7, SidewaysKeeps

\* A request that leaves and, as the last one, wakes the sleepers.
LEMMA LeaveInferenceKeeps == ASSUME IInv, NEW c \in Client, LeaveInference(c) PROVE IInv'
<1> USE DEF IInv
<1>1. sleepers \in List(Task) /\ \A u \in Task : at[u] = "asleep" <=> u \in ToSet(sleepers)
  BY DEF TypeOK, List
<1>2. \A u \in ToSet(sleepers) : at[u] = "asleep"
  BY <1>1, ListMembers
<1>3. /\ c \in Task /\ Loop' /\ at'[c] = "idle"
      /\ \A u \in Task \ {c} : at'[u] = IF at[u] = "asleep" THEN "woken" ELSE at[u]
  <2>1. /\ c \in Task /\ Loop' /\ at'[c] = "idle"
        /\ \A u \in Task \ {c} : at'[u] = IF u \in ToSet(sleepers) THEN "woken"
                                        ELSE IF u \in ToSet(<<>>) THEN "called" ELSE at[u]
    BY <1>1, <1>2, EmptyList, GoKeeps DEF LeaveInference, Point, Runnable
  <2> QED
    BY <1>1, <2>1, EmptyList
<1>4. Sideways(c)
  BY <1>3 DEF Sideways, LeaveInference, Loop, TypeOK
<1>5. active_inferences' = Cardinality(Readers') /\ active_inferences' \in 0..Cardinality(Client)
  <2>1. Readers' = Readers \ {c} /\ c \in Readers
    BY <1>3 DEF Readers, LeaveInference, Task
  <2> QED
    BY <2>1, ReaderLeaves DEF LeaveInference
<1>6. \A u \in Task : at'[u] # "asleep"
  BY <1>3
<1>7. TypeOK'
  BY <1>3, <1>5, <1>6, EmptyList DEF TypeOK, Loop, List, LeaveInference, outer
<1>8. Counted' /\ Excludes' /\ AskedBeside' /\ Wakeful'
  <2>1. active_inferences # 0
    BY <1>3, ReaderBounds DEF Readers, LeaveInference
  <2> QED
    BY <1>4, <1>5, <1>6, <2>1, SidewaysKeeps
       DEF Counted, Excludes, AskedBeside, Wakeful, LeaveInference, Task
<1> QED
  BY <1>4, <1>7, <1>8, SidewaysKeeps

\* One notification is passed on to who sleeps longest.
LEMMA PassOn ==
  ASSUME TypeOK, PassNotificationOn
  PROVE  /\ Rewoken \in List(Task) /\ \A u \in ToSet(Rewoken) : at[u] = "asleep"
         /\ sleepers' \in List(Task) /\ ToSet(sleepers') = ToSet(sleepers) \ ToSet(Rewoken)
         /\ PassesOn /\ sleepers # <<>> => \E u \in ToSet(Rewoken) : u \in Task
<1>1. sleepers \in List(Task) /\ ToSet(sleepers) = {t \in Task : at[t] = "asleep"}
  BY DEF TypeOK, List
<1>2. CASE PassesOn /\ sleepers # <<>>
  <2>1. Rewoken = <<Head(sleepers)>> /\ sleepers' = Tail(sleepers) /\ Rewoken # <<>>
    BY <1>2 DEF Rewoken, PassNotificationOn
  <2>2. Head(sleepers) \in Task /\ at[Head(sleepers)] = "asleep"
    BY <1>1, <1>2, ListTail
  <2>3. Rewoken \in List(Task) /\ ToSet(Rewoken) = {Head(sleepers)}
    BY <2>1, <2>2, OneList
  <2> QED
    BY <1>1, <1>2, <2>1, <2>2, <2>3, ListTail
<1>3. CASE ~(PassesOn /\ sleepers # <<>>)
  <2>1. Rewoken = <<>> /\ sleepers' = sleepers
    BY <1>3 DEF Rewoken, PassNotificationOn
  <2> QED
    BY <1>1, <1>3, <2>1, EmptyList
<1> QED
  BY <1>2, <1>3

\* The lock is offered to the first who waits for it.
LEMMA Offer ==
  ASSUME TypeOK, NEW q \in List(Op)
  PROVE  /\ FirstOf(q) \in List(Task) /\ \A u \in ToSet(FirstOf(q)) : at[u] = "queued"
         /\ ToSet(FirstOf(q)) = IF q # <<>> /\ at[Head(q)] = "queued" THEN {Head(q)} ELSE {}
<1>1. CASE q # <<>> /\ at[Head(q)] = "queued"
  <2>1. FirstOf(q) = <<Head(q)>> /\ Head(q) \in Task
    BY <1>1, ListTail DEF FirstOf, Task
  <2> QED
    BY <1>1, <2>1, OneList
<1>2. CASE ~(q # <<>> /\ at[Head(q)] = "queued")
  <2>1. FirstOf(q) = <<>>
    BY <1>2 DEF FirstOf
  <2> QED
    BY <1>2, <2>1, EmptyList
<1> QED
  BY <1>1, <1>2

\* A cancelled request, which passes on the notification it may have got.
LEMMA AbandonKeeps == ASSUME IInv, NEW c \in Client, AbandonInference(c) PROVE IInv'
<1> USE DEF IInv
<1>1. \A u \in Task : at[u] = "asleep" <=> u \in ToSet(sleepers)
  BY DEF TypeOK
<1>2. PICK w \in List(Task) :
        /\ Go(c, "idle", w, <<>>) /\ \A u \in ToSet(w) : at[u] = "asleep"
        /\ sleepers' \in List(Task) /\ ToSet(sleepers') = ToSet(sleepers) \ ToSet(w)
        /\ at[c] = "woken" /\ PassesOn /\ sleepers # <<>> => \E u \in ToSet(w) : u \in Task
  <2>1. CASE at[c] = "woken" /\ PassNotificationOn /\ Go(c, "idle", Rewoken, <<>>)
    BY <2>1, PassOn
  <2>2. CASE at[c] = "enter" /\ UNCHANGED sleepers /\ Go(c, "idle", <<>>, <<>>)
    <3>1. sleepers \in List(Task)
      BY DEF TypeOK, List
    <3> QED
      BY <2>2, <3>1, EmptyList
  <2> QED
    BY <2>1, <2>2 DEF AbandonInference
<1>3. /\ c \in Task /\ Loop' /\ at'[c] = "idle"
      /\ \A u \in Task \ {c} : at'[u] = IF u \in ToSet(w) THEN "woken" ELSE at[u]
  <2>1. /\ c \in Task /\ Loop' /\ at'[c] = "idle"
        /\ \A u \in Task \ {c} : at'[u] = IF u \in ToSet(w) THEN "woken"
                                        ELSE IF u \in ToSet(<<>>) THEN "called" ELSE at[u]
    BY <1>2, EmptyList, GoKeeps DEF AbandonInference, Point, Runnable
  <2> QED
    BY <2>1, EmptyList
<1>4. Sideways(c)
  BY <1>2, <1>3 DEF Sideways, AbandonInference, Loop, TypeOK, coordinator
<1>5. Readers' = Readers
  BY <1>2, <1>3 DEF Readers, AbandonInference, Task
<1>6. at[c] \in {"enter", "woken"} /\ UNCHANGED <<outer, coordinator, left>>
  BY DEF AbandonInference
<1>7. TypeOK'
  <2>1. ToSet(sleepers') = {t \in Task : at'[t] = "asleep"}
    <3>1. \A t \in Task : at'[t] = "asleep" <=> at[t] = "asleep" /\ t \notin ToSet(w)
      BY <1>2, <1>3, <1>6
    <3>2. ToSet(sleepers) = {t \in Task : at[t] = "asleep"}
      BY DEF TypeOK
    <3> QED
      BY <1>2, <3>1, <3>2
  <2> QED
    BY <1>2, <1>3, <1>6, <2>1 DEF TypeOK, Loop, List, outer, coordinator
<1>8. Counted' /\ Excludes' /\ AskedBeside'
  BY <1>3, <1>4, <1>5, <1>6, SidewaysKeeps, CoordinatorAssumption
     DEF Counted, Excludes, AskedBeside, coordinator, Task
<1>9. PassesOn => Wakeful'
  <2> SUFFICES ASSUME PassesOn, sleepers' # <<>>
               PROVE  lifecycle_active \/ active_inferences > 0 \/ \E t \in Task : at'[t] = "woken"
    BY <1>6 DEF Wakeful, coordinator
  <2>1. sleepers # <<>>
    <3>1. Head(sleepers') \in ToSet(sleepers)
      BY <1>2, ListTail
    <3> QED
      BY <3>1, EmptyList
  <2>2. CASE at[c] = "woken"
    BY <1>2, <1>3, <1>6, <2>1, <2>2
  <2>3. CASE at[c] = "enter"
    BY <1>3, <2>1, <2>3 DEF Wakeful
  <2> QED
    BY <1>6, <2>2, <2>3
<1> QED
  BY <1>4, <1>7, <1>8, <1>9, SidewaysKeeps

-----------------------------------------------------------------------------
(* What comes from outside the loop.                                       *)

\* A task that comes to the coordinator or to the lock.
LEMMA ArriveKeeps == ASSUME IInv, NEW t \in Task, Arrive(t) PROVE IInv'
<1> USE DEF IInv
<1>1. /\ Loop' /\ at'[t] = "enter" /\ at[t] = "idle" /\ \A u \in Task \ {t} : at'[u] = at[u]
  BY WakesKeeps DEF Arrive, Runnable
<1>2. UNCHANGED <<sleepers, owner, queue, active_inferences, lifecycle_waiters, lifecycle_active>>
  BY DEF Arrive, outer, coordinator
<1>3. left' \in [Op -> 0..Rounds]
  BY CoordinatorAssumption DEF Arrive, TypeOK
<1>4. TypeOK'
  <2>1. {u \in Task : at'[u] = "asleep"} = {u \in Task : at[u] = "asleep"}
    BY <1>1
  <2> QED
    BY <1>1, <1>2, <1>3, <2>1 DEF TypeOK, Loop, List
<1>5. \A p \in Point \ {"idle", "enter"} : \A u \in Task : at'[u] = p <=> at[u] = p
  BY <1>1
<1>6. Queued' /\ RequestsElsewhere' /\ Owned' /\ Called'
  BY <1>2, <1>5 DEF Queued, RequestsElsewhere, Owned, Called, Point, Task
<1>7. Readers' = Readers /\ Asked' = Asked
  BY <1>5 DEF Readers, Asked, Point, Task
<1>8. Counted' /\ Excludes' /\ AskedBeside'
  BY <1>2, <1>5, <1>7 DEF Counted, Excludes, AskedBeside, Point, Task
<1>9. PassesOn => Wakeful'
  BY <1>2, <1>5 DEF Wakeful, Point
<1> QED
  BY <1>4, <1>6, <1>8, <1>9

\* A task whose body ends.
LEMMA FinishKeeps == ASSUME IInv, NEW t \in Task, Finish(t) PROVE IInv'
<1> USE DEF IInv
<1>1. /\ Loop' /\ at'[t] = "leave" /\ at[t] = "inside" /\ \A u \in Task \ {t} : at'[u] = at[u]
  BY WakesKeeps DEF Finish, Runnable
<1>2. UNCHANGED <<sleepers, owner, queue, active_inferences, lifecycle_waiters, lifecycle_active, left>>
  BY DEF Finish, outer, coordinator
<1>4. TypeOK'
  <2>1. {u \in Task : at'[u] = "asleep"} = {u \in Task : at[u] = "asleep"}
    BY <1>1
  <2> QED
    BY <1>1, <1>2, <2>1 DEF TypeOK, Loop, List
<1>5. /\ \A p \in Point \ {"inside", "leave"} : \A u \in Task : at'[u] = p <=> at[u] = p
      /\ \A u \in Task : at'[u] \in {"inside", "leave"} <=> at[u] \in {"inside", "leave"}
  BY <1>1
<1>6. Queued' /\ RequestsElsewhere' /\ Owned' /\ Called'
  <2>1. \A u \in Task : at'[u] \in {"queued", "called", "dropped"} <=> at[u] \in {"queued", "called", "dropped"}
    BY <1>5 DEF Point
  <2>2. Queued' /\ RequestsElsewhere'
    BY <1>2, <2>1 DEF Queued, RequestsElsewhere, Task
  <2>3. \A u \in Task : at'[u] \in {"asleep", "woken", "inside", "leave"} <=> at[u] \in {"asleep", "woken", "inside", "leave"}
    BY <1>5 DEF Point
  <2>4. Owned'
    BY <1>2, <2>3 DEF Owned, Task
  <2>5. Called'
    BY <1>2, <1>5 DEF Called, Point, Task
  <2> QED
    BY <2>2, <2>4, <2>5
<1>7. Readers' = Readers /\ Asked' = Asked
  BY <1>5 DEF Readers, Asked, Point, Task
<1>8. Counted' /\ Excludes' /\ AskedBeside'
  BY <1>2, <1>5, <1>7 DEF Counted, Excludes, AskedBeside, Point, Task
<1>9. PassesOn => Wakeful'
  BY <1>2, <1>5 DEF Wakeful, Point
<1> QED
  BY <1>4, <1>6, <1>8, <1>9

\* A cancellation, which moves a waiting task to the ready queue.
LEMMA CancelKeeps == ASSUME IInv, NEW t \in Task, Cancel(t) PROVE IInv'
<1> USE DEF IInv
<1>1. UNCHANGED <<owner, queue, active_inferences, lifecycle_waiters, lifecycle_active, left>>
  BY DEF Cancel, outer, coordinator
<1>2. CASE at[t] = "asleep" /\ sleepers' = Without(sleepers, t) /\ Wakes(t, "woken")
  <2>1. /\ Loop' /\ at'[t] = "woken" /\ \A u \in Task \ {t} : at'[u] = at[u]
    BY <1>2, WakesKeeps DEF Cancel, Runnable
  <2>2. sleepers' \in List(Task) /\ ToSet(sleepers') = ToSet(sleepers) \ {t}
    BY <1>2, ListWithout DEF TypeOK, List
  <2>3. TypeOK'
    <3>1. {u \in Task : at'[u] = "asleep"} = {u \in Task : at[u] = "asleep"} \ {t}
      BY <2>1
    <3> QED
      BY <1>1, <2>1, <2>2, <3>1 DEF TypeOK, Loop, List
  <2>4. /\ \A p \in Point \ {"asleep", "woken"} : \A u \in Task : at'[u] = p <=> at[u] = p
        /\ \A u \in Task : at'[u] \in {"asleep", "woken"} <=> at[u] \in {"asleep", "woken"}
        /\ \A u \in Task : at'[u] = "asleep" => at[u] = "asleep"
    BY <1>2, <2>1
  <2>5. Queued' /\ RequestsElsewhere' /\ Owned' /\ Called'
    BY <1>1, <2>4 DEF Queued, RequestsElsewhere, Owned, Called, Point, Task
  <2>6. Readers' = Readers /\ Asked' = Asked
    BY <2>4 DEF Readers, Asked, Point, Task
  <2>7. Counted' /\ Excludes' /\ AskedBeside'
    BY <1>1, <2>4, <2>6 DEF Counted, Excludes, AskedBeside, Point, Task
  <2> QED
    BY <2>1, <2>3, <2>5, <2>7 DEF Wakeful
<1>3. CASE at[t] = "queued" /\ Wakes(t, "dropped") /\ UNCHANGED sleepers
  <2>1. /\ Loop' /\ at'[t] = "dropped" /\ \A u \in Task \ {t} : at'[u] = at[u]
    BY <1>3, WakesKeeps DEF Cancel, Runnable
  <2>2. TypeOK'
    <3>1. {u \in Task : at'[u] = "asleep"} = {u \in Task : at[u] = "asleep"}
      BY <1>3, <2>1
    <3> QED
      BY <1>1, <1>3, <2>1, <3>1 DEF TypeOK, Loop, List
  <2>3. /\ \A p \in Point \ {"queued", "dropped"} : \A u \in Task : at'[u] = p <=> at[u] = p
        /\ \A u \in Task : at'[u] \in {"queued", "dropped"} <=> at[u] \in {"queued", "dropped"}
    BY <1>3, <2>1
  <2>4. Queued' /\ RequestsElsewhere' /\ Owned' /\ Called'
    BY <1>1, <1>3, <2>3 DEF Queued, RequestsElsewhere, Owned, Called, Point, Task
  <2>5. Readers' = Readers /\ Asked' = Asked
    BY <2>3 DEF Readers, Asked, Point, Task
  <2>6. Counted' /\ Excludes' /\ AskedBeside'
    BY <1>1, <2>3, <2>5 DEF Counted, Excludes, AskedBeside, Point, Task
  <2>7. PassesOn => Wakeful'
    BY <1>1, <1>3, <2>3 DEF Wakeful, Point
  <2> QED
    BY <2>2, <2>4, <2>6, <2>7
<1>4. CASE at[t] \in {"enter", "woken", "called"} /\ UNCHANGED <<at, ready, sleepers>>
  <2>1. TypeOK'
    BY <1>1, <1>4 DEF TypeOK, Cancel, Runnable
  <2>2. /\ Queued' /\ RequestsElsewhere' /\ Owned' /\ Called'
        /\ Counted' /\ Excludes' /\ AskedBeside' /\ (PassesOn => Wakeful')
    BY <1>1, <1>4 DEF Queued, RequestsElsewhere, Owned, Called, Counted, Readers, Asked,
       Excludes, AskedBeside, Wakeful
  <2> QED
    BY <2>1, <2>2
<1> QED
  BY <1>2, <1>3, <1>4 DEF Cancel

-----------------------------------------------------------------------------
(* Operations.                                                             *)

\* Tasks are requests or operations.
LEMMA Parts == Task = Client \cup Op /\ Client \cap Op = {} /\ None \notin Task
  BY CoordinatorAssumption DEF Task

\* The type invariant, part by part.
LEMMA Types ==
  TypeOK <=> /\ Loop /\ sleepers \in List(Task) /\ queue \in List(Op)
             /\ ToSet(sleepers) = {t \in Task : at[t] = "asleep"}
             /\ owner \in Op \cup {None} /\ active_inferences \in 0..Cardinality(Client)
             /\ lifecycle_waiters \in 0..1 /\ lifecycle_active \in BOOLEAN
             /\ left \in [Op -> 0..Rounds]
  BY DEF TypeOK, Loop, List

\* The lock is taken when nobody has it and nobody else was called.
LEMMA LockTaken ==
  ASSUME IInv, NEW o \in Op, Locks(o)
  PROVE  /\ owner = None /\ owner' = o /\ ~lifecycle_active /\ lifecycle_waiters = 0
         /\ at[o] \in {"enter", "called"}
         /\ \A q \in Op : at[q] \notin {"asleep", "woken", "inside", "leave"}
         /\ \A q \in Op \ {o} : at[q] # "called"
         /\ queue' \in List(Op) /\ ToSet(queue') = ToSet(queue) \ {o}
<1> USE DEF IInv
<1>1. owner = None /\ owner' = o /\ at[o] \in {"enter", "called"}
  BY DEF Locks, LockFree, Called
<1>2. \A q \in Op : at[q] \notin {"asleep", "woken", "inside", "leave"}
  BY <1>1, Parts DEF Owned
<1>3. queue' \in List(Op) /\ ToSet(queue') = ToSet(queue) \ {o}
  BY ListWithout, Types DEF Locks
<1>4. ASSUME NEW q \in Op \ {o}, at[q] = "called" PROVE FALSE
  <2>1. queue # <<>> /\ Head(queue) = q
    BY <1>4 DEF Called
  <2>2. 1 \in DOMAIN queue /\ queue[1] = q
    BY <2>1, Types DEF List
  <2>3. at[o] # "called"
    BY <1>4, <2>1 DEF Called
  <2> QED
    BY <1>1, <1>4, <2>2, <2>3 DEF Locks, LockFree
<1>5. ~lifecycle_active /\ lifecycle_waiters = 0
  BY <1>2 DEF Counted, Asked
<1> QED
  BY <1>1, <1>2, <1>3, <1>4, <1>5

\* An operation that finds the lock taken.
LEMMA QueueUpKeeps == ASSUME IInv, NEW o \in Op, QueueUp(o) PROVE IInv'
<1> USE DEF IInv
<1>1. /\ o \in Task /\ Loop' /\ at'[o] = "queued" /\ \A u \in Task \ {o} : at'[u] = at[u]
  <2>1. /\ TypeOK /\ Runs(o) /\ at[o] = "enter" /\ Go(o, "queued", <<>>, <<>>)
        /\ "queued" \in Point \ Runnable
    BY DEF QueueUp, Point, Runnable
  <2>2. <<>> \in List(Task) /\ ToSet(<<>>) = {}
    BY EmptyList
  <2> QED
    BY <2>1, <2>2, GoKeeps
<1>2. at[o] = "enter" /\ UNCHANGED <<sleepers, owner, coordinator, left>>
  BY DEF QueueUp
<1>3. /\ queue' \in List(Op) /\ ToSet(queue') = ToSet(queue) \cup {o}
      /\ queue' # <<>>
      /\ queue # <<>> => Head(queue') = Head(queue)
  BY <1>2, Types, ListAppend DEF QueueUp, Queued
<1>4. /\ \A p \in Point \ {"enter", "queued"} : \A u \in Task : at'[u] = p <=> at[u] = p
  BY <1>1, <1>2
<1>5. TypeOK'
  <2>1. {u \in Task : at'[u] = "asleep"} = {u \in Task : at[u] = "asleep"}
    BY <1>4 DEF Point
  <2> QED
    BY <1>1, <1>2, <1>3, <2>1 DEF TypeOK, Loop, List, coordinator
<1>6. Queued' /\ RequestsElsewhere' /\ Owned' /\ Called'
  <2>1. Queued' /\ RequestsElsewhere'
    BY <1>1, <1>2, <1>3, Parts DEF Queued, RequestsElsewhere
  <2>2. Owned'
    BY <1>1, <1>2, Parts DEF Owned
  <2>3. Called'
    BY <1>1, <1>2, <1>3, Parts DEF Called
  <2> QED
    BY <2>1, <2>2, <2>3
<1>7. Readers' = Readers /\ Asked' = Asked
  BY <1>4, Parts DEF Readers, Asked, Point
<1>8. Counted' /\ Excludes' /\ AskedBeside' /\ (PassesOn => Wakeful')
  BY <1>2, <1>4, <1>7, Parts DEF Counted, Excludes, AskedBeside, Wakeful, Point, coordinator
<1> QED
  BY <1>5, <1>6, <1>8

\* An operation that takes the lock and finds no request inside.
LEMMA BeginKeeps == ASSUME IInv, NEW o \in Op, Begin(o) PROVE IInv'
<1> USE DEF IInv
<1>1. /\ o \in Task /\ Loop' /\ at'[o] = "inside" /\ \A u \in Task \ {o} : at'[u] = at[u]
  BY EmptyList, GoKeeps DEF Begin, Locks, Point, Runnable
<1>2. /\ owner = None /\ owner' = o /\ at[o] \in {"enter", "called"}
      /\ \A q \in Op : at[q] \notin {"asleep", "woken", "inside", "leave"}
      /\ \A q \in Op \ {o} : at[q] # "called"
      /\ queue' \in List(Op) /\ ToSet(queue') = ToSet(queue) \ {o}
      /\ lifecycle_waiters = 0
  BY LockTaken DEF Begin
<1>3. /\ lifecycle_active' = TRUE /\ active_inferences = 0
      /\ UNCHANGED <<sleepers, active_inferences, lifecycle_waiters, left>>
  BY DEF Begin, CanWrite
<1>4. TypeOK'
  <2>1. {u \in Task : at'[u] = "asleep"} = {u \in Task : at[u] = "asleep"}
    BY <1>1, <1>2
  <2> QED
    BY <1>1, <1>2, <1>3, <2>1 DEF TypeOK, Loop, List
<1>5. Queued' /\ RequestsElsewhere' /\ Owned' /\ Called'
  BY <1>1, <1>2, Parts DEF Queued, RequestsElsewhere, Owned, Called
<1>6. Readers' = Readers /\ Asked' = {}
  BY <1>1, <1>2, Parts DEF Readers, Asked
<1>7. Counted' /\ Excludes' /\ AskedBeside' /\ Wakeful'
  BY <1>1, <1>2, <1>3, <1>6, Parts DEF Counted, Excludes, AskedBeside, Wakeful
<1> QED
  BY <1>4, <1>5, <1>7

\* An operation that takes the lock and waits for the requests inside.
LEMMA AnnounceKeeps == ASSUME IInv, NEW o \in Op, Announce(o) PROVE IInv'
<1> USE DEF IInv
<1>1. /\ o \in Task /\ Loop' /\ at'[o] = "asleep" /\ \A u \in Task \ {o} : at'[u] = at[u]
  BY EmptyList, GoKeeps DEF Announce, Locks, Point, Runnable
<1>2. /\ owner = None /\ owner' = o /\ at[o] \in {"enter", "called"}
      /\ \A q \in Op : at[q] \notin {"asleep", "woken", "inside", "leave"}
      /\ \A q \in Op \ {o} : at[q] # "called"
      /\ queue' \in List(Op) /\ ToSet(queue') = ToSet(queue) \ {o}
      /\ ~lifecycle_active /\ lifecycle_waiters = 0
  BY LockTaken DEF Announce
<1>3. /\ lifecycle_waiters' = 1 /\ active_inferences > 0
      /\ UNCHANGED <<active_inferences, lifecycle_active, left>>
  BY <1>2, Types DEF Announce, CanWrite
<1>4. sleepers' \in List(Task) /\ ToSet(sleepers') = ToSet(sleepers) \cup {o}
  BY <1>1, <1>2, Types, ListAppend DEF Announce
<1>5. TypeOK'
  <2>1. {u \in Task : at'[u] = "asleep"} = {u \in Task : at[u] = "asleep"} \cup {o}
    BY <1>1
  <2> QED
    BY <1>1, <1>2, <1>3, <1>4, <2>1 DEF TypeOK, Loop, List
<1>6. Queued' /\ RequestsElsewhere' /\ Owned' /\ Called'
  BY <1>1, <1>2, Parts DEF Queued, RequestsElsewhere, Owned, Called
<1>7. Readers' = Readers /\ Asked' = {o}
  BY <1>1, <1>2, Parts DEF Readers, Asked
<1>8. Counted' /\ Excludes' /\ AskedBeside' /\ Wakeful'
  BY <1>1, <1>2, <1>3, <1>7, Parts DEF Counted, Excludes, AskedBeside, Wakeful
<1> QED
  BY <1>5, <1>6, <1>8

\* Whoever has the lock: nobody else is past it, and nobody was called.
LEMMA LockHeld ==
  ASSUME IInv, NEW o \in Op, at[o] \in {"asleep", "woken", "inside", "leave"}
  PROVE  /\ owner = o
         /\ \A q \in Op \ {o} : at[q] \notin {"asleep", "woken", "inside", "leave"}
         /\ \A q \in Op : at[q] # "called"
  BY Parts DEF IInv, Owned, Called

\* An operation that was woken looks again.
LEMMA RetryKeeps == ASSUME IInv, NEW o \in Op, Retry(o) PROVE IInv'
<1> USE DEF IInv
<1>1. at[o] = "woken" /\ UNCHANGED <<owner, queue, active_inferences, left>>
  BY DEF Retry, outer
<1>2. /\ owner = o /\ \A q \in Op : at[q] # "called"
      /\ \A q \in Op \ {o} : at[q] \notin {"asleep", "woken", "inside", "leave"}
  BY <1>1, LockHeld
<1>3. ~lifecycle_active /\ lifecycle_waiters = 1
  BY <1>1, <1>2 DEF Counted, Asked
<1>4. CASE CanWrite
  <2>1. /\ o \in Task /\ Loop' /\ at'[o] = "inside" /\ \A u \in Task \ {o} : at'[u] = at[u]
    BY <1>4, EmptyList, GoKeeps DEF Retry, Point, Runnable
  <2>2. /\ lifecycle_active' = TRUE /\ lifecycle_waiters' = 0 /\ sleepers' = sleepers
        /\ active_inferences = 0
    BY <1>3, <1>4 DEF Retry, CanWrite
  <2>3. TypeOK'
    <3>1. {u \in Task : at'[u] = "asleep"} = {u \in Task : at[u] = "asleep"}
      BY <1>1, <2>1
    <3> QED
      BY <1>1, <2>1, <2>2, <3>1 DEF TypeOK, Loop, List
  <2>4. Queued' /\ RequestsElsewhere' /\ Owned' /\ Called'
    BY <1>1, <1>2, <2>1, Parts DEF Queued, RequestsElsewhere, Owned, Called
  <2>5. Readers' = Readers /\ Asked' = {}
    BY <1>2, <2>1, Parts DEF Readers, Asked
  <2>6. Counted' /\ Excludes' /\ AskedBeside' /\ Wakeful'
    BY <1>1, <1>2, <2>1, <2>2, <2>5, Parts DEF Counted, Excludes, AskedBeside, Wakeful
  <2> QED
    BY <2>3, <2>4, <2>6
<1>5. CASE ~CanWrite
  <2>1. /\ o \in Task /\ Loop' /\ at'[o] = "asleep" /\ \A u \in Task \ {o} : at'[u] = at[u]
    BY <1>5, EmptyList, GoKeeps DEF Retry, Point, Runnable
  <2>2. /\ UNCHANGED <<lifecycle_active, lifecycle_waiters>> /\ active_inferences > 0
    BY <1>3, <1>5, Types DEF Retry, CanWrite
  <2>3. sleepers' \in List(Task) /\ ToSet(sleepers') = ToSet(sleepers) \cup {o}
    <3>1. sleepers' = Append(sleepers, o) /\ o \notin ToSet(sleepers) /\ sleepers \in List(Task)
      BY <1>1, <1>5, Types DEF Retry
    <3> QED
      BY <2>1, <3>1, ListAppend
  <2>4. TypeOK'
    <3>1. {u \in Task : at'[u] = "asleep"} = {u \in Task : at[u] = "asleep"} \cup {o}
      BY <2>1
    <3> QED
      BY <1>1, <2>1, <2>2, <2>3, <3>1 DEF TypeOK, Loop, List
  <2>5. Queued' /\ RequestsElsewhere' /\ Owned' /\ Called'
    BY <1>1, <1>2, <2>1, Parts DEF Queued, RequestsElsewhere, Owned, Called
  <2>6. Readers' = Readers /\ Asked' = Asked
    BY <1>1, <2>1, Parts DEF Readers, Asked
  <2>7. Counted' /\ Excludes' /\ AskedBeside' /\ Wakeful'
    BY <1>1, <1>2, <2>1, <2>2, <2>6, Parts DEF Counted, Excludes, AskedBeside, Wakeful
  <2> QED
    BY <2>4, <2>5, <2>7
<1> QED
  BY <1>4, <1>5

\* Whoever has the lock gives it back and offers it to the first who waits for it.
LEMMA HandOver ==
  ASSUME IInv, NEW o \in Op, at[o] \in {"woken", "leave"},
         NEW woken \in List(Task), \A u \in ToSet(woken) : at[u] = "asleep",
         Runs(o), Go(o, "idle", woken, FirstOf(queue)), owner' = None, queue' = queue
  PROVE  /\ Loop' /\ at'[o] = "idle"
         /\ \A u \in Task \ {o} : at'[u] = IF u \in ToSet(woken) THEN "woken"
                                         ELSE IF u \in ToSet(FirstOf(queue)) THEN "called" ELSE at[u]
         /\ Queued' /\ RequestsElsewhere' /\ Owned' /\ Called'
         /\ Readers' = Readers /\ Asked' = {}
         /\ \A q \in Op : at'[q] \notin {"inside", "leave"}
         /\ \A a, b \in Task \ {o} : at[a] = "enter" /\ at[b] = "enter"
                => (Ahead(ready', a, b) <=> Ahead(ready, a, b))
<1> USE DEF IInv
<1>1. /\ \A q \in Op : at[q] # "called"
      /\ \A q \in Op \ {o} : at[q] \notin {"asleep", "woken", "inside", "leave"}
  BY LockHeld
<1>2. /\ FirstOf(queue) \in List(Task) /\ \A u \in ToSet(FirstOf(queue)) : at[u] = "queued"
      /\ \A u \in ToSet(FirstOf(queue)) : queue # <<>> /\ Head(queue) = u
  BY Offer, Types
<1>3. /\ o \in Task /\ Loop' /\ at'[o] = "idle"
      /\ \A u \in Task \ {o} : at'[u] = IF u \in ToSet(woken) THEN "woken"
                                      ELSE IF u \in ToSet(FirstOf(queue)) THEN "called" ELSE at[u]
      /\ \A a, b \in Task \ {o} : at[a] = "enter" /\ at[b] = "enter"
            => (Ahead(ready', a, b) <=> Ahead(ready, a, b))
  BY <1>2, GoKeeps DEF Point, Runnable
<1>4. \A q \in Op \ {o} : at'[q] = IF q \in ToSet(FirstOf(queue)) THEN "called" ELSE at[q]
  BY <1>1, <1>3, Parts
<1>5. \A c \in Client : at'[c] = IF c \in ToSet(woken) THEN "woken" ELSE at[c]
  <2>1. \A c \in Client : c \notin ToSet(FirstOf(queue))
    BY <1>2 DEF RequestsElsewhere
  <2> QED
    BY <1>3, <2>1, Parts
<1>6. Queued'
  BY <1>1, <1>2, <1>3, <1>4 DEF Queued
<1>7. RequestsElsewhere'
  BY <1>5 DEF RequestsElsewhere
<1>8. Owned'
  BY <1>1, <1>3, <1>4, Parts DEF Owned
<1>9. Called'
  BY <1>1, <1>2, <1>3, <1>4 DEF Called
<1>10. Readers' = Readers
  BY <1>5 DEF Readers
<1>11. Asked' = {} /\ \A q \in Op : at'[q] \notin {"inside", "leave"}
  BY <1>1, <1>3, <1>4 DEF Asked
<1> QED
  BY <1>3, <1>6, <1>7, <1>8, <1>9, <1>10, <1>11

\* An operation that ends wakes the sleepers and hands the lock over.
LEMMA LeaveLifecycleKeeps == ASSUME IInv, NEW o \in Op, LeaveLifecycle(o) PROVE IInv'
<1> USE DEF IInv
<1>1. /\ at[o] = "leave" /\ Runs(o) /\ Go(o, "idle", sleepers, FirstOf(queue))
      /\ owner' = None /\ sleepers' = <<>> /\ lifecycle_active' = FALSE
      /\ UNCHANGED <<queue, active_inferences, lifecycle_waiters, left>>
  BY DEF LeaveLifecycle
<1>2. sleepers \in List(Task) /\ \A u \in Task : at[u] = "asleep" <=> u \in ToSet(sleepers)
  BY Types
<1>3. /\ Loop' /\ at'[o] = "idle"
      /\ \A u \in Task \ {o} : at'[u] = IF u \in ToSet(sleepers) THEN "woken"
                                      ELSE IF u \in ToSet(FirstOf(queue)) THEN "called" ELSE at[u]
      /\ Queued' /\ RequestsElsewhere' /\ Owned' /\ Called' /\ Readers' = Readers /\ Asked' = {}
      /\ \A q \in Op : at'[q] \notin {"inside", "leave"}
  BY <1>1, <1>2, ListMembers, HandOver
<1>4. lifecycle_waiters = 0
  BY <1>1, LockHeld DEF Counted, Asked
<1>5. \A u \in Task : at'[u] # "asleep"
  BY <1>2, <1>3
<1>6. TypeOK'
  BY <1>1, <1>3, <1>5, EmptyList DEF TypeOK, Loop, List
<1>7. Counted' /\ Excludes' /\ AskedBeside' /\ Wakeful'
  BY <1>1, <1>3, <1>4, <1>5, Parts DEF Counted, Excludes, AskedBeside, Wakeful
<1> QED
  BY <1>3, <1>6, <1>7

\* A cancelled operation that had announced itself.
LEMMA GiveUpKeeps == ASSUME IInv, NEW o \in Op, GiveUp(o) PROVE IInv'
<1> USE DEF IInv
<1>1. /\ at[o] = "woken" /\ Runs(o) /\ Go(o, "idle", Rewoken, FirstOf(queue))
      /\ owner' = None /\ PassNotificationOn /\ lifecycle_waiters' = lifecycle_waiters - 1
      /\ UNCHANGED <<queue, active_inferences, lifecycle_active, left>>
  BY DEF GiveUp
<1>2. /\ Rewoken \in List(Task) /\ \A u \in ToSet(Rewoken) : at[u] = "asleep"
      /\ sleepers' \in List(Task) /\ ToSet(sleepers') = ToSet(sleepers) \ ToSet(Rewoken)
      /\ PassesOn /\ sleepers # <<>> => \E u \in ToSet(Rewoken) : u \in Task
  BY <1>1, PassOn
<1>3. /\ Loop' /\ at'[o] = "idle"
      /\ \A u \in Task \ {o} : at'[u] = IF u \in ToSet(Rewoken) THEN "woken"
                                      ELSE IF u \in ToSet(FirstOf(queue)) THEN "called" ELSE at[u]
      /\ Queued' /\ RequestsElsewhere' /\ Owned' /\ Called' /\ Readers' = Readers /\ Asked' = {}
      /\ \A q \in Op : at'[q] \notin {"inside", "leave"}
  BY <1>1, <1>2, HandOver
<1>4. lifecycle_waiters = 1 /\ ~lifecycle_active
  BY <1>1, LockHeld DEF Counted, Asked
<1>5. {u \in Task : at'[u] = "asleep"} = {u \in Task : at[u] = "asleep"} \ ToSet(Rewoken)
  <2>1. \A u \in ToSet(FirstOf(queue)) : at[u] = "queued"
    BY Offer, Types
  <2> QED
    BY <1>1, <1>2, <1>3, <2>1
<1>6. TypeOK'
  BY <1>1, <1>2, <1>3, <1>4, <1>5, Parts DEF TypeOK, Loop, List
<1>7. Counted' /\ Excludes'
  BY <1>1, <1>3, <1>4 DEF Counted, Excludes
<1>8. AskedBeside'
  BY <1>3 DEF AskedBeside, Asked
<1>9. PassesOn => Wakeful'
  <2> SUFFICES ASSUME PassesOn, sleepers' # <<>> PROVE \E t \in Task : at'[t] = "woken"
    BY DEF Wakeful
  <2>1. sleepers # <<>>
    <3>1. Head(sleepers') \in ToSet(sleepers)
      BY <1>2, ListTail
    <3> QED
      BY <3>1, EmptyList
  <2> QED
    BY <1>1, <1>2, <1>3, <2>1
<1> QED
  BY <1>3, <1>6, <1>7, <1>8, <1>9

\* A cancelled operation that waited for the lock.
LEMMA DequeueKeeps == ASSUME IInv, NEW o \in Op, Dequeue(o) PROVE IInv'
<1> USE DEF IInv
<1> DEFINE next == IF owner = None /\ at[o] # "enter" THEN FirstOf(queue') ELSE <<>>
<1>1. /\ at[o] \in {"enter", "called", "dropped"} /\ Runs(o)
      /\ queue' = Without(queue, o) /\ Go(o, "idle", <<>>, next)
      /\ UNCHANGED <<sleepers, owner, active_inferences, lifecycle_waiters, lifecycle_active, left>>
  BY DEF Dequeue, coordinator
<1>2. /\ queue' \in List(Op) /\ ToSet(queue') = ToSet(queue) \ {o}
      /\ queue # <<>> /\ Head(queue) # o => queue' # <<>> /\ Head(queue') = Head(queue)
  BY <1>1, ListWithout, Types
<1>3. /\ next \in List(Task) /\ \A u \in ToSet(next) : at[u] = "queued"
      /\ \A u \in ToSet(next) : owner = None /\ queue' # <<>> /\ Head(queue') = u
  <2>1. CASE owner = None /\ at[o] # "enter"
    <3>1. /\ FirstOf(queue') \in List(Task) /\ \A u \in ToSet(FirstOf(queue')) : at[u] = "queued"
          /\ \A u \in ToSet(FirstOf(queue')) : queue' # <<>> /\ Head(queue') = u
      <4> DEFINE w == queue'
      <4>1. w \in List(Op)
        BY <1>2
      <4> HIDE DEF w
      <4>2. /\ FirstOf(w) \in List(Task) /\ \A u \in ToSet(FirstOf(w)) : at[u] = "queued"
            /\ \A u \in ToSet(FirstOf(w)) : w # <<>> /\ Head(w) = u
        BY <4>1, Offer
      <4> QED
        BY <4>2 DEF w
    <3> QED
      BY <2>1, <3>1
  <2>2. CASE ~(owner = None /\ at[o] # "enter")
    BY <2>2, EmptyList
  <2> QED
    BY <2>1, <2>2
<1> HIDE DEF next
<1>4. /\ o \in Task /\ Loop' /\ at'[o] = "idle"
      /\ \A u \in Task \ {o} : at'[u] = IF u \in ToSet(next) THEN "called" ELSE at[u]
  <2>1. /\ o \in Task /\ Loop' /\ at'[o] = "idle"
        /\ \A u \in Task \ {o} : at'[u] = IF u \in ToSet(<<>>) THEN "woken"
                                        ELSE IF u \in ToSet(next) THEN "called" ELSE at[u]
    BY <1>1, <1>3, EmptyList, GoKeeps DEF Point, Runnable
  <2> QED
    BY <2>1, EmptyList
<1>5. /\ \A p \in Point \ {"enter", "idle", "queued", "called", "dropped"} :
            \A u \in Task : at'[u] = p <=> at[u] = p
      /\ \A u \in Task \ {o} : at'[u] \in {"queued", "called"} <=> at[u] \in {"queued", "called"}
      /\ \A u \in Task \ {o} : at'[u] = "dropped" <=> at[u] = "dropped"
  BY <1>1, <1>3, <1>4
<1>6. TypeOK'
  <2>1. {u \in Task : at'[u] = "asleep"} = {u \in Task : at[u] = "asleep"}
    BY <1>5 DEF Point
  <2> QED
    BY <1>1, <1>2, <1>4, <2>1 DEF TypeOK, Loop, List
<1>7. Queued'
  BY <1>1, <1>2, <1>4, <1>5, Parts DEF Queued
<1>8. RequestsElsewhere' /\ Owned'
  BY <1>1, <1>4, <1>5, Parts DEF RequestsElsewhere, Owned, Point
<1>9. Called'
  BY <1>1, <1>2, <1>3, <1>4, Parts DEF Called
<1>10. Readers' = Readers /\ Asked' = Asked
  BY <1>5, Parts DEF Readers, Asked, Point
<1>11. Counted' /\ Excludes' /\ AskedBeside' /\ (PassesOn => Wakeful')
  BY <1>1, <1>5, <1>10, Parts DEF Counted, Excludes, AskedBeside, Wakeful, Point
<1> QED
  BY <1>6, <1>7, <1>8, <1>9, <1>11

-----------------------------------------------------------------------------
(* The invariant, and what follows.                                        *)

\* Nobody has come yet.
LEMMA InitIInv == Init => IInv
<1> SUFFICES ASSUME Init PROVE IInv
  OBVIOUS
<1> USE DEF Init
<1>1. Readers = {} /\ Asked = {} /\ \A t \in Task : at[t] = "idle"
  BY Parts DEF Readers, Asked
<1>2. Cardinality({}) = 0 /\ Cardinality(Client) \in Nat
  BY CoordinatorAssumption, FS_EmptySet, FS_CardinalityType
<1>3. TypeOK
  <2>1. /\ ready \in Seq(Task) /\ sleepers \in Seq(Task) /\ queue \in Seq(Op)
        /\ IsInjective(ready) /\ IsInjective(sleepers) /\ IsInjective(queue)
        /\ ToSet(ready) = {} /\ ToSet(sleepers) = {}
    BY EmptyList DEF List
  <2>2. \A t \in Task : (at[t] \in Runnable) = (t \in ToSet(ready))
    BY <1>1, <2>1 DEF Runnable
  <2>3. {t \in Task : at[t] = "asleep"} = {}
    BY <1>1
  <2>4. left \in [Op -> 0..Rounds] /\ at \in [Task -> Point]
    BY CoordinatorAssumption DEF Point
  <2>5. active_inferences \in 0..Cardinality(Client) /\ lifecycle_waiters \in 0..1
    BY <1>2
  <2>6. cancelled = {} /\ owner = None /\ lifecycle_active \in BOOLEAN
    OBVIOUS
  <2> QED
    BY <2>1, <2>2, <2>3, <2>4, <2>5, <2>6 DEF TypeOK
<1>4. Queued /\ RequestsElsewhere /\ Owned /\ Called
  BY <1>1, EmptyList, Parts DEF Queued, RequestsElsewhere, Owned, Called
<1>5. Counted /\ Excludes /\ AskedBeside /\ Wakeful
  BY <1>1, <1>2, Parts DEF Counted, Excludes, AskedBeside, Wakeful
<1> QED
  BY <1>3, <1>4, <1>5 DEF IInv

\* No step breaks the invariant.
LEMMA NextIInv == IInv /\ [Next]_vars => IInv'
<1> SUFFICES ASSUME IInv, [Next]_vars PROVE IInv'
  OBVIOUS
<1>1. CASE Step
  BY <1>1, AdmitKeeps, SleepKeeps, LeaveInferenceKeeps, AbandonKeeps, QueueUpKeeps, BeginKeeps,
     AnnounceKeeps, RetryKeeps, LeaveLifecycleKeeps, GiveUpKeeps, DequeueKeeps DEF Step
<1>2. CASE \E t \in Task : Arrive(t) \/ Finish(t) \/ Cancel(t)
  BY <1>2, ArriveKeeps, FinishKeeps, CancelKeeps
<1>3. CASE UNCHANGED vars
  BY <1>3 DEF vars, outer, coordinator, IInv, TypeOK, Queued, RequestsElsewhere, Owned, Called,
     Counted, Readers, Asked, Excludes, AskedBeside, Wakeful
<1> QED
  BY <1>1, <1>2, <1>3 DEF Next

\* The invariant always holds.
LEMMA Invariance == Spec => []IInv
  BY InitIInv, NextIInv, PTL DEF Spec

\* Every state of the coordinator has its types: the loop holds exactly the tasks that
\* may run, each once, and the counters stay within the number of requests and one.
THEOREM CoordinatorTypes == Spec => []TypeOK
<1>1. IInv => TypeOK
  BY DEF IInv
<1> QED
  BY <1>1, Invariance, PTL

\* _InferenceCoordinator.lifecycle excludes inference: an operation inside the session is
\* alone, among operations and among requests.
Alone ==
    \A o \in Op : at[o] \in {"inside", "leave"} =>
        \A t \in Task \ {o} : at[t] \notin {"inside", "leave"}

\* An operation has the worker to itself, whoever comes and is cancelled (router.py:264-280).
THEOREM OperationsAlone == Spec => []Alone
<1>1. IInv => Alone
  <2> SUFFICES ASSUME IInv, NEW o \in Op, at[o] \in {"inside", "leave"},
                      NEW t \in Task \ {o}, at[t] \in {"inside", "leave"}
               PROVE  FALSE
    BY DEF Alone
  <2>1. t \notin Op
    BY LockHeld
  <2>2. active_inferences = 0 /\ t \in Readers
    BY <2>1, Parts DEF IInv, Counted, Excludes, Readers
  <2> QED
    BY <2>2, ReaderBounds DEF IInv
<1> QED
  BY <1>1, Invariance, PTL

\* No lost wakeup, with the Condition of every Python: an operation sleeps only beside a
\* request whose notify_all will wake it.  From 3.13 on, where a cancelled waiter passes its
\* notification on, requests are not forgotten either (router.py:250-280).
THEOREM NoLostWakeup == Spec => []SomeoneWillWake
<1>1. IInv => SomeoneWillWake
  <2>1. IInv => ((\E o \in Op : at[o] = "asleep") => active_inferences > 0)
    BY DEF IInv, AskedBeside
  <2>2. ASSUME IInv, PassesOn, ready = <<>>, sleepers # <<>>
        PROVE  lifecycle_active \/ active_inferences > 0
    <3>1. \A t \in Task : at[t] # "woken"
      BY <2>2, EmptyList DEF IInv, TypeOK, Runnable
    <3> QED
      BY <2>2, <3>1 DEF IInv, Wakeful
  <2> QED
    BY <2>1, <2>2 DEF SomeoneWillWake
<1> QED
  BY <1>1, Invariance, PTL

-----------------------------------------------------------------------------
(* The refinement: each step of a task is a step of ModelLease, or leaves  *)
(* the lease as it is.                                                     *)

\* What the abstract lease calls its writer, of a set of at most one.
LEMMA One ==
  ASSUME NEW S, NEW o, S \subseteq {o}
  PROVE  TheOne(S) = IF S = {} THEN None ELSE o
<1>1. CASE S = {}
  BY <1>1 DEF TheOne
<1>2. CASE S = {o}
  BY <1>2 DEF TheOne
<1> QED
  BY <1>1, <1>2

\* What decides who came before whom, among the operations of S.
LEMMA OrderStays ==
  ASSUME NEW S,
         \A p \in S : /\ p = owner' <=> p = owner
                      /\ at'[p] \in {"queued", "called"} <=> at[p] \in {"queued", "called"}
                      /\ at'[p] = "enter" <=> at[p] = "enter",
         \A p, q \in S : /\ Ahead(queue', p, q) <=> Ahead(queue, p, q)
                         /\ at[p] = "enter" /\ at[q] = "enter"
                              => (Ahead(ready', p, q) <=> Ahead(ready, p, q))
  PROVE  \A p, q \in S : Before(p, q)' <=> Before(p, q)
  BY DEF Before

\* Order is the set of pairs in which the first came before the second.
LEMMA OrderPairs == \A p, q : <<p, q>> \in Order <=> p \in Came /\ q \in Came /\ Before(p, q)
  BY DEF Order

\* The order stays when nobody comes or goes and nobody overtakes.
LEMMA SameOrder ==
  ASSUME Came' = Came, \A p, q \in Came : Before(p, q)' <=> Before(p, q)
  PROVE  Order' = Order
  BY DEF Order

-----------------------------------------------------------------------------
(* Requests.                                                               *)

\* A step of a request changes nothing about the operations.
LEMMA RequestAside ==
  ASSUME IInv, NEW c \in Client, Sideways(c),
         \A a, b \in Task \ {c} : at[a] = "enter" /\ at[b] = "enter"
            => (Ahead(ready', a, b) <=> Ahead(ready, a, b))
  PROVE  Writers' = Writers /\ Asked' = Asked /\ Came' = Came /\ Order' = Order
<1>1. /\ \A o \in Op : o \in Task \ {c} /\ (at'[o] = at[o] \/ (at[o] = "asleep" /\ at'[o] = "woken"))
      /\ UNCHANGED <<owner, queue>>
  BY Parts DEF Sideways, outer
<1>2. Writers' = Writers /\ Asked' = Asked /\ Came' = Came
  BY <1>1 DEF Writers, Asked, Came
<1>3. \A p, q \in Came : Before(p, q)' <=> Before(p, q)
  BY <1>1, OrderStays DEF Came
<1> QED
  BY <1>2, <1>3, SameOrder

\* A request let in enters the abstract lease.
LEMMA AdmitEnters == ASSUME IInv, NEW c \in Client, Admit(c) PROVE Lease!Enter(c)
<1>1. /\ c \in Task /\ Loop' /\ at'[c] = "inside" /\ \A u \in Task \ {c} : at'[u] = at[u]
      /\ \A a, b \in Task \ {c} : at[a] = "enter" /\ at[b] = "enter"
            => (Ahead(ready', a, b) <=> Ahead(ready, a, b))
  BY EmptyList, GoKeeps DEF IInv, Admit, Point, Runnable
<1>2. Sideways(c)
  BY <1>1 DEF Sideways, Admit, Loop, IInv, TypeOK
<1>3. Writers' = Writers /\ Asked' = Asked /\ Came' = Came /\ Order' = Order
  BY <1>1, <1>2, RequestAside
<1>4. Readers' = Readers \cup {c} /\ c \notin Readers
  BY <1>1, Parts DEF Readers, Admit
<1>5. Writers = {} /\ Asked = {}
  BY DEF IInv, Counted, Writers, Admit, CanRead
<1> QED
  BY <1>3, <1>4, <1>5 DEF Lease!Enter, TheOne

\* A request that leaves, leaves it.
LEMMA LeaveLeaves == ASSUME IInv, NEW c \in Client, LeaveInference(c) PROVE Lease!Leave(c)
<1>1. sleepers \in List(Task) /\ \A u \in ToSet(sleepers) : u \in Task /\ at[u] = "asleep"
  BY Types, ListMembers DEF IInv
<1>2. /\ c \in Task /\ Loop' /\ at'[c] = "idle"
      /\ \A u \in Task \ {c} : at'[u] = IF u \in ToSet(sleepers) THEN "woken"
                                        ELSE IF u \in ToSet(<<>>) THEN "called" ELSE at[u]
      /\ \A a, b \in Task \ {c} : at[a] = "enter" /\ at[b] = "enter"
            => (Ahead(ready', a, b) <=> Ahead(ready, a, b))
  BY <1>1, EmptyList, GoKeeps DEF IInv, LeaveInference, Point, Runnable
<1>3. Sideways(c)
  BY <1>1, <1>2, EmptyList DEF Sideways, LeaveInference, Loop, IInv, TypeOK
<1>4. Writers' = Writers /\ Asked' = Asked /\ Came' = Came /\ Order' = Order
  BY <1>2, <1>3, RequestAside
<1>5. Readers' = Readers \ {c} /\ c \in Readers
  BY <1>3, Parts, <1>2 DEF Readers, LeaveInference, Sideways
<1> QED
  BY <1>4, <1>5 DEF Lease!Leave, TheOne

\* A request that waits, or gives up waiting, was not let in.
LEMMA WaitStutters == ASSUME IInv, NEW c \in Client, Sleep(c) \/ AbandonInference(c)
                      PROVE  UNCHANGED Lease!lease
<1>2. PICK p \in {"asleep", "idle"}, w \in List(Task) :
        Go(c, p, w, <<>>) /\ \A u \in ToSet(w) : at[u] = "asleep"
  <2>1. CASE Sleep(c)
    BY <2>1, EmptyList DEF Sleep
  <2>2. CASE AbandonInference(c)
    <3>1. CASE PassNotificationOn /\ Go(c, "idle", Rewoken, <<>>)
      BY <3>1, PassOn DEF IInv
    <3>2. CASE Go(c, "idle", <<>>, <<>>)
      BY <3>2, EmptyList
    <3> QED
      BY <2>2, <3>1, <3>2 DEF AbandonInference
  <2> QED
    BY <2>1, <2>2
<1>3. Runs(c) /\ at[c] \in {"enter", "woken"} /\ UNCHANGED <<outer, lifecycle_waiters, lifecycle_active>>
  BY DEF Sleep, AbandonInference, coordinator
<1>4. /\ c \in Task /\ Loop' /\ at'[c] = p
      /\ \A u \in Task \ {c} : at'[u] = IF u \in ToSet(w) THEN "woken"
                                        ELSE IF u \in ToSet(<<>>) THEN "called" ELSE at[u]
      /\ \A a, b \in Task \ {c} : at[a] = "enter" /\ at[b] = "enter"
            => (Ahead(ready', a, b) <=> Ahead(ready, a, b))
  BY <1>2, <1>3, EmptyList, GoKeeps DEF IInv, Point, Runnable
<1>5. Sideways(c)
  BY <1>2, <1>3, <1>4, EmptyList DEF Sideways, Loop, IInv, TypeOK
<1>6. Writers' = Writers /\ Asked' = Asked /\ Came' = Came /\ Order' = Order
  BY <1>4, <1>5, RequestAside
<1>7. Readers' = Readers
  BY <1>3, <1>4, <1>5, Parts DEF Readers, Sideways
<1> QED
  BY <1>6, <1>7 DEF Lease!lease, TheOne

-----------------------------------------------------------------------------
(* What comes from outside the loop.                                       *)

\* Who is not in a list is ahead of nobody there, and behind nobody.
LEMMA NotAhead == \A s, p, q : p \notin ToSet(s) \/ q \notin ToSet(s) => ~Ahead(s, p, q)
  BY DEF Ahead, ToSet

\* An operation that comes is the last of those that came.
LEMMA ArriveJoins == ASSUME IInv, NEW o \in Op, Arrive(o) PROVE Lease!Join(o)
<1>1. /\ Loop' /\ at'[o] = "enter" /\ at[o] = "idle" /\ \A u \in Task \ {o} : at'[u] = at[u]
      /\ \A a, b \in Task : Ahead(ready', a, b) <=> Ahead(ready, a, b)
                                                   \/ (a \in ToSet(ready) /\ b = o)
  BY Parts, WakesKeeps DEF IInv, Arrive, Runnable
<1>2. UNCHANGED <<owner, queue>> /\ o \in Task /\ o \notin ToSet(ready) /\ o \notin ToSet(queue) /\ owner # o
  BY <1>1, Parts DEF Arrive, outer, IInv, TypeOK, Runnable, Queued, Owned
<1>3. Readers' = Readers /\ Writers' = Writers /\ Asked' = Asked
  BY <1>1, Parts DEF Readers, Writers, Asked
<1>4. Came' = Came \cup {o} /\ o \notin Came
  BY <1>1, Parts DEF Came
<1>5. \A p, q \in Came : Before(p, q)' <=> Before(p, q)
  <2>1. \A p \in Came : p \in Task \ {o}
    BY <1>4, Parts DEF Came
  <2> QED
    BY <1>1, <1>2, <2>1, OrderStays
<1>6. \A p \in Came : Before(p, o)'
  <2> SUFFICES ASSUME NEW p \in Came PROVE Before(p, o)'
    OBVIOUS
  <2>1. p \in Op /\ p \in Task \ {o} /\ at'[p] = at[p]
    BY <1>1, <1>4, Parts DEF Came
  <2>2. CASE at[p] \in {"asleep", "woken", "inside", "leave"}
    BY <1>2, <2>1, <2>2, LockHeld DEF Before
  <2>3. CASE at[p] \in {"queued", "called"}
    BY <1>1, <2>1, <2>3 DEF Before
  <2>4. CASE at[p] = "enter"
    <3>1. p \in ToSet(ready)
      BY <2>1, <2>4 DEF IInv, TypeOK, Runnable
    <3> QED
      BY <1>1, <1>2, <2>1, <2>4, <3>1 DEF Before
  <2> QED
    BY <2>1, <2>2, <2>3, <2>4 DEF Came, IInv, TypeOK, Point
<1>7. \A q \in Came \cup {o} : ~Before(o, q)'
  <2> SUFFICES ASSUME NEW q \in Came \cup {o} PROVE ~Before(o, q)'
    OBVIOUS
  <2>1. ~Ahead(queue, o, q) /\ ~Ahead(ready, o, q) /\ q \in Task
    BY <1>2, NotAhead, Parts DEF Came
  <2> QED
    BY <1>1, <1>2, <2>1 DEF Before
<1>8. Order' = Order \cup (Came \X {o})
  <2>1. ASSUME NEW p, NEW q
        PROVE  p \in Came' /\ q \in Came' /\ Before(p, q)'
                 <=> (p \in Came /\ q \in Came /\ Before(p, q)) \/ (p \in Came /\ q = o)
    BY <1>4, <1>5, <1>6, <1>7
  <2> QED
    BY <1>4, <2>1 DEF Order
<1> QED
  BY <1>3, <1>4, <1>8 DEF Lease!Join, TheOne

\* Only the task that arrives, ends its body or is cancelled moves.
LEMMA AsideStutters ==
  ASSUME IInv, NEW t \in Task, t \in Came => at[t] # "enter",
         Readers' = Readers, Writers' = Writers, Asked' = Asked, Came' = Came,
         UNCHANGED <<owner, queue>>, \A u \in Op \ {t} : at'[u] = at[u],
         at'[t] \in {"queued", "called"} <=> at[t] \in {"queued", "called"},
         t \in Came => at'[t] # "enter",
         \A a, b \in Task \ {t} : at[a] = "enter" /\ at[b] = "enter"
            => (Ahead(ready', a, b) <=> Ahead(ready, a, b))
  PROVE  UNCHANGED Lease!lease
<1>1. \A p \in Came : /\ p \in Op /\ p \in Task
                      /\ p = owner' <=> p = owner
                      /\ at'[p] \in {"queued", "called"} <=> at[p] \in {"queued", "called"}
                      /\ at'[p] = "enter" <=> at[p] = "enter"
  BY Parts DEF Came
<1>2. \A p, q \in Came : /\ Ahead(queue', p, q) <=> Ahead(queue, p, q)
                         /\ at[p] = "enter" /\ at[q] = "enter"
                              => (Ahead(ready', p, q) <=> Ahead(ready, p, q))
  BY <1>1
<1>3. \A p, q \in Came : Before(p, q)' <=> Before(p, q)
  BY <1>1, <1>2, OrderStays
<1>4. Order' = Order
  BY <1>3, SameOrder
<1> QED
  BY <1>4 DEF Lease!lease, TheOne

\* A request that comes is not in the lease yet.
LEMMA ArriveStutters == ASSUME IInv, NEW c \in Client, Arrive(c) PROVE UNCHANGED Lease!lease
<1>1. /\ Loop' /\ at'[c] = "enter" /\ at[c] = "idle" /\ \A u \in Task \ {c} : at'[u] = at[u]
      /\ \A a, b \in Task : Ahead(ready', a, b) <=> Ahead(ready, a, b)
                                                   \/ (a \in ToSet(ready) /\ b = c)
  BY Parts, WakesKeeps DEF IInv, Arrive, Runnable
<1>2. UNCHANGED <<owner, queue>> /\ c \in Task /\ c \notin Op
  BY Parts DEF Arrive, outer
<1>3. Readers' = Readers /\ Writers' = Writers /\ Asked' = Asked /\ Came' = Came
  BY <1>1, Parts DEF Readers, Writers, Asked, Came
<1> QED
  BY <1>1, <1>2, <1>3, Parts, AsideStutters DEF Came

\* The end of a body is not the end of the lease.
LEMMA FinishStutters == ASSUME IInv, NEW t \in Task, Finish(t) PROVE UNCHANGED Lease!lease
<1>1. /\ Loop' /\ at'[t] = "leave" /\ at[t] = "inside" /\ \A u \in Task \ {t} : at'[u] = at[u]
      /\ \A a, b \in Task : Ahead(ready', a, b) <=> Ahead(ready, a, b)
                                                   \/ (a \in ToSet(ready) /\ b = t)
  BY WakesKeeps DEF IInv, Finish, Runnable
<1>2. UNCHANGED <<owner, queue>>
  BY DEF Finish, outer
<1>3. Readers' = Readers /\ Writers' = Writers /\ Asked' = Asked /\ Came' = Came
  BY <1>1, Parts DEF Readers, Writers, Asked, Came
<1> QED
  BY <1>1, <1>2, <1>3, Parts, AsideStutters

\* A cancelled operation that waited for the lock ends; it took no other one's place.
LEMMA CancelEnds ==
  ASSUME IInv, NEW t \in Task, Cancel(t)
  PROVE  (t \in Op /\ Lease!End(t)) \/ UNCHANGED Lease!lease
<1>1. UNCHANGED <<owner, queue>>
  BY DEF Cancel, outer
<1>2. CASE at[t] = "asleep" /\ Wakes(t, "woken")
  <2>1. /\ Loop' /\ at'[t] = "woken" /\ \A u \in Task \ {t} : at'[u] = at[u]
        /\ \A a, b \in Task : Ahead(ready', a, b) <=> Ahead(ready, a, b)
                                                     \/ (a \in ToSet(ready) /\ b = t)
    BY <1>2, WakesKeeps DEF IInv, Cancel, Runnable
  <2>2. Readers' = Readers /\ Writers' = Writers /\ Asked' = Asked /\ Came' = Came
    BY <1>2, <2>1, Parts DEF Readers, Writers, Asked, Came
  <2> QED
    BY <1>1, <1>2, <2>1, <2>2, Parts, AsideStutters DEF Runnable
<1>3. CASE at[t] = "queued" /\ Wakes(t, "dropped")
  <2>1. t \in Op
    BY <1>3, Parts DEF IInv, RequestsElsewhere
  <2>2. /\ Loop' /\ at'[t] = "dropped" /\ \A u \in Task \ {t} : at'[u] = at[u]
        /\ \A a, b \in Task : Ahead(ready', a, b) <=> Ahead(ready, a, b)
                                                     \/ (a \in ToSet(ready) /\ b = t)
    BY <1>3, WakesKeeps DEF IInv, Cancel, Runnable
  <2>3. Readers' = Readers /\ Writers' = Writers /\ Asked' = Asked /\ t \notin Writers \cup Asked
    BY <1>3, <2>2, Parts DEF Readers, Writers, Asked
  <2>4. Came' = Came \ {t} /\ t \in Came
    BY <1>3, <2>1, <2>2, Parts DEF Came
  <2>5. \A p, q \in Came \ {t} : Before(p, q)' <=> Before(p, q)
    <3>1. \A p \in Came \ {t} : p \in Task \ {t}
      BY Parts DEF Came
    <3> QED
      BY <1>1, <2>2, <3>1, OrderStays
  <2>6. Order' = Order \cap (Came' \X Came')
    BY <2>4, <2>5 DEF Order
  <2>7. TheOne(Writers) # t /\ TheOne(Asked) # t
    BY <2>1, <2>3, Parts DEF TheOne
  <2> QED
    BY <2>1, <2>3, <2>4, <2>6, <2>7 DEF Lease!End, TheOne
<1>4. CASE UNCHANGED <<at, ready, sleepers>>
  BY <1>1, <1>4 DEF Lease!lease, Readers, Writers, Asked, Came, Order, Before, TheOne
<1> QED
  BY <1>2, <1>3, <1>4 DEF Cancel

-----------------------------------------------------------------------------
(* Operations.                                                             *)

\* An operation that queues for the lock keeps its place among those that came.
LEMMA QueueUpStutters == ASSUME IInv, NEW o \in Op, QueueUp(o) PROVE UNCHANGED Lease!lease
<1>1. /\ o \in Task /\ Loop' /\ at'[o] = "queued" /\ \A u \in Task \ {o} : at'[u] = at[u]
      /\ \A a, b \in Task \ {o} : at[a] = "enter" /\ at[b] = "enter"
            => (Ahead(ready', a, b) <=> Ahead(ready, a, b))
  <2>1. /\ TypeOK /\ Runs(o) /\ at[o] = "enter" /\ Go(o, "queued", <<>>, <<>>)
        /\ "queued" \in Point \ Runnable
    BY DEF IInv, QueueUp, Point, Runnable
  <2>2. <<>> \in List(Task) /\ ToSet(<<>>) = {}
    BY EmptyList
  <2> QED
    BY <2>1, <2>2, GoKeeps
<1>2. /\ at[o] = "enter" /\ owner' = owner /\ o # owner /\ o = Head(ready)
      /\ o \notin ToSet(queue) /\ queue \in List(Op) /\ ready \in List(Task) /\ ready # <<>>
  BY <1>1, Types DEF QueueUp, Runs, IInv, Queued, Owned, Loop
<1>3. \A p, q : Ahead(queue', p, q) <=> Ahead(queue, p, q) \/ (p \in ToSet(queue) /\ q = o)
  BY <1>2, ListAppend DEF QueueUp
<1>4. /\ \A q \in Op : at[q] = "enter" /\ q # o => Ahead(ready, o, q)
      /\ \A p : ~Ahead(ready, p, o)
  BY <1>2, Parts, ListTail DEF IInv, TypeOK, Runnable
<1>5. Readers' = Readers /\ Writers' = Writers /\ Asked' = Asked /\ Came' = Came
  BY <1>1, <1>2, Parts DEF Readers, Writers, Asked, Came
<1>6. \A p \in Came : /\ p \in Op /\ p \in Task
                      /\ p \in ToSet(queue) <=> at[p] \in {"queued", "called"}
                      /\ p # o => at'[p] = at[p]
  BY <1>1, Parts DEF Came, IInv, Queued
<1>7. \A p, q \in Came : Before(p, q)' <=> Before(p, q)
  <2> SUFFICES ASSUME NEW p \in Came, NEW q \in Came PROVE Before(p, q)' <=> Before(p, q)
    OBVIOUS
  <2>1. CASE p # o /\ q # o
    BY <1>1, <1>2, <1>3, <1>6, <2>1 DEF Before
  <2>2. CASE p = o
    <3>1. ~Ahead(queue, o, q)
      BY <1>2, NotAhead
    <3>2. CASE q = o
      BY <1>1, <1>2, <1>3, <1>4, <2>2, <3>1, <3>2 DEF Before
    <3>3. CASE q # o
      BY <1>1, <1>2, <1>3, <1>4, <1>6, <2>2, <3>1, <3>3 DEF Before
    <3> QED
      BY <3>2, <3>3
  <2>3. CASE p # o /\ q = o
    <3>1. ~Ahead(queue, p, o)
      BY <1>2, NotAhead
    <3> QED
      BY <1>1, <1>2, <1>3, <1>4, <1>6, <2>3, <3>1 DEF Before
  <2> QED
    BY <2>1, <2>2, <2>3
<1> QED
  BY <1>5, <1>7, SameOrder DEF Lease!lease, TheOne

\* Who takes the lock is the first of the operations that came, and stays it.
LEMMA TakesFirst ==
  ASSUME IInv, NEW o \in Op, Locks(o), NEW p \in {"inside", "asleep"}, Go(o, p, <<>>, <<>>)
  PROVE  /\ at'[o] = p /\ Readers' = Readers /\ Writers = {} /\ Asked = {}
         /\ Writers' = IF p = "inside" THEN {o} ELSE {}
         /\ Asked' = IF p = "asleep" THEN {o} ELSE {}
         /\ Came' = Came /\ Order' = Order
         /\ o \in Came /\ \A q \in Came : <<q, o>> \notin Order
<1>1. /\ o \in Task /\ Loop' /\ at'[o] = p /\ \A u \in Task \ {o} : at'[u] = at[u]
      /\ \A a, b \in Task \ {o} : at[a] = "enter" /\ at[b] = "enter"
            => (Ahead(ready', a, b) <=> Ahead(ready, a, b))
  BY EmptyList, GoKeeps DEF IInv, Locks, Point, Runnable
<1>2. /\ owner = None /\ owner' = o /\ at[o] \in {"enter", "called"}
      /\ \A q \in Op : at[q] \notin {"asleep", "woken", "inside", "leave"}
      /\ \A q \in Op \ {o} : at[q] # "called"
      /\ queue' \in List(Op) /\ ToSet(queue') = ToSet(queue) \ {o}
      /\ queue \in List(Op) /\ ready \in List(Task) /\ ready # <<>> /\ o = Head(ready)
  BY LockTaken, Types DEF IInv, Locks, Runs, Loop
<1>3. \A a, b : a # o /\ b # o => (Ahead(queue', a, b) <=> Ahead(queue, a, b))
  BY <1>2, ListWithout DEF Locks
<1>4. Readers' = Readers /\ Writers = {} /\ Asked = {} /\ Came' = Came /\ o \in Came
  BY <1>1, <1>2, Parts DEF Readers, Writers, Asked, Came
<1>5. /\ Writers' = IF p = "inside" THEN {o} ELSE {}
      /\ Asked' = IF p = "asleep" THEN {o} ELSE {}
  BY <1>1, <1>2, Parts DEF Writers, Asked
<1>6. \A q \in Came : q \in Op /\ q \in Task /\ q # None /\ at[q] \in {"enter", "queued", "called"}
  BY <1>2, Parts DEF Came, IInv, TypeOK, Point
<1>7. ASSUME NEW q \in Came PROVE ~Before(q, o) /\ (q # o => Before(o, q))
  <2>1. CASE at[o] = "enter"
    <3>1. o \notin ToSet(queue) /\ ~Ahead(queue, q, o)
      BY <2>1, NotAhead DEF IInv, Queued
    <3>2. at[q] = "enter"
      <4>1. \A u \in ToSet(queue) : at[u] = "dropped"
        BY <1>2, <2>1 DEF Locks, LockFree, ToSet
      <4> QED
        BY <1>6, <4>1 DEF IInv, Queued
    <3>3. ~Ahead(ready, q, o) /\ (q # o => Ahead(ready, o, q))
      <4>1. /\ \A u \in ToSet(ready) \ {o} : Ahead(ready, o, u)
            /\ \A u : ~Ahead(ready, u, o)
        BY <1>2, ListTail
      <4>2. q \in ToSet(ready)
        BY <1>6, <3>2 DEF IInv, TypeOK, Runnable
      <4> QED
        BY <4>1, <4>2
    <3> QED
      BY <1>2, <1>6, <2>1, <3>1, <3>2, <3>3 DEF Before
  <2>2. CASE at[o] = "called"
    <3>1. queue # <<>> /\ Head(queue) = o
      BY <2>2 DEF IInv, Called
    <3>2. ~Ahead(queue, q, o) /\ (q \in ToSet(queue) /\ q # o => Ahead(queue, o, q))
      <4>1. /\ \A u \in ToSet(queue) \ {o} : Ahead(queue, o, u)
            /\ \A u : ~Ahead(queue, u, o)
        <5>1. queue \in List(Op)
          BY <1>2
        <5> QED
          BY <5>1, <3>1, ListTail
      <4> QED
        BY <4>1
    <3>3. at[q] # "enter" => q \in ToSet(queue)
      BY <1>6 DEF IInv, Queued
    <3> QED
      BY <1>2, <1>6, <2>2, <3>2, <3>3 DEF Before
  <2> QED
    BY <1>2, <2>1, <2>2
<1>8. \A a, b \in Came : Before(a, b)' <=> Before(a, b)
  <2> SUFFICES ASSUME NEW a \in Came, NEW b \in Came PROVE Before(a, b)' <=> Before(a, b)
    OBVIOUS
  <2>1. CASE a # o /\ b # o
    BY <1>1, <1>2, <1>3, <1>6, <2>1 DEF Before
  <2>2. CASE a = o /\ b # o
    BY <1>2, <1>7, <2>2 DEF Before
  <2>3. CASE b = o
    <3>1. ~Ahead(queue', a, o)
      BY <1>2, NotAhead
    <3>2. ~Before(a, o)'
      BY <1>1, <1>2, <3>1 DEF Before
    <3> QED
      BY <1>7, <2>3, <3>2
  <2> QED
    BY <2>1, <2>2, <2>3
<1> QED
  BY <1>1, <1>4, <1>5, <1>7, <1>8, SameOrder, OrderPairs

\* An operation that begins is the first that came, and is granted the lease.
LEMMA BeginIsGranted == ASSUME IInv, NEW o \in Op, Begin(o) PROVE Lease!Grant(o)
<1>1. /\ Readers' = Readers /\ Writers = {} /\ Writers' = {o} /\ Asked' = {}
      /\ Came' = Came /\ Order' = Order
      /\ o \in Came /\ \A q \in Came : <<q, o>> \notin Order
  BY TakesFirst DEF Begin
<1>2. Readers = {}
  BY ReaderBounds DEF IInv, Begin, CanWrite
<1> QED
  BY <1>1, <1>2, One DEF Lease!Grant, Lease!First, TheOne

\* An operation that waits for requests is the first that came, and asks.
LEMMA AnnounceAsks == ASSUME IInv, NEW o \in Op, Announce(o) PROVE Lease!Ask(o)
<1>1. /\ Readers' = Readers /\ Writers = {} /\ Asked = {} /\ Writers' = {} /\ Asked' = {o}
      /\ Came' = Came /\ Order' = Order
      /\ o \in Came /\ \A q \in Came : <<q, o>> \notin Order
  BY TakesFirst DEF Announce
<1>2. Readers # {}
  <2>1. ~lifecycle_active
    BY LockTaken DEF Announce
  <2> QED
    BY <2>1, ReaderBounds DEF IInv, Announce, CanWrite
<1> QED
  BY <1>1, <1>2, One DEF Lease!Ask, Lease!First, TheOne

\* Woken, the operation that asked is granted the worker or sleeps again.
LEMMA RetryGrants ==
  ASSUME IInv, NEW o \in Op, Retry(o) PROVE Lease!Grant(o) \/ UNCHANGED Lease!lease
<1>1. at[o] = "woken" /\ UNCHANGED <<owner, queue>> /\ Runs(o)
  BY DEF Retry, outer
<1>2. /\ owner = o /\ \A q \in Op : at[q] # "called"
      /\ \A q \in Op \ {o} : at[q] \notin {"asleep", "woken", "inside", "leave"}
  BY <1>1, LockHeld
<1>3. PICK p \in {"inside", "asleep"} :
        Go(o, p, <<>>, <<>>) /\ (p = "inside" => CanWrite)
  BY DEF Retry
<1>4. /\ o \in Task /\ Loop' /\ at'[o] = p /\ \A u \in Task \ {o} : at'[u] = at[u]
      /\ \A a, b \in Task \ {o} : at[a] = "enter" /\ at[b] = "enter"
            => (Ahead(ready', a, b) <=> Ahead(ready, a, b))
  BY <1>1, <1>3, EmptyList, GoKeeps DEF IInv, Point, Runnable
<1>5. Readers' = Readers /\ Came' = Came /\ Writers = {} /\ Asked = {o} /\ o \in Came
  BY <1>1, <1>2, <1>4, Parts DEF Readers, Came, Writers, Asked
<1>6. CASE p = "asleep"
  <2>1. Writers' = {} /\ Asked' = {o}
    BY <1>2, <1>4, <1>6, Parts DEF Writers, Asked
  <2> QED
    BY <1>1, <1>4, <1>5, <1>6, <2>1, Parts, AsideStutters
<1>7. CASE p = "inside"
  <2>1. Writers' = {o} /\ Asked' = {}
    BY <1>2, <1>4, <1>7, Parts DEF Writers, Asked
  <2>2. Readers = {}
    BY <1>3, <1>7, ReaderBounds DEF IInv, CanWrite
  <2>3. /\ \A q \in Came : ~Before(q, o)
        /\ \A a, b \in Came : Before(a, b)' <=> Before(a, b)
    <3>1. o \notin ToSet(queue) /\ \A q : ~Ahead(queue, q, o)
      BY <1>1, NotAhead DEF IInv, Queued
    <3>2. \A q \in Came : ~Before(q, o)
      BY <1>1, <1>2, <3>1 DEF Before
    <3>3. \A a \in Came : a \in Task /\ (a = o => at[a] = "woken" /\ at'[a] = "inside")
                         /\ (a # o => at'[a] = at[a])
      BY <1>1, <1>4, <1>7, Parts DEF Came
    <3>4. \A a, b \in Came : at[a] = "enter" /\ at[b] = "enter"
            => (Ahead(ready', a, b) <=> Ahead(ready, a, b))
      BY <1>1, <1>4, <3>3
    <3> QED
      BY <1>1, <3>2, <3>3, <3>4, OrderStays
  <2>4. Order' = Order /\ \A q \in Came : <<q, o>> \notin Order
    BY <1>5, <2>3, SameOrder, OrderPairs
  <2> QED
    BY <1>5, <2>1, <2>2, <2>4, One DEF Lease!Grant, Lease!First, TheOne
<1> QED
  BY <1>6, <1>7

\* The operation that has the lock ends, and the lock goes to whoever is next.
LEMMA HandOverEnds ==
  ASSUME IInv, NEW o \in Op, LeaveLifecycle(o) \/ GiveUp(o) PROVE Lease!End(o)
<1>1. PICK w \in List(Task) :
        Go(o, "idle", w, FirstOf(queue)) /\ \A u \in ToSet(w) : at[u] = "asleep"
  <2>1. CASE LeaveLifecycle(o)
    <3>1. sleepers \in List(Task) /\ \A u \in ToSet(sleepers) : at[u] = "asleep"
      BY Types, ListMembers DEF IInv
    <3> QED
      BY <2>1, <3>1 DEF LeaveLifecycle
  <2>2. CASE GiveUp(o)
    BY <2>2, PassOn DEF GiveUp, IInv
  <2> QED
    BY <2>1, <2>2
<1>2. at[o] \in {"woken", "leave"} /\ Runs(o) /\ owner' = None /\ queue' = queue
  BY DEF LeaveLifecycle, GiveUp
<1>3. /\ at'[o] = "idle" /\ Readers' = Readers /\ Asked' = {}
      /\ \A u \in Task \ {o} : at'[u] = IF u \in ToSet(w) THEN "woken"
                                      ELSE IF u \in ToSet(FirstOf(queue)) THEN "called" ELSE at[u]
      /\ \A q \in Op : at'[q] \notin {"inside", "leave"}
      /\ \A a, b \in Task \ {o} : at[a] = "enter" /\ at[b] = "enter"
            => (Ahead(ready', a, b) <=> Ahead(ready, a, b))
  BY <1>1, <1>2, HandOver
<1>4. /\ owner = o /\ \A q \in Op : at[q] # "called"
      /\ \A q \in Op \ {o} : at[q] \notin {"asleep", "woken", "inside", "leave"}
  BY <1>2, LockHeld
<1>5. \A u \in ToSet(FirstOf(queue)) : at[u] = "queued"
  BY Offer, Types DEF IInv
<1>6. Came' = Came \ {o} /\ o \in Came
  BY <1>1, <1>2, <1>3, <1>4, <1>5, Parts DEF Came
<1>7. Writers \subseteq {o} /\ Asked \subseteq {o} /\ Writers' = {}
  BY <1>3, <1>4 DEF Writers, Asked
<1>8. \A p, q \in Came \ {o} : Before(p, q)' <=> Before(p, q)
  <2>1. \A p \in Came \ {o} :
           /\ p \in Task \ {o} /\ p # owner /\ p # owner'
           /\ at'[p] \in {"queued", "called"} <=> at[p] \in {"queued", "called"}
           /\ at'[p] = "enter" <=> at[p] = "enter"
    BY <1>1, <1>2, <1>3, <1>4, <1>5, Parts DEF Came
  <2> QED
    BY <1>2, <1>3, <2>1, OrderStays
<1>9. Order' = Order \cap (Came' \X Came')
  BY <1>6, <1>8 DEF Order
<1>10. /\ TheOne(Writers) \in {o, None} /\ TheOne(Asked) \in {o, None}
       /\ TheOne(Writers)' = None /\ TheOne(Asked)' = None
  BY <1>3, <1>7, One DEF TheOne
<1> QED
  BY <1>3, <1>6, <1>9, <1>10 DEF Lease!End

\* A cancelled operation that does not have the lock ends, if it did not already when it
\* was cancelled.
LEMMA DequeueEnds ==
  ASSUME IInv, NEW o \in Op, Dequeue(o) PROVE Lease!End(o) \/ UNCHANGED Lease!lease
<1> DEFINE next == IF owner = None /\ at[o] # "enter" THEN FirstOf(queue') ELSE <<>>
<1>1. /\ at[o] \in {"enter", "called", "dropped"} /\ Runs(o)
      /\ queue' = Without(queue, o) /\ Go(o, "idle", <<>>, next) /\ owner' = owner
  BY DEF Dequeue
<1>2. /\ queue' \in List(Op)
      /\ \A p, q : p # o /\ q # o => (Ahead(queue', p, q) <=> Ahead(queue, p, q))
  BY <1>1, ListWithout, Types DEF IInv
<1>3. next \in List(Task) /\ \A u \in ToSet(next) : at[u] = "queued"
  <2>1. FirstOf(queue') \in List(Task) /\ \A u \in ToSet(FirstOf(queue')) : at[u] = "queued"
    <3> DEFINE q == queue'
    <3>1. q \in List(Op)
      BY <1>2
    <3> HIDE DEF q
    <3>2. FirstOf(q) \in List(Task) /\ \A u \in ToSet(FirstOf(q)) : at[u] = "queued"
      BY <3>1, Offer DEF IInv
    <3> QED
      BY <3>2 DEF q
  <2> QED
    BY <2>1, EmptyList
<1> HIDE DEF next
<1>4. /\ o \in Task /\ at'[o] = "idle"
      /\ \A u \in Task \ {o} : at'[u] = IF u \in ToSet(next) THEN "called" ELSE at[u]
      /\ \A a, b \in Task \ {o} : at[a] = "enter" /\ at[b] = "enter"
            => (Ahead(ready', a, b) <=> Ahead(ready, a, b))
  <2>1. /\ o \in Task /\ at'[o] = "idle"
        /\ \A u \in Task \ {o} : at'[u] = IF u \in ToSet(<<>>) THEN "woken"
                                        ELSE IF u \in ToSet(next) THEN "called" ELSE at[u]
        /\ \A a, b \in Task \ {o} : at[a] = "enter" /\ at[b] = "enter"
              => (Ahead(ready', a, b) <=> Ahead(ready, a, b))
    BY <1>1, <1>3, EmptyList, GoKeeps DEF IInv, Point, Runnable
  <2> QED
    BY <2>1, EmptyList
<1>5. Readers' = Readers /\ Writers' = Writers /\ Asked' = Asked /\ o \notin Writers \cup Asked
  BY <1>1, <1>3, <1>4, Parts DEF Readers, Writers, Asked
<1>6. Came' = Came \ {o}
  BY <1>1, <1>3, <1>4, Parts DEF Came
<1>7. \A p, q \in Came \ {o} : Before(p, q)' <=> Before(p, q)
  <2>1. \A p \in Came \ {o} :
           /\ p \in Task \ {o}
           /\ at'[p] \in {"queued", "called"} <=> at[p] \in {"queued", "called"}
           /\ at'[p] = "enter" <=> at[p] = "enter"
    BY <1>3, <1>4, Parts DEF Came
  <2> QED
    BY <1>1, <1>2, <1>4, <2>1, OrderStays
<1>8. CASE o \in Came
  <2>1. Order' = Order \cap (Came' \X Came')
    BY <1>6, <1>7 DEF Order
  <2>2. TheOne(Writers) # o /\ TheOne(Asked) # o
    BY <1>5, Parts DEF TheOne
  <2> QED
    BY <1>5, <1>6, <1>8, <2>1, <2>2 DEF Lease!End, TheOne
<1>9. CASE o \notin Came
  <2>1. Came' = Came /\ \A p, q \in Came : Before(p, q)' <=> Before(p, q)
    BY <1>6, <1>7, <1>9
  <2> QED
    BY <1>5, <2>1, SameOrder DEF Lease!lease, TheOne
<1> QED
  BY <1>8, <1>9

-----------------------------------------------------------------------------

\* The initial state maps to the initial lease.
LEMMA InitImplements == Init => Lease!Init
<1> SUFFICES ASSUME Init PROVE Lease!Init
  OBVIOUS
<1>1. Readers = {} /\ Writers = {} /\ Asked = {} /\ Came = {} /\ Order = {}
  BY Parts DEF Init, Readers, Writers, Asked, Came, Order
<1> QED
  BY <1>1 DEF Lease!Init, TheOne

\* Every step is a step of the lease, or leaves it as it is.
LEMMA StepImplements == IInv /\ [Next]_vars => [Lease!Next]_(Lease!lease)
<1> SUFFICES ASSUME IInv, [Next]_vars PROVE Lease!Next \/ UNCHANGED Lease!lease
  OBVIOUS
<1>1. ASSUME NEW c \in Client, Admit(c) \/ Sleep(c) \/ LeaveInference(c) \/ AbandonInference(c)
      PROVE  Lease!Next \/ UNCHANGED Lease!lease
  BY <1>1, AdmitEnters, LeaveLeaves, WaitStutters DEF Lease!Next
<1>2. ASSUME NEW o \in Op, \/ QueueUp(o) \/ Begin(o) \/ Announce(o) \/ Retry(o)
                           \/ LeaveLifecycle(o) \/ GiveUp(o) \/ Dequeue(o)
      PROVE  Lease!Next \/ UNCHANGED Lease!lease
  BY <1>2, QueueUpStutters, BeginIsGranted, AnnounceAsks, RetryGrants, HandOverEnds, DequeueEnds
     DEF Lease!Next
<1>3. ASSUME NEW t \in Task, Arrive(t) \/ Finish(t) \/ Cancel(t)
      PROVE  Lease!Next \/ UNCHANGED Lease!lease
  <2>1. CASE Arrive(t)
    BY <2>1, ArriveJoins, ArriveStutters, Parts DEF Lease!Next
  <2>2. CASE Finish(t) \/ Cancel(t)
    BY <2>2, FinishStutters, CancelEnds DEF Lease!Next
  <2> QED
    BY <1>3, <2>1, <2>2
<1>4. CASE UNCHANGED vars
  BY <1>4 DEF vars, outer, Lease!lease, Readers, Writers, Asked, Came, Order, Before, TheOne
<1> QED
  BY <1>1, <1>2, <1>3, <1>4 DEF Next, Step

\* The condition variable, its two counters and the lock in front of them are a lease that
\* requests share, operations have alone and in the order in which they came, and that lets
\* nobody in past an operation that has asked (_InferenceCoordinator, _lifecycle_session).
THEOREM Implements == Spec => ImplementsLease
<1>1. IInv /\ IInv' /\ [Next]_vars => [Lease!Next]_(Lease!lease)
  BY StepImplements
<1> QED
  BY <1>1, InitImplements, Invariance, PTL DEF Spec, ImplementsLease, Lease!Spec
=============================================================================
