---------------------------- MODULE SeqLemmas -----------------------------
(* What list.pop(0), list.append and list.remove do to a list without      *)
(* duplicates, to a queue of messages of which the first or the last may   *)
(* be lost, and to the number of the elements of some kind.                *)
EXTENDS SequencesExt, Integers, SequenceTheorems, FiniteSetTheorems, WellFoundedInduction,
        TLAPS

(* Appending an element a list does not hold keeps it free of duplicates.   *)
LEMMA AppendFresh ==
  ASSUME NEW S, NEW s \in Seq(S), NEW e \in S, IsInjective(s), ~Contains(s, e)
  PROVE  /\ Append(s, e) \in Seq(S)
         /\ IsInjective(Append(s, e))
         /\ ToSet(Append(s, e)) = ToSet(s) \cup {e}
<1>1. /\ Append(s, e) \in Seq(S)
      /\ Len(Append(s, e)) = Len(s) + 1
      /\ \A i \in 1 .. Len(s) : Append(s, e)[i] = s[i]
      /\ Append(s, e)[Len(s) + 1] = e
  BY AppendProperties
<1>2. \A i \in 1 .. Len(s) : s[i] # e
  BY DEF Contains
<1>3. DOMAIN Append(s, e) = 1 .. Len(s) + 1 /\ DOMAIN s = 1 .. Len(s) /\ Len(s) \in Nat
  BY <1>1
<1>4. IsInjective(Append(s, e))
  BY <1>1, <1>2, <1>3 DEF IsInjective
<1>5. ToSet(Append(s, e)) = ToSet(s) \cup {e}
  <2>1. ASSUME NEW x \in ToSet(Append(s, e)) PROVE x \in ToSet(s) \cup {e}
    BY <1>1, <1>3 DEF ToSet
  <2>2. ASSUME NEW x \in ToSet(s) \cup {e} PROVE x \in ToSet(Append(s, e))
    <3>1. CASE x = e
      BY <3>1, <1>1, <1>3 DEF ToSet
    <3>2. CASE x \in ToSet(s)
      <4>1. PICK i \in 1 .. Len(s) : x = s[i]
        BY <3>2, <1>3 DEF ToSet
      <4>2. i \in DOMAIN Append(s, e) /\ x = Append(s, e)[i]
        BY <4>1, <1>1, <1>3
      <4> QED BY <4>2 DEF ToSet
    <3> QED BY <2>2, <3>1, <3>2
  <2> QED BY <2>1, <2>2
<1> QED BY <1>1, <1>4, <1>5

(* list.pop(0) takes exactly its head out of such a list.                   *)
LEMMA TailOfInjective ==
  ASSUME NEW S, NEW s \in Seq(S), s # <<>>, IsInjective(s)
  PROVE  /\ Head(s) \in S /\ Head(s) \in ToSet(s)
         /\ Tail(s) \in Seq(S)
         /\ IsInjective(Tail(s))
         /\ ToSet(Tail(s)) = ToSet(s) \ {Head(s)}
<1>1. /\ Head(s) \in S /\ Tail(s) \in Seq(S)
      /\ Len(Tail(s)) = Len(s) - 1
      /\ \A i \in 1 .. Len(Tail(s)) : Tail(s)[i] = s[i + 1]
  BY HeadTailProperties
<1>2. /\ Len(s) \in Nat /\ Len(s) > 0 /\ Head(s) = s[1]
      /\ DOMAIN s = 1 .. Len(s) /\ DOMAIN Tail(s) = 1 .. Len(s) - 1
  BY <1>1, EmptySeq
<1>3. IsInjective(Tail(s))
  BY <1>1, <1>2 DEF IsInjective
<1>4. ASSUME NEW x \in ToSet(Tail(s)) PROVE x \in ToSet(s) \ {Head(s)}
  <2>1. PICK i \in 1 .. Len(s) - 1 : x = s[i + 1]
    BY <1>1, <1>2 DEF ToSet
  <2> QED BY <2>1, <1>2 DEF ToSet, IsInjective
<1>5. ASSUME NEW x \in ToSet(s) \ {Head(s)} PROVE x \in ToSet(Tail(s))
  <2>1. PICK i \in 1 .. Len(s) : x = s[i] /\ i # 1
    BY <1>2 DEF ToSet
  <2>2. i - 1 \in DOMAIN Tail(s) /\ Tail(s)[i - 1] = s[i]
    BY <2>1, <1>1, <1>2
  <2> QED BY <2>1, <2>2 DEF ToSet
<1> QED BY <1>1, <1>2, <1>3, <1>4, <1>5, SMTT(30) DEF ToSet

(* list.remove takes exactly the given element out of such a list.          *)
LEMMA RemoveFromInjective ==
  ASSUME NEW S, NEW s \in Seq(S), NEW e, IsInjective(s)
  PROVE  /\ RemoveFirst(s, e) \in Seq(S)
         /\ IsInjective(RemoveFirst(s, e))
         /\ ToSet(RemoveFirst(s, e)) = ToSet(s) \ {e}
<1>0. DOMAIN s = 1 .. Len(s) /\ Len(s) \in Nat
  OBVIOUS
<1>1. CASE \A i \in 1 .. Len(s) : s[i] # e
  <2>1. RemoveFirst(s, e) = s
    BY <1>1 DEF RemoveFirst
  <2>2. ToSet(s) = ToSet(s) \ {e}
    BY <1>0, <1>1 DEF ToSet
  <2> QED BY <2>1, <2>2
<1>2. ASSUME NEW i \in 1 .. Len(s), s[i] = e
      PROVE  /\ RemoveFirst(s, e) \in Seq(S)
             /\ IsInjective(RemoveFirst(s, e))
             /\ ToSet(RemoveFirst(s, e)) = ToSet(s) \ {e}
  <2> DEFINE I == {j \in 1 .. Len(s) : s[j] = e}
             r == SubSeq(s, 1, i - 1) \o SubSeq(s, i + 1, Len(s))
  <2>1. I = {i}
    BY <1>0, <1>2 DEF IsInjective
  <2>2. Min({i}) = i
    BY <1>0 DEF Min
  <2>3. SelectInSeq(s, LAMBDA v : v = e) = i
    BY <2>1, <2>2 DEF SelectInSeq
  <2>4. RemoveFirst(s, e) = r
    BY <1>2, <2>3 DEF RemoveFirst, RemoveAt
  <2> DEFINE left == SubSeq(s, 1, i - 1)
             right == SubSeq(s, i + 1, Len(s))
  <2>5. \A j \in 1 .. Len(s) : s[j] \in S
    BY ElementOfSeq
  <2>6. /\ left \in Seq(S) /\ Len(left) = i - 1
        /\ \A j \in 1 .. i - 1 : left[j] = s[j]
    <3>1. /\ 1 \in Int /\ i - 1 \in Int /\ \A j \in 1 .. i - 1 : s[j] \in S
      BY <1>0, <2>5
    <3>2. /\ left \in Seq(S)
          /\ Len(left) = IF 1 <= i - 1 THEN i - 1 - 1 + 1 ELSE 0
          /\ \A j \in 1 .. i - 1 - 1 + 1 : left[j] = s[1 + j - 1]
      BY <3>1, SubSeqProperties
    <3> HIDE DEF left
    <3> QED BY <3>2, <1>0
  <2>7. /\ right \in Seq(S) /\ Len(right) = Len(s) - i
        /\ \A j \in 1 .. Len(s) - i : right[j] = s[i + j]
    <3>1. /\ i + 1 \in Int /\ Len(s) \in Int /\ \A j \in i + 1 .. Len(s) : s[j] \in S
      BY <1>0, <2>5
    <3>2. /\ right \in Seq(S)
          /\ Len(right) = IF i + 1 <= Len(s) THEN Len(s) - (i + 1) + 1 ELSE 0
          /\ \A j \in 1 .. Len(s) - (i + 1) + 1 : right[j] = s[i + 1 + j - 1]
      BY <3>1, SubSeqProperties
    <3> HIDE DEF right
    <3>3. ASSUME NEW j \in 1 .. Len(s) - i PROVE right[j] = s[i + j]
      <4>1. j \in 1 .. Len(s) - (i + 1) + 1 /\ i + 1 + j - 1 = i + j
        BY <1>0
      <4> QED BY <4>1, <3>2
    <3>4. Len(right) = Len(s) - i
      <4>1. i \in Int /\ i <= Len(s) /\ Len(s) \in Int
        BY <1>0
      <4>2. CASE i < Len(s)
        BY <4>1, <4>2, <3>2
      <4>3. CASE i = Len(s)
        BY <4>1, <4>3, <3>2
      <4> QED BY <4>1, <4>2, <4>3
    <3> QED BY <3>2, <3>3, <3>4
  <2>8. /\ r \in Seq(S) /\ Len(r) = Len(s) - 1 /\ DOMAIN r = 1 .. Len(s) - 1
        /\ \A j \in 1 .. Len(s) - 1 : r[j] = IF j < i THEN s[j] ELSE s[j + 1]
    <3>1. r = left \o right
      OBVIOUS
    <3> HIDE DEF left, right, r
    <3>2. /\ r \in Seq(S) /\ Len(r) = Len(left) + Len(right)
          /\ \A j \in 1 .. Len(left) + Len(right) :
               r[j] = IF j <= Len(left) THEN left[j] ELSE right[j - Len(left)]
      BY <3>1, <2>6, <2>7, ConcatProperties
    <3>3. Len(r) = Len(s) - 1 /\ Len(left) + Len(right) = Len(s) - 1
      BY <3>2, <2>6, <2>7, <1>0
    <3>4. ASSUME NEW j \in 1 .. Len(s) - 1
          PROVE  r[j] = IF j < i THEN s[j] ELSE s[j + 1]
      <4>1. CASE j < i
        BY <4>1, <3>2, <3>3, <2>6, <1>0
      <4>2. CASE ~(j < i)
        <5>1. j - (i - 1) \in 1 .. Len(s) - i /\ i + (j - (i - 1)) = j + 1
          BY <4>2, <1>0
        <5>2. r[j] = right[j - (i - 1)]
          BY <4>2, <3>2, <3>3, <2>6, <1>0, SMTT(30)
        <5>3. right[j - (i - 1)] = s[i + (j - (i - 1))]
          BY <5>1, <2>7
        <5> QED BY <5>1, <5>2, <5>3, <4>2
      <4> QED BY <4>1, <4>2
    <3>5. r \in Seq(S) /\ DOMAIN r = 1 .. Len(s) - 1
      BY <3>2, <3>3
    <3> QED BY <3>3, <3>4, <3>5
  <2> HIDE DEF r
  <2>9. IsInjective(r)
    <3>1. SUFFICES ASSUME NEW j \in 1 .. Len(s) - 1, NEW k \in 1 .. Len(s) - 1,
                          r[j] = r[k]
                   PROVE  j = k
      BY <2>8 DEF IsInjective
    <3> DEFINE at(n) == IF n < i THEN n ELSE n + 1
    <3>2. at(j) \in 1 .. Len(s) /\ at(k) \in 1 .. Len(s)
      BY <1>0
    <3>3. s[at(j)] = s[at(k)]
      BY <2>8, <3>1
    <3>4. at(j) = at(k)
      BY <3>2, <3>3, <1>0 DEF IsInjective
    <3> QED BY <3>4, <1>0
  <2>10. ASSUME NEW x \in ToSet(r) PROVE x \in ToSet(s) \ {e}
    <3>1. PICK j \in 1 .. Len(s) - 1 : x = IF j < i THEN s[j] ELSE s[j + 1]
      BY <2>8 DEF ToSet
    <3>2. PICK k \in 1 .. Len(s) : k # i /\ x = s[k]
      BY <3>1, <1>0
    <3> QED BY <3>2, <1>0, <1>2 DEF ToSet, IsInjective
  <2>11. ASSUME NEW x \in ToSet(s) \ {e} PROVE x \in ToSet(r)
    <3>1. PICK k \in 1 .. Len(s) : x = s[k] /\ k # i
      BY <1>0, <1>2 DEF ToSet
    <3>2. CASE k < i
      BY <3>1, <3>2, <2>8 DEF ToSet
    <3>3. CASE k > i
      <4>1. k - 1 \in DOMAIN r /\ r[k - 1] = x
        BY <3>1, <3>3, <2>8
      <4> QED BY <4>1 DEF ToSet
    <3> QED BY <3>1, <3>2, <3>3, <1>0
  <2> QED BY <2>4, <2>8, <2>9, <2>10, <2>11
<1> QED BY <1>1, <1>2

---------------------------------------------------------------------------
(* A queue that lost some of its first and some of its last elements.       *)
Window(p, s) ==
  \E k \in Nat : Len(p) + k <= Len(s) /\ \A i \in 1 .. Len(p) : p[i] = s[i + k]

(* Nothing lost; everything lost; the first one taken.                      *)
LEMMA PlainWindows ==
  ASSUME NEW S, NEW s \in Seq(S)
  PROVE  Window(s, s) /\ Window(<<>>, s) /\ (s # <<>> => Window(Tail(s), s))
<1>0. Len(s) \in Nat /\ Len(<<>>) = 0
  BY EmptySeq
<1>1. Len(s) + 0 <= Len(s) /\ \A i \in 1 .. Len(s) : s[i] = s[i + 0]
  BY <1>0
<1>2. Len(<<>>) + 0 <= Len(s) /\ \A i \in 1 .. Len(<<>>) : <<>>[i] = s[i + 0]
  BY <1>0
<1>3. ASSUME s # <<>> PROVE Window(Tail(s), s)
  <2>1. Len(Tail(s)) = Len(s) - 1 /\ \A i \in 1 .. Len(Tail(s)) : Tail(s)[i] = s[i + 1]
    BY <1>3, HeadTailProperties
  <2>2. Len(Tail(s)) + 1 <= Len(s)
    BY <1>0, <2>1
  <2> QED BY <2>1, <2>2 DEF Window
<1> QED BY <1>1, <1>2, <1>3 DEF Window

(* What comes first in a sequence is a stretch of it.                       *)
LEMMA PrefixWindow ==
  ASSUME NEW S, NEW s \in Seq(S), NEW p \in Prefixes(s)
  PROVE  p \in Seq(S) /\ Window(p, s)
<1>1. PICK l \in 0 .. Len(s) : p = SubSeq(s, 1, l)
  BY DEF Prefixes
<1>2. /\ 1 \in Int /\ l \in Int /\ Len(s) \in Nat
      /\ \A i \in 1 .. l : s[i] \in S
  BY ElementOfSeq
<1>3. /\ p \in Seq(S)
      /\ Len(p) = IF 1 <= l THEN l - 1 + 1 ELSE 0
      /\ \A i \in 1 .. l - 1 + 1 : p[i] = s[1 + i - 1]
  BY <1>1, <1>2, SubSeqProperties
<1>4. Len(p) = l
  BY <1>2, <1>3
<1>5. Len(p) + 0 <= Len(s)
  BY <1>2, <1>4
<1>6. \A i \in 1 .. Len(p) : p[i] = s[i + 0]
  BY <1>2, <1>3, <1>4
<1> QED BY <1>3, <1>5, <1>6 DEF Window

(* So is what comes last in it.                                             *)
LEMMA SuffixWindow ==
  ASSUME NEW S, NEW s \in Seq(S), NEW p \in Suffixes(s)
  PROVE  p \in Seq(S) /\ Window(p, s)
<1>1. CASE p = <<>>
  BY <1>1, EmptySeq, PlainWindows
<1>2. ASSUME NEW l \in 1 .. Len(s), p = SubSeq(s, l, Len(s))
      PROVE  p \in Seq(S) /\ Window(p, s)
  <2>1. /\ l \in Int /\ Len(s) \in Int
        /\ \A i \in l .. Len(s) : s[i] \in S
    BY ElementOfSeq
  <2>2. /\ p \in Seq(S)
        /\ Len(p) = IF l <= Len(s) THEN Len(s) - l + 1 ELSE 0
        /\ \A i \in 1 .. Len(s) - l + 1 : p[i] = s[l + i - 1]
    BY <1>2, <2>1, SubSeqProperties
  <2>3. l - 1 \in Nat /\ Len(p) = Len(s) - l + 1
    BY <2>1, <2>2
  <2>4. Len(p) + (l - 1) <= Len(s)
    BY <2>1, <2>3
  <2>5. \A i \in 1 .. Len(p) : p[i] = s[i + (l - 1)]
    BY <2>1, <2>2, <2>3
  <2> QED BY <2>2, <2>3, <2>4, <2>5 DEF Window
<1> QED BY <1>1, <1>2 DEF Suffixes

(* What is left is some of what was there, and free of duplicates if that   *)
(* was.                                                                     *)
LEMMA WindowSubset ==
  ASSUME NEW S, NEW s \in Seq(S), NEW p \in Seq(S), Window(p, s)
  PROVE  /\ Len(p) <= Len(s)
         /\ ToSet(p) \subseteq ToSet(s)
         /\ IsInjective(s) => IsInjective(p)
<1>0. /\ DOMAIN s = 1 .. Len(s) /\ Len(s) \in Nat
      /\ DOMAIN p = 1 .. Len(p) /\ Len(p) \in Nat
  OBVIOUS
<1>1. PICK k \in Nat : Len(p) + k <= Len(s) /\ \A i \in 1 .. Len(p) : p[i] = s[i + k]
  BY DEF Window
<1>2. \A i \in 1 .. Len(p) : i + k \in 1 .. Len(s)
  BY <1>0, <1>1
<1>3. ToSet(p) \subseteq ToSet(s)
  BY <1>0, <1>1, <1>2 DEF ToSet
<1>4. ASSUME IsInjective(s) PROVE IsInjective(p)
  BY <1>0, <1>1, <1>2, <1>4, SMTT(30) DEF IsInjective
<1> QED BY <1>0, <1>1, <1>3, <1>4

(* list.append of any element.                                              *)
LEMMA AppendAny ==
  ASSUME NEW S, NEW s \in Seq(S), NEW e \in S
  PROVE  /\ Append(s, e) \in Seq(S)
         /\ Len(Append(s, e)) = Len(s) + 1
         /\ Append(s, e)[Len(s) + 1] = e
         /\ \A i \in 1 .. Len(s) : Append(s, e)[i] = s[i]
         /\ DOMAIN Append(s, e) = 1 .. Len(s) + 1
         /\ ToSet(Append(s, e)) = ToSet(s) \cup {e}
<1>1. /\ Append(s, e) \in Seq(S)
      /\ Len(Append(s, e)) = Len(s) + 1
      /\ \A i \in 1 .. Len(s) : Append(s, e)[i] = s[i]
      /\ Append(s, e)[Len(s) + 1] = e
  BY AppendProperties
<1>2. DOMAIN Append(s, e) = 1 .. Len(s) + 1 /\ DOMAIN s = 1 .. Len(s) /\ Len(s) \in Nat
  BY <1>1
<1>3. ASSUME NEW x \in ToSet(Append(s, e)) PROVE x \in ToSet(s) \cup {e}
  BY <1>1, <1>2, <1>3 DEF ToSet
<1>4. ASSUME NEW x \in ToSet(s) PROVE x \in ToSet(Append(s, e))
  <2>1. PICK i \in 1 .. Len(s) : x = s[i]
    BY <1>2, <1>4 DEF ToSet
  <2>2. i \in DOMAIN Append(s, e) /\ Append(s, e)[i] = x
    BY <1>1, <1>2, <2>1
  <2> QED BY <2>2 DEF ToSet
<1>5. e \in ToSet(Append(s, e))
  <2>1. Len(s) + 1 \in DOMAIN Append(s, e)
    BY <1>2
  <2> QED BY <1>1, <2>1 DEF ToSet
<1> QED BY <1>1, <1>2, <1>3, <1>4, <1>5

(* A sequence of at most one element, and not of none.                      *)
LEMMA SingleElement ==
  ASSUME NEW S, NEW s \in Seq(S), s # <<>>, Len(s) <= 1
  PROVE  /\ Len(s) = 1 /\ 1 \in DOMAIN s /\ Head(s) = s[1]
         /\ Len(Tail(s)) = 0 /\ DOMAIN Tail(s) = {}
<1>1. /\ Head(s) = s[1] /\ Tail(s) \in Seq(S) /\ Len(Tail(s)) = Len(s) - 1
      /\ Len(s) \in Nat
  BY HeadTailProperties
<1>2. Len(s) # 0
  BY EmptySeq
<1>3. Len(s) = 1 /\ DOMAIN s = 1 .. Len(s)
  BY <1>1, <1>2
<1>4. DOMAIN Tail(s) = 1 .. Len(Tail(s))
  BY <1>1
<1> QED BY <1>1, <1>3, <1>4

(* The last element of a sequence that grows at the end or loses its head.  *)
LEMMA LastOfAppend ==
  ASSUME NEW S, NEW s \in Seq(S), NEW e \in S
  PROVE  Append(s, e) # <<>> /\ Last(Append(s, e)) = e
<1>1. /\ Append(s, e) \in Seq(S) /\ Len(Append(s, e)) = Len(s) + 1
      /\ Append(s, e)[Len(s) + 1] = e /\ Len(s) \in Nat
  BY AppendProperties
<1>2. Append(s, e) # <<>>
  BY <1>1, EmptySeq
<1> QED BY <1>1, <1>2 DEF Last

(* The last element stays the last when the first one goes.                 *)
LEMMA LastOfTail ==
  ASSUME NEW S, NEW s \in Seq(S), s # <<>>
  PROVE  /\ Len(s) \in DOMAIN s /\ s[Len(s)] = Last(s)
         /\ Tail(s) # <<>> => Last(Tail(s)) = Last(s)
         /\ Tail(s) = <<>> => Head(s) = Last(s)
<1>1. /\ Tail(s) \in Seq(S) /\ Len(Tail(s)) = Len(s) - 1 /\ Head(s) = s[1]
      /\ \A i \in 1 .. Len(Tail(s)) : Tail(s)[i] = s[i + 1]
      /\ Len(s) \in Nat /\ Len(s) # 0 /\ DOMAIN s = 1 .. Len(s)
  BY HeadTailProperties, EmptySeq
<1>2. Len(s) \in DOMAIN s /\ s[Len(s)] = Last(s)
  BY <1>1 DEF Last
<1>3. ASSUME Tail(s) # <<>> PROVE Last(Tail(s)) = Last(s)
  <2>1. Len(Tail(s)) # 0
    BY <1>1, <1>3, EmptySeq
  <2>2. Len(s) - 1 \in 1 .. Len(Tail(s)) /\ (Len(s) - 1) + 1 = Len(s)
    BY <1>1, <2>1
  <2>3. Tail(s)[Len(s) - 1] = s[Len(s)]
    BY <1>1, <2>2
  <2> QED BY <1>1, <2>3 DEF Last
<1>4. ASSUME Tail(s) = <<>> PROVE Head(s) = Last(s)
  <2>1. Len(Tail(s)) = 0
    BY <1>4, EmptySeq
  <2>2. Len(s) - 1 = 0 /\ Len(s) \in Nat
    BY <1>1, <2>1, Zenon
  <2>3. Len(s) = 1
    BY <2>2
  <2> QED BY <1>1, <2>3 DEF Last
<1> QED BY <1>2, <1>3, <1>4

---------------------------------------------------------------------------
(* Where an element of V stands in a list, and in how many places.          *)
Places(s, V) == {i \in DOMAIN s : s[i] \in V}

(* There are finitely many such places.                                     *)
LEMMA PlacesFinite ==
  ASSUME NEW S, NEW s \in Seq(S), NEW V
  PROVE  /\ Places(s, V) \subseteq 1 .. Len(s)
         /\ IsFiniteSet(Places(s, V))
         /\ Cardinality(Places(s, V)) \in Nat
<1>1. Places(s, V) \in SUBSET (1 .. Len(s))
  BY DEF Places
<1>2. Len(s) \in Nat
  OBVIOUS
<1>3. IsFiniteSet(1 .. Len(s))
  BY <1>2, FS_Interval
<1>4. IsFiniteSet(Places(s, V))
  BY <1>1, <1>3, FS_Subset
<1> QED BY <1>1, <1>4, FS_CardinalityType

(* Appending an element may add the last place.                             *)
LEMMA PlacesAppend ==
  ASSUME NEW S, NEW s \in Seq(S), NEW e \in S, NEW V
  PROVE  /\ Places(Append(s, e), V) =
              Places(s, V) \cup (IF e \in V THEN {Len(s) + 1} ELSE {})
         /\ Cardinality(Places(Append(s, e), V)) =
              Cardinality(Places(s, V)) + (IF e \in V THEN 1 ELSE 0)
<1>1. Places(Append(s, e), V) =
        Places(s, V) \cup (IF e \in V THEN {Len(s) + 1} ELSE {})
  BY AppendAny DEF Places
<1>2. Len(s) + 1 \notin Places(s, V)
  BY PlacesFinite
<1>3. CASE e \in V
  BY <1>1, <1>2, <1>3, PlacesFinite, FS_AddElement
<1>4. CASE e \notin V
  <2>1. Places(Append(s, e), V) = Places(s, V)
    BY <1>1, <1>4
  <2> QED BY <1>1, <1>4, <2>1, PlacesFinite
<1> QED BY <1>1, <1>3, <1>4

(* Taking the head moves every place by one.                                *)
LEMMA PlacesTail ==
  ASSUME NEW S, NEW s \in Seq(S), s # <<>>, NEW V
  PROVE  /\ Tail(s) \in Seq(S)
         /\ Places(s, V) = {i + 1 : i \in Places(Tail(s), V)}
              \cup (IF Head(s) \in V THEN {1} ELSE {})
         /\ Cardinality(Places(s, V)) =
              Cardinality(Places(Tail(s), V))
                + (IF Head(s) \in V THEN 1 ELSE 0)
<1> DEFINE T == Places(Tail(s), V)
           U == {i + 1 : i \in T}
<1>1. /\ Tail(s) \in Seq(S)
      /\ Len(Tail(s)) = Len(s) - 1
      /\ \A i \in 1 .. Len(Tail(s)) : Tail(s)[i] = s[i + 1]
      /\ Len(s) \in Nat /\ Len(s) > 0 /\ Head(s) = s[1]
      /\ DOMAIN s = 1 .. Len(s) /\ DOMAIN Tail(s) = 1 .. Len(s) - 1
  BY HeadTailProperties, EmptySeq
<1>2. Places(s, V) = U \cup (IF Head(s) \in V THEN {1} ELSE {})
  <2>1. ASSUME NEW i \in Places(s, V)
        PROVE  i \in U \cup (IF Head(s) \in V THEN {1} ELSE {})
    <3>1. i \in 1 .. Len(s) /\ s[i] \in V
      BY <1>1 DEF Places
    <3>2. CASE i = 1
      BY <1>1, <3>1, <3>2
    <3>3. CASE i # 1
      <4>1. i - 1 \in T /\ i = (i - 1) + 1
        BY <1>1, <3>1, <3>3 DEF Places
      <4> QED BY <4>1
    <3> QED BY <3>2, <3>3
  <2>2. ASSUME NEW i \in T PROVE i + 1 \in Places(s, V)
    BY <1>1 DEF Places
  <2>3. Head(s) \in V => 1 \in Places(s, V)
    BY <1>1 DEF Places
  <2> QED BY <2>1, <2>2, <2>3
<1>3. IsFiniteSet(T) /\ Cardinality(T) \in Nat /\ T \subseteq 1 .. Len(Tail(s))
  BY <1>1, PlacesFinite
<1> HIDE DEF T
<1>4. IsFiniteSet(U) /\ Cardinality(U) = Cardinality(T)
  <2> DEFINE f == [i \in T |-> i + 1]
  <2>1. f \in Bijection(T, U)
    <3>1. f \in [T -> U]
      OBVIOUS
    <3>2. IsInjective(f)
      BY <1>1, <1>3 DEF IsInjective
    <3>3. \A u \in U : \E i \in T : f[i] = u
      OBVIOUS
    <3> QED BY <3>1, <3>2, <3>3 DEF Bijection, Injection, Surjection
  <2>2. ExistsBijection(T, U)
    BY <2>1 DEF ExistsBijection
  <2> QED BY <1>3, <2>2, FS_Bijection
<1>5. 1 \notin U
  BY <1>1, <1>3
<1> HIDE DEF U
<1>6. Cardinality(Places(s, V)) =
        Cardinality(T) + (IF Head(s) \in V THEN 1 ELSE 0)
  <2>1. CASE Head(s) \in V
    <3>1. Places(s, V) = U \cup {1}
      BY <1>2, <2>1
    <3> QED BY <1>3, <1>4, <1>5, <2>1, <3>1, FS_AddElement
  <2>2. CASE Head(s) \notin V
    <3>1. Places(s, V) = U
      BY <1>2, <2>2
    <3> QED BY <1>3, <1>4, <2>2, <3>1
  <2> QED BY <2>1, <2>2
<1> QED BY <1>1, <1>2, <1>6 DEF T, U

(* A list without duplicates has as many elements as places.                *)
LEMMA SizeOfInjective ==
  ASSUME NEW S, NEW s \in Seq(S), IsInjective(s)
  PROVE  /\ IsFiniteSet(ToSet(s)) /\ Cardinality(ToSet(s)) = Len(s)
         /\ Cardinality(ToSet(s)) \in Nat
<1>1. Len(s) \in Nat /\ DOMAIN s = 1 .. Len(s)
  OBVIOUS
<1>2. IsFiniteSet(1 .. Len(s)) /\ Cardinality(1 .. Len(s)) = Len(s)
  BY <1>1, FS_Interval, SMTT(30)
<1>3. s \in Bijection(1 .. Len(s), ToSet(s))
  <2>1. s \in [1 .. Len(s) -> ToSet(s)]
    BY <1>1 DEF ToSet
  <2>2. \A i, j \in 1 .. Len(s) : s[i] = s[j] => i = j
    BY <1>1 DEF IsInjective
  <2>3. \A e \in ToSet(s) : \E i \in 1 .. Len(s) : s[i] = e
    BY <1>1 DEF ToSet
  <2> QED BY <2>1, <2>2, <2>3 DEF Bijection, Injection, Surjection, IsInjective
<1>4. ExistsBijection(1 .. Len(s), ToSet(s))
  BY <1>3 DEF ExistsBijection
<1> QED BY <1>1, <1>2, <1>4, FS_Bijection

(* Two sets without common elements.                                        *)
LEMMA DisjointUnion ==
  ASSUME NEW S, IsFiniteSet(S), NEW T, IsFiniteSet(T), S \cap T = {}
  PROVE  /\ IsFiniteSet(S \cup T)
         /\ Cardinality(S \cup T) = Cardinality(S) + Cardinality(T)
<1>1. /\ IsFiniteSet(S \cup T)
      /\ Cardinality(S \cup T) = Cardinality(S) + Cardinality(T) - Cardinality(S \cap T)
  BY FS_Union
<1>2. Cardinality(S \cap T) = 0
  BY FS_EmptySet
<1>3. Cardinality(S) \in Nat /\ Cardinality(T) \in Nat
  BY FS_CardinalityType
<1> QED BY <1>1, <1>2, <1>3

---------------------------------------------------------------------------
(* A sequence read backwards has the same elements, ...                     *)
LEMMA ReverseType ==
  ASSUME NEW S, NEW s \in Seq(S)
  PROVE  Reverse(s) \in Seq(S) /\ ToSet(Reverse(s)) = ToSet(s)
<1>1. Len(s) \in Nat /\ DOMAIN s = 1 .. Len(s) /\ \A i \in 1 .. Len(s) : s[i] \in S
  OBVIOUS
<1>2. \A i \in 1 .. Len(s) : Len(s) - i + 1 \in 1 .. Len(s) /\ Len(s) - (Len(s) - i + 1) + 1 = i
  BY <1>1
<1>3. PICK r : r = Reverse(s)
  OBVIOUS
<1>4. r = [i \in 1 .. Len(s) |-> s[Len(s) - i + 1]]
  BY <1>3 DEF Reverse
<1>5. r \in [1 .. Len(s) -> S]
  BY <1>1, <1>2, <1>4
<1>6. r \in Seq(S)
  BY <1>1, <1>5
<1>7. ASSUME NEW x \in ToSet(r) PROVE x \in ToSet(s)
  BY <1>1, <1>2, <1>4, <1>7 DEF ToSet
<1>8. ASSUME NEW x \in ToSet(s) PROVE x \in ToSet(r)
  <2>1. PICK i \in 1 .. Len(s) : x = s[i]
    BY <1>1, <1>8 DEF ToSet
  <2>2. Len(s) - i + 1 \in DOMAIN r /\ r[Len(s) - i + 1] = x
    BY <1>2, <1>4, <2>1
  <2> QED BY <2>2 DEF ToSet
<1> QED BY <1>3, <1>6, <1>7, <1>8

(* ... and names none twice if it did not.                                  *)
LEMMA ReverseInjective ==
  ASSUME NEW S, NEW s \in Seq(S), IsInjective(s)
  PROVE  IsInjective(Reverse(s))
<1>1. Len(s) \in Nat /\ DOMAIN s = 1 .. Len(s)
  OBVIOUS
<1>2. \A i \in 1 .. Len(s) : Len(s) - i + 1 \in 1 .. Len(s)
  BY <1>1
<1>3. DOMAIN Reverse(s) = 1 .. Len(s)
      /\ \A i \in 1 .. Len(s) : Reverse(s)[i] = s[Len(s) - i + 1]
  BY DEF Reverse
<1>4. ASSUME NEW i \in 1 .. Len(s), NEW j \in 1 .. Len(s), Reverse(s)[i] = Reverse(s)[j]
      PROVE  i = j
  <2>1. s[Len(s) - i + 1] = s[Len(s) - j + 1]
    BY <1>3, <1>4
  <2>2. Len(s) - i + 1 = Len(s) - j + 1
    BY <1>1, <1>2, <2>1 DEF IsInjective
  <2> QED BY <1>1, <2>2
<1> QED BY <1>3, <1>4 DEF IsInjective

(* Two sequences, one after the other: nothing is named twice if neither    *)
(* does, and they have no element in common.                                *)
LEMMA Joined ==
  ASSUME NEW S, NEW s \in Seq(S), NEW t \in Seq(S)
  PROVE  /\ s \o t \in Seq(S) /\ ToSet(s \o t) = ToSet(s) \cup ToSet(t)
         /\ IsInjective(s) /\ IsInjective(t) /\ ToSet(s) \cap ToSet(t) = {} => IsInjective(s \o t)
<1>1. /\ Len(s) \in Nat /\ DOMAIN s = 1 .. Len(s) /\ Len(t) \in Nat /\ DOMAIN t = 1 .. Len(t)
  OBVIOUS
<1>2. /\ s \o t \in Seq(S) /\ DOMAIN (s \o t) = 1 .. Len(s) + Len(t)
      /\ \A i \in 1 .. Len(s) + Len(t) :
           (s \o t)[i] = IF i <= Len(s) THEN s[i] ELSE t[i - Len(s)]
  OBVIOUS
<1>3. ASSUME NEW i \in 1 .. Len(s) + Len(t)
      PROVE  \/ i \in 1 .. Len(s) /\ (s \o t)[i] = s[i]
             \/ i > Len(s) /\ i - Len(s) \in 1 .. Len(t) /\ (s \o t)[i] = t[i - Len(s)]
  BY <1>1, <1>2, <1>3
<1>4. ASSUME NEW x \in ToSet(s \o t) PROVE x \in ToSet(s) \cup ToSet(t)
  <2>1. PICK i \in 1 .. Len(s) + Len(t) : x = (s \o t)[i]
    BY <1>2, <1>4 DEF ToSet
  <2> QED BY <1>1, <1>3, <2>1 DEF ToSet
<1>5. ASSUME NEW x \in ToSet(s) PROVE x \in ToSet(s \o t)
  <2>1. PICK i \in 1 .. Len(s) : x = s[i]
    BY <1>1, <1>5 DEF ToSet
  <2>2. i \in 1 .. Len(s) + Len(t) /\ i <= Len(s)
    BY <1>1
  <2>3. (s \o t)[i] = x
    BY <1>2, <2>1, <2>2
  <2> QED BY <1>2, <2>2, <2>3 DEF ToSet
<1>6. ASSUME NEW x \in ToSet(t) PROVE x \in ToSet(s \o t)
  <2>1. PICK i \in 1 .. Len(t) : x = t[i]
    BY <1>1, <1>6 DEF ToSet
  <2>2. Len(s) + i \in 1 .. Len(s) + Len(t) /\ ~(Len(s) + i <= Len(s)) /\ Len(s) + i - Len(s) = i
    BY <1>1
  <2>3. (s \o t)[Len(s) + i] = x
    BY <1>2, <2>1, <2>2
  <2> QED BY <1>2, <2>2, <2>3 DEF ToSet
<1>7. ASSUME IsInjective(s), IsInjective(t), ToSet(s) \cap ToSet(t) = {},
             NEW i \in 1 .. Len(s) + Len(t), NEW j \in 1 .. Len(s) + Len(t),
             (s \o t)[i] = (s \o t)[j]
      PROVE  i = j
  <2>1. CASE i <= Len(s) /\ j <= Len(s)
    <3>1. i \in 1 .. Len(s) /\ j \in 1 .. Len(s) /\ s[i] = s[j]
      BY <1>1, <1>2, <1>7, <2>1
    <3> QED BY <1>1, <1>7, <3>1 DEF IsInjective
  <2>2. CASE i > Len(s) /\ j > Len(s)
    <3>1. i - Len(s) \in 1 .. Len(t) /\ j - Len(s) \in 1 .. Len(t) /\ t[i - Len(s)] = t[j - Len(s)]
      BY <1>1, <1>3, <1>7, <2>2
    <3>2. i - Len(s) = j - Len(s)
      BY <1>1, <1>7, <3>1 DEF IsInjective
    <3> QED BY <1>1, <3>2
  <2>3. CASE i <= Len(s) /\ j > Len(s)
    <3>1. i \in 1 .. Len(s) /\ j - Len(s) \in 1 .. Len(t) /\ s[i] = t[j - Len(s)]
      BY <1>1, <1>2, <1>3, <1>7, <2>3
    <3>2. s[i] \in ToSet(s) /\ t[j - Len(s)] \in ToSet(t)
      BY <1>1, <3>1 DEF ToSet
    <3> QED BY <1>7, <3>1, <3>2
  <2>4. CASE i > Len(s) /\ j <= Len(s)
    <3>1. j \in 1 .. Len(s) /\ i - Len(s) \in 1 .. Len(t) /\ s[j] = t[i - Len(s)]
      BY <1>1, <1>2, <1>3, <1>7, <2>4
    <3>2. s[j] \in ToSet(s) /\ t[i - Len(s)] \in ToSet(t)
      BY <1>1, <3>1 DEF ToSet
    <3> QED BY <1>7, <3>1, <3>2
  <2> QED BY <1>1, <2>1, <2>2, <2>3, <2>4
<1>8. IsInjective(s) /\ IsInjective(t) /\ ToSet(s) \cap ToSet(t) = {} => IsInjective(s \o t)
  BY <1>2, <1>7 DEF IsInjective
<1> QED BY <1>2, <1>4, <1>5, <1>6, <1>8

(* The empty sequence.                                                      *)
LEMMA EmptyList ==
  ASSUME NEW S
  PROVE  <<>> \in Seq(S) /\ IsInjective(<<>>) /\ ToSet(<<>>) = {}
BY DEF IsInjective, ToSet

(* A list cut in two, of which up to one element between the parts is lost: *)
(* p are the first `kept' elements, q those from the m-th on.               *)
CutInTwo(s, p, q, kept, m) ==
  /\ p = SubSeq(s, 1, kept) /\ q = SubSeq(s, m, Len(s))
  /\ m = kept + 1 \/ m = kept + 2
  /\ m <= Len(s) + 1

LEMMA Cut ==
  ASSUME NEW S, NEW s \in Seq(S), NEW kept \in 0 .. Len(s), NEW m \in Int, NEW p, NEW q,
         CutInTwo(s, p, q, kept, m)
  PROVE  /\ p \in Seq(S) /\ q \in Seq(S)
         /\ ToSet(p) \cup ToSet(q) \subseteq ToSet(s)
         /\ ToSet(s) \subseteq ToSet(p) \cup ToSet(q) \cup {s[kept + 1]}
         /\ m = kept + 1 => ToSet(s) = ToSet(p) \cup ToSet(q)
         /\ IsInjective(s) => /\ IsInjective(p) /\ IsInjective(q)
                              /\ ToSet(p) \cap ToSet(q) = {}
<1> USE DEF CutInTwo
<1>0. PICK n, k : n = Len(s) /\ k = m - 1
  OBVIOUS
<1>1. n \in Nat /\ kept \in 0 .. n /\ k \in 0 .. n /\ DOMAIN s = 1 .. n
      /\ \A i \in 1 .. n : s[i] \in S
  BY <1>0, ElementOfSeq
<1>2. /\ p \in Seq(S) /\ Len(p) = kept /\ DOMAIN p = 1 .. kept
      /\ \A i \in 1 .. kept : p[i] = s[i]
  <2>1. /\ 1 \in Int /\ kept \in Int /\ \A i \in 1 .. kept : s[i] \in S
    BY <1>1
  <2>2. /\ p \in Seq(S) /\ Len(p) = IF 1 <= kept THEN kept - 1 + 1 ELSE 0
        /\ \A i \in 1 .. kept - 1 + 1 : p[i] = s[1 + i - 1]
    BY <2>1, SubSeqProperties
  <2>3. Len(p) = kept /\ DOMAIN p = 1 .. Len(p)
    BY <1>1, <2>2
  <2>4. ASSUME NEW i \in 1 .. kept PROVE p[i] = s[i]
    <3>1. i \in 1 .. kept - 1 + 1 /\ 1 + i - 1 = i
      BY <1>1
    <3> QED BY <2>2, <3>1
  <2> QED BY <2>2, <2>3, <2>4
<1>3. /\ q \in Seq(S) /\ Len(q) = n - k /\ DOMAIN q = 1 .. n - k
      /\ \A i \in 1 .. n - k : q[i] = s[k + i]
  <2>0. m \in Int /\ m = k + 1
    BY <1>0
  <2>1. n \in Int /\ \A i \in m .. n : s[i] \in S
    BY <1>1, <2>0
  <2>2. q = SubSeq(s, m, n)
    BY <1>0, <2>0
  <2>3. /\ q \in Seq(S) /\ Len(q) = IF m <= n THEN n - m + 1 ELSE 0
        /\ \A i \in 1 .. n - m + 1 : q[i] = s[m + i - 1]
    BY <2>1, <2>2, SubSeqProperties
  <2>4. Len(q) = n - k /\ DOMAIN q = 1 .. Len(q)
    <3>1. CASE k + 1 <= n
      BY <1>1, <2>0, <2>3, <3>1
    <3>2. CASE k = n
      BY <1>1, <2>0, <2>3, <3>2
    <3> QED BY <1>1, <3>1, <3>2
  <2>5. ASSUME NEW i \in 1 .. n - k PROVE q[i] = s[k + i]
    <3>1. i \in 1 .. n - m + 1 /\ m + i - 1 = k + i
      BY <1>1, <2>0
    <3> QED BY <2>3, <3>1
  <2> QED BY <2>3, <2>4, <2>5
<1>4. k = kept \/ (k = kept + 1 /\ m # kept + 1)
  BY <1>0
<1>5. \A i \in 1 .. kept : i \in 1 .. n
  BY <1>1, <1>4
<1>6. \A i \in 1 .. n - k : k + i \in 1 .. n /\ k + i \notin 1 .. kept
  BY <1>1, <1>4
<1>7. ToSet(p) \cup ToSet(q) \subseteq ToSet(s)
  <2>1. ToSet(p) \subseteq ToSet(s)
    BY <1>1, <1>2, <1>5 DEF ToSet
  <2>2. ToSet(q) \subseteq ToSet(s)
    BY <1>1, <1>3, <1>6 DEF ToSet
  <2> QED BY <2>1, <2>2
<1>8. ASSUME NEW i \in 1 .. n PROVE s[i] \in ToSet(p) \cup ToSet(q) \/ (m # kept + 1 /\ i = kept + 1)
  <2>1. CASE i \in 1 .. kept
    BY <1>2, <2>1 DEF ToSet
  <2>2. CASE i > k
    <3>1. i - k \in 1 .. n - k /\ k + (i - k) = i
      BY <1>1, <2>2
    <3> QED BY <1>3, <3>1 DEF ToSet
  <2>3. CASE i \notin 1 .. kept /\ ~(i > k)
    BY <1>1, <1>4, <2>3
  <2> QED BY <2>1, <2>2, <2>3
<1>9. ToSet(s) \subseteq ToSet(p) \cup ToSet(q) \cup {s[kept + 1]}
  <2>1. ASSUME NEW x \in ToSet(s) PROVE x \in ToSet(p) \cup ToSet(q) \cup {s[kept + 1]}
    <3>1. PICK i \in 1 .. n : x = s[i]
      BY <1>1 DEF ToSet
    <3> QED BY <1>8, <3>1
  <2> QED BY <2>1
<1>10. ASSUME m = kept + 1 PROVE ToSet(s) = ToSet(p) \cup ToSet(q)
  <2>1. ASSUME NEW x \in ToSet(s) PROVE x \in ToSet(p) \cup ToSet(q)
    <3>1. PICK i \in 1 .. n : x = s[i]
      BY <1>1 DEF ToSet
    <3> QED BY <1>8, <1>10, <3>1
  <2> QED BY <1>7, <2>1
<1>11. ASSUME IsInjective(s)
       PROVE  IsInjective(p) /\ IsInjective(q) /\ ToSet(p) \cap ToSet(q) = {}
  <2>1. \A i, j \in 1 .. n : s[i] = s[j] => i = j
    BY <1>1, <1>11 DEF IsInjective
  <2>2. IsInjective(p)
    BY <1>2, <1>5, <2>1 DEF IsInjective
  <2>3. ASSUME NEW i \in 1 .. n - k, NEW j \in 1 .. n - k, q[i] = q[j] PROVE i = j
    <3>1. k + i = k + j
      BY <1>3, <1>6, <2>1, <2>3
    <3> QED BY <1>1, <3>1
  <2>4. IsInjective(q)
    BY <1>3, <2>3 DEF IsInjective
  <2>5. ASSUME NEW i \in 1 .. kept, NEW j \in 1 .. n - k PROVE p[i] # q[j]
    <3>1. /\ p[i] = s[i] /\ q[j] = s[k + j] /\ i \in 1 .. n /\ k + j \in 1 .. n
          /\ k + j \notin 1 .. kept
      BY <1>2, <1>3, <1>5, <1>6
    <3>2. i # k + j
      BY <3>1
    <3> QED BY <2>1, <3>1, <3>2
  <2>6. ToSet(p) \cap ToSet(q) = {}
    BY <1>2, <1>3, <2>5 DEF ToSet
  <2> QED BY <2>2, <2>4, <2>6
<1> QED BY <1>2, <1>3, <1>7, <1>9, <1>10, <1>11

(* The order of the naturals is well-founded: among finitely many there is  *)
(* a greatest.                                                              *)
LEMMA Least ==
  ASSUME NEW T, T \subseteq Nat, T # {}
  PROVE  \E x \in T : \A y \in T : x <= y
<1> DEFINE R == OpToRel(<, Nat)
<1>1. IsWellFoundedOn(R, Nat)
  BY NatLessThanWellFounded
<1>2. \A x, y \in Nat : y < x => <<y, x>> \in R
  BY DEF OpToRel
<1> HIDE DEF R
<1>3. PICK x \in T : \A y \in T : ~(<<y, x>> \in R)
  BY <1>1, WFMin
<1>4. \A y \in T : x \in Nat /\ y \in Nat /\ ~(y < x)
  BY <1>2, <1>3
<1>5. \A y \in T : x <= y
  BY <1>4
<1> QED BY <1>5

LEMMA GreatestUpTo ==
  ASSUME NEW n \in Nat, NEW T, T \subseteq 1 .. n, T # {}
  PROVE  \E x \in T : \A y \in T : y <= x
<1> DEFINE D == {n - y : y \in T}
<1>1. \A y \in T : y \in Nat /\ n - y \in Nat
  OBVIOUS
<1>2. PICK d \in D : \A e \in D : d <= e
  <2>1. D \subseteq Nat
    BY <1>1
  <2>2. D # {}
    OBVIOUS
  <2> QED BY <2>1, <2>2, Least
<1>3. PICK x \in T : d = n - x
  OBVIOUS
<1>4. \A y \in T : n - x <= n - y
  BY <1>2, <1>3
<1>5. \A y \in T : y <= x
  BY <1>1, <1>4
<1> QED BY <1>5
===========================================================================
