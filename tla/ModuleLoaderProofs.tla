-------------------------- MODULE ModuleLoaderProofs --------------------------
(***************************************************************************)
(* The loader of modules, for any directories and files and any changes of *)
(* them.                                                                   *)
(*                                                                         *)
(* The list of available modules follows the files with a delay, so that   *)
(* an invariant has to say what the queue still holds: the events of one   *)
(* file tell by turns that it came and went (ByTurns), from what is listed *)
(* of it now to what is on disk, and the last one of a file that stays     *)
(* makes sure that it will be listed (WillBeListed).  Files of which the   *)
(* monitor is not told all, or which the constructor took for others, are  *)
(* Lost to this argument.                                                  *)
(***************************************************************************)
EXTENDS ModuleLoader, FiniteSetTheorems, WellFoundedInduction, TLAPS

(* The naturals are well-founded *)

\* A set of naturals that is not empty has a least element.
LEMMA Least ==
    ASSUME NEW S, S \subseteq Nat, S # {}
    PROVE  \E x \in S : \A y \in S : x <= y
<1>1. PICK R : IsWellFoundedOn(R, Nat) /\ \A a, b \in Nat : a < b => <<a, b>> \in R
    <2> DEFINE L == OpToRel(<, Nat)
    <2>1. \A a, b \in Nat : a < b => <<a, b>> \in L
        BY DEF OpToRel
    <2>2. IsWellFoundedOn(L, Nat)
        BY NatLessThanWellFounded
    <2> HIDE DEF L
    <2>3. QED
        BY <2>1, <2>2
<1>2. PICK x \in S : \A y \in S : ~(<<y, x>> \in R)
    BY <1>1, WFMin
<1>3. ASSUME NEW y \in S PROVE x <= y
    <2>1. x \in Nat /\ y \in Nat
        OBVIOUS
    <2>2. CASE y < x
        <3>1. <<y, x>> \in R
            BY <1>1, <2>1, <2>2
        <3>2. QED
            BY <1>2, <3>1, Zenon
    <2>3. QED
        BY <2>1, <2>2
<1>4. QED
    BY <1>3

LEMMA LeastElement ==
    ASSUME NEW S, S \subseteq Nat, S # {}
    PROVE  Min(S) \in S
<1>1. \E x \in S : \A y \in S : x <= y
    BY Least
<1>2. QED
    BY <1>1 DEF Min

-----------------------------------------------------------------------------
(* The queue of events *)

Event == [kind: {"CREATED", "DELETED"}, pair: Pair]
         \cup [kind: {"DIR_DELETED"}, pair: Dir \X {""}] \cup {OverflowEvent}

LEMMA PairOfEvent ==
    ASSUME NEW e \in Event, e.kind \in {"CREATED", "DELETED"}
    PROVE  e.pair \in Pair
<1>1. e \notin [kind: {"DIR_DELETED"}, pair: Dir \X {""}]
    OBVIOUS
<1>2. e # OverflowEvent
    <2>1. OverflowEvent.kind = "OVERFLOW"
        BY DEF OverflowEvent
    <2>2. QED
        BY <2>1
<1>3. e \in [kind: {"CREATED", "DELETED"}, pair: Pair]
    BY <1>1, <1>2 DEF Event
<1>4. QED
    BY <1>3

LEMMA AppendEvent ==
    ASSUME NEW s \in Seq(Event), NEW e \in Event
    PROVE  /\ Append(s, e) \in Seq(Event) /\ Len(Append(s, e)) = Len(s) + 1
           /\ \A i \in 1..Len(s) + 1 :
                Append(s, e)[i] = IF i <= Len(s) THEN s[i] ELSE e
OBVIOUS

LEMMA TailEvents ==
    ASSUME NEW s \in Seq(Event), s # <<>>
    PROVE  /\ Tail(s) \in Seq(Event) /\ Len(Tail(s)) = Len(s) - 1
           /\ \A i \in 1..Len(Tail(s)) : Tail(s)[i] = s[i + 1] /\ i + 1 \in 1..Len(s)
           /\ Head(s) = s[1] /\ 1 \in 1..Len(s)
OBVIOUS

-----------------------------------------------------------------------------
(* The list of libraries *)

Positions(s, p) == {i \in 1..Len(s) : s[i] = p}

LEMMA PositionsAreFinite ==
    ASSUME NEW s \in Seq(Pair), NEW p
    PROVE  IsFiniteSet(Positions(s, p)) /\ Cardinality(Positions(s, p)) \in Nat
<1>1. IsFiniteSet(1..Len(s))
    BY FS_Interval
<1>2. Positions(s, p) \subseteq 1..Len(s)
    BY DEF Positions
<1>3. QED
    BY <1>1, <1>2, FS_Subset, FS_CardinalityType

LEMMA AppendPosition ==
    ASSUME NEW s \in Seq(Pair), NEW e \in Pair, NEW p
    PROVE  /\ Append(s, e) \in Seq(Pair) /\ Append(s, e) # s
           /\ Cardinality(Positions(Append(s, e), p))
                = Cardinality(Positions(s, p)) + IF p = e THEN 1 ELSE 0
<1> DEFINE t == Append(s, e)
           n == Len(s) + 1
<1>1. /\ t \in Seq(Pair) /\ Len(t) = n /\ n \in Nat /\ Len(s) \in Nat /\ t[n] = e
      /\ \A i \in 1..Len(s) : t[i] = s[i]
    OBVIOUS
<1> HIDE DEF t
<1>2. t # s
    BY <1>1
<1>3. CASE p = e
    <2>1. Positions(t, p) = Positions(s, p) \cup {n} /\ n \notin Positions(s, p)
        BY <1>1, <1>3 DEF Positions
    <2> HIDE DEF n
    <2>2. Cardinality(Positions(t, p)) = Cardinality(Positions(s, p)) + 1
        BY <2>1, PositionsAreFinite, FS_AddElement
    <2>3. QED
        BY <1>1, <1>2, <1>3, <2>2 DEF t
<1>4. CASE p # e
    <2>1. Positions(t, p) = Positions(s, p)
        BY <1>1, <1>4 DEF Positions
    <2>2. Cardinality(Positions(s, p)) \in Nat
        BY PositionsAreFinite
    <2>3. QED
        BY <1>1, <1>2, <1>4, <2>1, <2>2 DEF t
<1>5. QED
    BY <1>3, <1>4

LEMMA RemoveAtFacts ==
    ASSUME NEW s \in Seq(Pair), NEW k \in 1..Len(s)
    PROVE  /\ RemoveAt(s, k) \in Seq(Pair) /\ Len(RemoveAt(s, k)) = Len(s) - 1
           /\ \A i \in 1..Len(s) - 1 :
                RemoveAt(s, k)[i] = IF i < k THEN s[i] ELSE s[i + 1]
<1> DEFINE a == SubSeq(s, 1, k - 1)
           b == SubSeq(s, k + 1, Len(s))
<1>1. a \in Seq(Pair) /\ Len(a) = k - 1 /\ \A i \in 1..k - 1 : a[i] = s[i]
    OBVIOUS
<1>2. /\ b \in Seq(Pair) /\ Len(b) = Len(s) - k
      /\ \A i \in 1..Len(s) - k : b[i] = s[k + i]
    OBVIOUS
<1> HIDE DEF a, b
<1>3. /\ a \o b \in Seq(Pair) /\ Len(a \o b) = Len(s) - 1
      /\ \A i \in 1..Len(s) - 1 : (a \o b)[i] = IF i <= Len(a) THEN a[i] ELSE b[i - Len(a)]
    <2>1. a \in Seq(Pair) /\ b \in Seq(Pair) /\ Len(a) + Len(b) = Len(s) - 1
        BY <1>1, <1>2
    <2>2. QED
        BY <2>1
<1>4. ASSUME NEW i \in 1..Len(s) - 1
      PROVE  (a \o b)[i] = IF i < k THEN s[i] ELSE s[i + 1]
    <2>1. CASE i < k
        BY <1>1, <1>3, <2>1
    <2>2. CASE ~(i < k)
        <3>1. i - Len(a) \in 1..Len(s) - k /\ k + (i - Len(a)) = i + 1 /\ ~(i <= Len(a))
            BY <1>1, <2>2
        <3>2. QED
            BY <1>2, <1>3, <2>2, <3>1
    <2>3. QED
        BY <2>1, <2>2
<1>5. QED
    BY <1>3, <1>4 DEF RemoveAt, a, b

LEMMA RemovePosition ==
    ASSUME NEW s \in Seq(Pair), NEW k \in 1..Len(s), NEW p
    PROVE  Cardinality(Positions(RemoveAt(s, k), p))
                = Cardinality(Positions(s, p)) - IF p = s[k] THEN 1 ELSE 0
<1> DEFINE t == RemoveAt(s, k)
           I == Positions(s, p) \ {k}
           J == Positions(t, p)
           f == [i \in I |-> IF i < k THEN i ELSE i - 1]
<1>1. /\ t \in Seq(Pair) /\ Len(t) = Len(s) - 1 /\ Len(s) \in Nat /\ k \in Nat
      /\ \A i \in 1..Len(s) - 1 : t[i] = IF i < k THEN s[i] ELSE s[i + 1]
    BY RemoveAtFacts
<1> HIDE DEF t
<1>2. \A i \in I : i \in 1..Len(s) /\ s[i] = p /\ i # k
    BY DEF Positions
<1>3. \A i \in I : f[i] \in J
    BY <1>1, <1>2 DEF Positions
<1>4. \A i, j \in I : f[i] = f[j] => i = j
    BY <1>1, <1>2
<1>5. \A j \in J : \E i \in I : f[i] = j
    <2> SUFFICES ASSUME NEW j \in J PROVE \E i \in I : f[i] = j
        OBVIOUS
    <2>1. j \in 1..Len(s) - 1 /\ t[j] = p
        BY <1>1 DEF Positions
    <2>2. CASE j < k
        <3>1. j \in I /\ f[j] = j
            BY <1>1, <2>1, <2>2 DEF Positions
        <3>2. QED
            BY <3>1
    <2>3. CASE ~(j < k)
        <3>1. j + 1 \in I /\ f[j + 1] = j
            BY <1>1, <2>1, <2>3 DEF Positions
        <3>2. QED
            BY <3>1
    <2>4. QED
        BY <2>2, <2>3
<1>6. ExistsBijection(I, J)
    <2>1. f \in [I -> J]
        BY <1>3
    <2> HIDE DEF I, J, f
    <2>2. f \in Bijection(I, J)
        BY <1>4, <1>5, <2>1 DEF Bijection, Injection, Surjection, IsInjective
    <2>3. QED
        BY <2>2 DEF ExistsBijection
<1>7. IsFiniteSet(I) /\ Cardinality(I) = Cardinality(Positions(s, p)) - IF p = s[k] THEN 1 ELSE 0
    <2>1. k \in Positions(s, p) <=> p = s[k]
        BY DEF Positions
    <2>2. /\ IsFiniteSet(Positions(s, p)) /\ Cardinality(Positions(s, p)) \in Nat
        BY PositionsAreFinite
    <2>3. IsFiniteSet(I) /\ Cardinality(I) =
            IF k \in Positions(s, p) THEN Cardinality(Positions(s, p)) - 1
                                     ELSE Cardinality(Positions(s, p))
        BY <2>2, FS_RemoveElement
    <2>4. QED
        BY <2>1, <2>2, <2>3
<1> HIDE DEF I, J
<1>8. Cardinality(J) = Cardinality(I)
    BY <1>6, <1>7, FS_Bijection
<1>9. QED
    BY <1>7, <1>8 DEF J, t

LEMMA RemoveFirstPosition ==
    ASSUME NEW s \in Seq(Pair), NEW e \in Pair
    PROVE  /\ RemoveFirst(s, e) \in Seq(Pair)
           /\ RemoveFirst(s, e) = s <=> Cardinality(Positions(s, e)) = 0
           /\ \A p : Cardinality(Positions(RemoveFirst(s, e), p))
                = Cardinality(Positions(s, p))
                    - IF p = e /\ RemoveFirst(s, e) # s THEN 1 ELSE 0
<1> DEFINE t == RemoveFirst(s, e)
           k == Min(Positions(s, e))
<1>1. \A p : IsFiniteSet(Positions(s, p)) /\ Cardinality(Positions(s, p)) \in Nat
    BY PositionsAreFinite
<1>2. Positions(s, e) = {} <=> Cardinality(Positions(s, e)) = 0
    BY <1>1, FS_EmptySet
<1>3. CASE Positions(s, e) = {}
    <2>1. t = s
        BY <1>3 DEF RemoveFirst, Positions
    <2> HIDE DEF t
    <2>2. QED
        BY <1>1, <1>2, <1>3, <2>1 DEF t
<1>4. CASE Positions(s, e) # {}
    <2>1. k \in Positions(s, e)
        <3>1. Positions(s, e) \subseteq Nat
            BY DEF Positions
        <3>2. QED
            BY <1>4, <3>1, LeastElement
    <2>2. t = RemoveAt(s, k)
        BY <1>4 DEF RemoveFirst, SelectInSeq, Positions
    <2> HIDE DEF k, t
    <2>3. k \in 1..Len(s) /\ s[k] = e
        BY <2>1 DEF Positions
    <2>4. t \in Seq(Pair) /\ Len(t) = Len(s) - 1
        BY <2>2, <2>3, RemoveAtFacts
    <2>5. t # s
        BY <2>4
    <2>6. \A p : Cardinality(Positions(t, p))
                = Cardinality(Positions(s, p)) - IF p = e THEN 1 ELSE 0
        BY <2>2, <2>3, RemovePosition
    <2>7. QED
        BY <1>2, <1>4, <2>4, <2>5, <2>6 DEF t
<1>5. QED
    BY <1>3, <1>4

-----------------------------------------------------------------------------
(* The events of one file among those of all *)

About(s, i, p) == s[i].pair = p /\ s[i].kind \in {"CREATED", "DELETED"}

None(s, p) == \A i \in 1..Len(s) : ~About(s, i, p)
Earliest(s, i, p) == About(s, i, p) /\ \A j \in 1..Len(s) : j < i => ~About(s, j, p)
Latest(s, i, p) == About(s, i, p) /\ \A j \in 1..Len(s) : j > i => ~About(s, j, p)
Successive(s, i, j, p) ==
    /\ About(s, i, p) /\ About(s, j, p) /\ i < j
    /\ \A k \in 1..Len(s) : i < k /\ k < j => ~About(s, k, p)

\* The events tell of one file by turns that it came and went, from its number
\* in the list to its number on disk.
ByTurns(s, p, listed, present) ==
    /\ \A i, j \in 1..Len(s) : Successive(s, i, j, p) => s[i].kind # s[j].kind
    /\ \A i \in 1..Len(s) : Latest(s, i, p) => (s[i].kind = "CREATED" <=> present = 1)
    /\ \A i \in 1..Len(s) : Earliest(s, i, p) =>
            listed <= IF s[i].kind = "CREATED" THEN 0 ELSE 1
    /\ None(s, p) => listed <= present

\* A file that is there for good is listed, or the last event tells of it.
WillBeListed(s, p, listed) ==
    \/ None(s, p) /\ listed > 0
    \/ \E i \in 1..Len(s) : Latest(s, i, p) /\ s[i].kind = "CREATED"

LEMMA EventKinds ==
    ASSUME NEW s \in Seq(Event), NEW i \in 1..Len(s), NEW p, About(s, i, p)
    PROVE  s[i].kind \in {"CREATED", "DELETED"} /\ s[i].pair \in Pair /\ p \in Pair
<1>1. s[i] \in Event
    OBVIOUS
<1>2. QED
    BY <1>1, PairOfEvent DEF About

LEMMA ByTurnsAppend ==
    ASSUME NEW s \in Seq(Event), NEW e \in Event, NEW p, NEW listed \in Nat,
           NEW present \in {0, 1}, ByTurns(s, p, listed, present),
           e.pair = p, e.kind = IF present = 1 THEN "DELETED" ELSE "CREATED"
    PROVE  ByTurns(Append(s, e), p, listed, 1 - present)
<1> DEFINE t == Append(s, e)
           n == Len(s) + 1
<1>1. /\ t \in Seq(Event) /\ Len(t) = n /\ Len(s) \in Nat /\ n \in 1..n /\ t[n] = e
      /\ \A i \in 1..n : i # n => i \in 1..Len(s) /\ t[i] = s[i]
      /\ \A i \in 1..Len(s) : i \in 1..n /\ i < n
    BY AppendEvent
<1> HIDE DEF t, n
<1>2. About(t, n, p)
    BY <1>1 DEF About
<1>3. \A i \in 1..n : i # n => (About(t, i, p) <=> About(s, i, p))
    BY <1>1 DEF About
<1>4. \A i \in 1..n : Latest(t, i, p) => i = n
    BY <1>1, <1>2 DEF Latest
<1>5. ASSUME NEW i \in 1..n, NEW j \in 1..n, Successive(t, i, j, p)
      PROVE  t[i].kind # t[j].kind
    <2>1. i \in 1..Len(s) /\ i < j /\ t[i] = s[i]
        BY <1>1, <1>5 DEF Successive
    <2>2. CASE j = n
        <3>1. Latest(s, i, p)
            BY <1>1, <1>3, <1>5, <2>1, <2>2 DEF Latest, Successive
        <3>2. s[i].kind = "CREATED" <=> present = 1
            BY <2>1, <3>1 DEF ByTurns
        <3>3. QED
            BY <1>1, <2>1, <2>2, <3>2
    <2>3. CASE j # n
        <3>1. j \in 1..Len(s) /\ t[j] = s[j]
            BY <1>1, <2>3
        <3>2. Successive(s, i, j, p)
            BY <1>1, <1>3, <1>5, <2>1, <3>1 DEF Successive
        <3>3. QED
            BY <2>1, <3>1, <3>2 DEF ByTurns
    <2>4. QED
        BY <2>2, <2>3
<1>6. ASSUME NEW i \in 1..n, Earliest(t, i, p)
      PROVE  listed <= IF t[i].kind = "CREATED" THEN 0 ELSE 1
    <2>1. CASE i = n
        <3>1. None(s, p)
            BY <1>1, <1>3, <1>6, <2>1 DEF None, Earliest
        <3>2. listed <= present
            BY <3>1 DEF ByTurns
        <3>3. QED
            BY <1>1, <2>1, <3>2
    <2>2. CASE i # n
        <3>1. i \in 1..Len(s) /\ t[i] = s[i]
            BY <1>1, <2>2
        <3>2. Earliest(s, i, p)
            BY <1>1, <1>3, <1>6, <3>1 DEF Earliest
        <3>3. QED
            BY <3>1, <3>2 DEF ByTurns
    <2>3. QED
        BY <2>1, <2>2
<1>7. ~None(t, p)
    BY <1>1, <1>2 DEF None
<1>8. t[n].kind = "CREATED" <=> 1 - present = 1
    BY <1>1
<1>9. QED
    BY <1>1, <1>4, <1>5, <1>6, <1>7, <1>8 DEF ByTurns, t

LEMMA OtherAppend ==
    ASSUME NEW s \in Seq(Event), NEW e \in Event, NEW p, NEW listed \in Nat,
           e.pair # p \/ e.kind \notin {"CREATED", "DELETED"}
    PROVE  /\ \A present : ByTurns(s, p, listed, present)
                        => ByTurns(Append(s, e), p, listed, present)
           /\ WillBeListed(s, p, listed) => WillBeListed(Append(s, e), p, listed)
<1> DEFINE t == Append(s, e)
           n == Len(s) + 1
<1>1. /\ t \in Seq(Event) /\ Len(t) = n /\ Len(s) \in Nat /\ n \in 1..n /\ t[n] = e
      /\ \A i \in 1..n : i # n => i \in 1..Len(s) /\ t[i] = s[i]
      /\ \A i \in 1..Len(s) : i \in 1..n /\ i < n /\ t[i] = s[i]
    BY AppendEvent
<1> HIDE DEF t, n
<1>2. ~About(t, n, p)
    BY <1>1 DEF About
<1>3. /\ \A i \in 1..n : About(t, i, p) => i \in 1..Len(s) /\ i # n /\ t[i] = s[i]
      /\ \A i \in 1..Len(s) : About(t, i, p) <=> About(s, i, p)
    BY <1>1, <1>2 DEF About
<1>4. \A i, j \in 1..n : Successive(t, i, j, p) => Successive(s, i, j, p)
    BY <1>1, <1>3 DEF Successive
<1>5. \A i \in 1..n : Earliest(t, i, p) => Earliest(s, i, p)
    BY <1>1, <1>3 DEF Earliest
<1>6. \A i \in 1..n : i \in 1..Len(s) => (Latest(t, i, p) <=> Latest(s, i, p))
    BY <1>1, <1>2, <1>3 DEF Latest
<1>7. None(t, p) <=> None(s, p)
    BY <1>1, <1>2, <1>3 DEF None
<1>8. ASSUME NEW present, ByTurns(s, p, listed, present)
      PROVE  ByTurns(t, p, listed, present)
    <2>1. \A i, j \in 1..n : Successive(t, i, j, p) => t[i].kind # t[j].kind
        BY <1>3, <1>4, <1>8 DEF ByTurns, Successive
    <2>2. \A i \in 1..n : Latest(t, i, p) => (t[i].kind = "CREATED" <=> present = 1)
        BY <1>3, <1>6, <1>8 DEF ByTurns, Latest
    <2>3. \A i \in 1..n : Earliest(t, i, p) => listed <= IF t[i].kind = "CREATED" THEN 0 ELSE 1
        BY <1>3, <1>5, <1>8 DEF ByTurns, Earliest
    <2>4. QED
        BY <1>1, <1>7, <1>8, <2>1, <2>2, <2>3 DEF ByTurns
<1>9. ASSUME WillBeListed(s, p, listed) PROVE WillBeListed(t, p, listed)
    BY <1>1, <1>6, <1>7, <1>9 DEF WillBeListed
<1>10. QED
    BY <1>8, <1>9 DEF t

LEMMA CreatedAppend ==
    ASSUME NEW s \in Seq(Event), NEW e \in Event, NEW p, NEW listed \in Nat,
           e.pair = p, e.kind = "CREATED"
    PROVE  WillBeListed(Append(s, e), p, listed)
<1> DEFINE t == Append(s, e)
           n == Len(s) + 1
<1>1. t \in Seq(Event) /\ Len(t) = n /\ n \in 1..n /\ t[n] = e /\ \A j \in 1..n : ~(j > n)
    BY AppendEvent
<1> HIDE DEF t, n
<1>2. Latest(t, n, p) /\ t[n].kind = "CREATED"
    BY <1>1 DEF Latest, About
<1>3. QED
    BY <1>1, <1>2 DEF WillBeListed, t

\* What is known of an event after the first one has been taken.
LEMMA TailPositions ==
    ASSUME NEW s \in Seq(Event), s # <<>>, NEW p
    PROVE  /\ \A i \in 1..Len(Tail(s)) :
                /\ i + 1 \in 1..Len(s) /\ Tail(s)[i] = s[i + 1]
                /\ About(Tail(s), i, p) <=> About(s, i + 1, p)
                /\ Latest(Tail(s), i, p) <=> Latest(s, i + 1, p)
           /\ \A i, j \in 1..Len(Tail(s)) :
                Successive(Tail(s), i, j, p) <=> Successive(s, i + 1, j + 1, p)
           /\ \A k \in 1..Len(s) : k = 1 \/ (k - 1 \in 1..Len(Tail(s)) /\ (k - 1) + 1 = k)
<1> DEFINE t == Tail(s)
<1>1. /\ t \in Seq(Event) /\ Len(t) = Len(s) - 1 /\ Len(s) \in Nat
      /\ \A i \in 1..Len(t) : t[i] = s[i + 1] /\ i + 1 \in 1..Len(s)
    BY TailEvents
<1> HIDE DEF t
<1>2. \A k \in 1..Len(s) : k = 1 \/ (k - 1 \in 1..Len(t) /\ (k - 1) + 1 = k)
    BY <1>1
<1>3. \A i \in 1..Len(t) : About(t, i, p) <=> About(s, i + 1, p)
    BY <1>1 DEF About
<1>4. \A i \in 1..Len(t) : Latest(t, i, p) <=> Latest(s, i + 1, p)
    <2> SUFFICES ASSUME NEW i \in 1..Len(t) PROVE Latest(t, i, p) <=> Latest(s, i + 1, p)
        OBVIOUS
    <2>1. ASSUME Latest(t, i, p), NEW k \in 1..Len(s), k > i + 1 PROVE ~About(s, k, p)
        <3>1. k - 1 \in 1..Len(t) /\ (k - 1) + 1 = k /\ k - 1 > i
            BY <1>1, <2>1
        <3>2. ~About(t, k - 1, p)
            BY <2>1, <3>1 DEF Latest
        <3>3. QED
            BY <1>3, <3>1, <3>2
    <2>2. ASSUME Latest(s, i + 1, p), NEW k \in 1..Len(t), k > i PROVE ~About(t, k, p)
        <3>1. k + 1 \in 1..Len(s) /\ k + 1 > i + 1
            BY <1>1, <2>2
        <3>2. QED
            BY <1>3, <2>2, <3>1 DEF Latest
    <2>3. QED
        BY <1>3, <2>1, <2>2 DEF Latest
<1>5. \A i, j \in 1..Len(t) : Successive(t, i, j, p) <=> Successive(s, i + 1, j + 1, p)
    <2> SUFFICES ASSUME NEW i \in 1..Len(t), NEW j \in 1..Len(t)
                 PROVE  Successive(t, i, j, p) <=> Successive(s, i + 1, j + 1, p)
        OBVIOUS
    <2>0. i < j <=> i + 1 < j + 1
        BY <1>1
    <2>1. ASSUME Successive(t, i, j, p), NEW k \in 1..Len(s), i + 1 < k, k < j + 1
          PROVE  ~About(s, k, p)
        <3>1. k - 1 \in 1..Len(t) /\ (k - 1) + 1 = k /\ i < k - 1 /\ k - 1 < j
            BY <1>1, <2>1
        <3>2. ~About(t, k - 1, p)
            BY <2>1, <3>1 DEF Successive
        <3>3. QED
            BY <1>3, <3>1, <3>2
    <2>2. ASSUME Successive(s, i + 1, j + 1, p), NEW k \in 1..Len(t), i < k, k < j
          PROVE  ~About(t, k, p)
        <3>1. k + 1 \in 1..Len(s) /\ i + 1 < k + 1 /\ k + 1 < j + 1
            BY <1>1, <2>2
        <3>2. QED
            BY <1>3, <2>2, <3>1 DEF Successive
    <2>3. QED
        BY <1>3, <2>0, <2>1, <2>2 DEF Successive
<1>6. QED
    BY <1>1, <1>2, <1>3, <1>4, <1>5 DEF t

LEMMA ByTurnsTake ==
    ASSUME NEW s \in Seq(Event), s # <<>>, NEW p, NEW listed \in Nat, NEW present \in {0, 1},
           ByTurns(s, p, listed, present), About(s, 1, p), NEW after \in Nat,
           after <= IF s[1].kind = "CREATED" THEN listed + 1
                    ELSE IF listed = 0 THEN 0 ELSE listed - 1
    PROVE  ByTurns(Tail(s), p, after, present)
<1> DEFINE t == Tail(s)
<1>1. /\ t \in Seq(Event) /\ Len(t) \in Nat /\ Len(s) \in Nat /\ 1 \in 1..Len(s)
      /\ \A i \in 1..Len(t) : i + 1 \in 1..Len(s) /\ t[i] = s[i + 1] /\ i + 1 > 1
      /\ Len(t) = Len(s) - 1
    BY TailEvents
<1>2. /\ \A i \in 1..Len(t) : About(t, i, p) <=> About(s, i + 1, p)
      /\ \A i \in 1..Len(t) : Latest(t, i, p) <=> Latest(s, i + 1, p)
      /\ \A i, j \in 1..Len(t) : Successive(t, i, j, p) <=> Successive(s, i + 1, j + 1, p)
      /\ \A k \in 1..Len(s) : k = 1 \/ (k - 1 \in 1..Len(t) /\ (k - 1) + 1 = k)
    BY TailPositions
<1> HIDE DEF t
<1>3. /\ s[1].kind \in {"CREATED", "DELETED"}
      /\ \A i \in 1..Len(s) : About(s, i, p) => s[i].kind \in {"CREATED", "DELETED"}
    BY <1>1, EventKinds
<1>4. \A j \in 1..Len(s) : ~(j < 1)
    BY <1>1
<1>5. listed <= IF s[1].kind = "CREATED" THEN 0 ELSE 1
    BY <1>1, <1>4 DEF ByTurns, Earliest
<1>6. after <= IF s[1].kind = "CREATED" THEN 1 ELSE 0
    BY <1>3, <1>5
<1>7. ASSUME NEW i \in 1..Len(t), NEW j \in 1..Len(t), Successive(t, i, j, p)
      PROVE  t[i].kind # t[j].kind
    <2>1. /\ i + 1 \in 1..Len(s) /\ j + 1 \in 1..Len(s)
          /\ t[i] = s[i + 1] /\ t[j] = s[j + 1]
        BY <1>1
    <2>2. Successive(s, i + 1, j + 1, p)
        BY <1>2, <1>7
    <2>3. s[i + 1].kind # s[j + 1].kind
        BY <2>1, <2>2 DEF ByTurns
    <2>4. QED
        BY <2>1, <2>3
<1>8. \A i \in 1..Len(t) : Latest(t, i, p) => (t[i].kind = "CREATED" <=> present = 1)
    BY <1>1, <1>2 DEF ByTurns
<1>9. ASSUME NEW i \in 1..Len(t), Earliest(t, i, p)
      PROVE  after <= IF t[i].kind = "CREATED" THEN 0 ELSE 1
    <2>1. ASSUME NEW k \in 1..Len(s), 1 < k, k < i + 1 PROVE ~About(s, k, p)
        <3>1. k - 1 \in 1..Len(t) /\ (k - 1) + 1 = k /\ k - 1 < i
            BY <1>1, <2>1
        <3>2. ~About(t, k - 1, p)
            BY <1>9, <3>1 DEF Earliest
        <3>3. QED
            BY <1>2, <3>1, <3>2
    <2>2. Successive(s, 1, i + 1, p)
        BY <1>1, <1>2, <1>9, <2>1 DEF Successive, Earliest
    <2>3. s[1].kind # t[i].kind
        BY <1>1, <2>2 DEF ByTurns
    <2>4. t[i].kind \in {"CREATED", "DELETED"}
        BY <1>1, <1>2, <1>3, <1>9 DEF Earliest
    <2>5. QED
        BY <1>3, <1>6, <2>3, <2>4
<1>10. ASSUME None(t, p) PROVE after <= present
    <2>1. ASSUME NEW k \in 1..Len(s), k > 1 PROVE ~About(s, k, p)
        <3>1. k - 1 \in 1..Len(t) /\ (k - 1) + 1 = k
            BY <1>2, <2>1
        <3>2. QED
            BY <1>2, <1>10, <3>1 DEF None
    <2>2. Latest(s, 1, p)
        BY <2>1 DEF Latest
    <2>3. s[1].kind = "CREATED" <=> present = 1
        BY <1>1, <2>2 DEF ByTurns
    <2>4. QED
        BY <1>6, <2>3
<1>11. QED
    BY <1>7, <1>8, <1>9, <1>10 DEF ByTurns, t

LEMMA OtherTake ==
    ASSUME NEW s \in Seq(Event), s # <<>>, NEW p, NEW listed \in Nat, ~About(s, 1, p)
    PROVE  /\ \A present : ByTurns(s, p, listed, present) => ByTurns(Tail(s), p, listed, present)
           /\ WillBeListed(s, p, listed) => WillBeListed(Tail(s), p, listed)
<1> DEFINE t == Tail(s)
<1>1. /\ t \in Seq(Event) /\ Len(t) \in Nat /\ Len(s) \in Nat /\ 1 \in 1..Len(s)
      /\ \A i \in 1..Len(t) : i + 1 \in 1..Len(s) /\ t[i] = s[i + 1] /\ i + 1 > 1
      /\ Len(t) = Len(s) - 1
    BY TailEvents
<1>2. /\ \A i \in 1..Len(t) : About(t, i, p) <=> About(s, i + 1, p)
      /\ \A i \in 1..Len(t) : Latest(t, i, p) <=> Latest(s, i + 1, p)
      /\ \A i, j \in 1..Len(t) : Successive(t, i, j, p) <=> Successive(s, i + 1, j + 1, p)
      /\ \A k \in 1..Len(s) : k = 1 \/ (k - 1 \in 1..Len(t) /\ (k - 1) + 1 = k)
    BY TailPositions
<1> HIDE DEF t
<1>3. None(t, p) <=> None(s, p)
    <2>1. ASSUME None(t, p), NEW k \in 1..Len(s) PROVE ~About(s, k, p)
        <3>1. CASE k - 1 \in 1..Len(t) /\ (k - 1) + 1 = k
            BY <1>2, <2>1, <3>1 DEF None
        <3>2. QED
            BY <1>2, <3>1
    <2>2. ASSUME None(s, p), NEW i \in 1..Len(t) PROVE ~About(t, i, p)
        BY <1>1, <1>2, <2>2 DEF None
    <2>3. QED
        BY <2>1, <2>2 DEF None
<1>4. \A i \in 1..Len(t) : Earliest(t, i, p) => Earliest(s, i + 1, p)
    <2> SUFFICES ASSUME NEW i \in 1..Len(t), Earliest(t, i, p), NEW k \in 1..Len(s), k < i + 1
                 PROVE  ~About(s, k, p)
        BY <1>2 DEF Earliest
    <2>1. CASE k - 1 \in 1..Len(t) /\ (k - 1) + 1 = k
        <3>1. k - 1 < i
            BY <1>1
        <3>2. QED
            BY <1>2, <2>1, <3>1 DEF Earliest
    <2>2. QED
        BY <1>2, <2>1
<1>5. ASSUME NEW present, ByTurns(s, p, listed, present)
      PROVE  ByTurns(t, p, listed, present)
    <2>1. \A i, j \in 1..Len(t) : Successive(t, i, j, p) => t[i].kind # t[j].kind
        BY <1>1, <1>2, <1>5 DEF ByTurns
    <2>2. \A i \in 1..Len(t) : Latest(t, i, p) => (t[i].kind = "CREATED" <=> present = 1)
        BY <1>1, <1>2, <1>5 DEF ByTurns
    <2>3. ASSUME NEW i \in 1..Len(t), Earliest(t, i, p)
          PROVE  listed <= IF t[i].kind = "CREATED" THEN 0 ELSE 1
        <3>1. i + 1 \in 1..Len(s) /\ Earliest(s, i + 1, p) /\ t[i] = s[i + 1]
            BY <1>1, <1>4, <2>3
        <3>2. listed <= IF s[i + 1].kind = "CREATED" THEN 0 ELSE 1
            BY <1>5, <3>1 DEF ByTurns
        <3>3. QED
            BY <3>1, <3>2
    <2>4. QED
        BY <1>3, <1>5, <2>1, <2>2, <2>3 DEF ByTurns
<1>6. ASSUME WillBeListed(s, p, listed) PROVE WillBeListed(t, p, listed)
    <2>1. ASSUME NEW k \in 1..Len(s), Latest(s, k, p), s[k].kind = "CREATED"
          PROVE  WillBeListed(t, p, listed)
        <3>1. k # 1
            BY <2>1 DEF Latest
        <3>2. k - 1 \in 1..Len(t) /\ (k - 1) + 1 = k
            BY <1>2, <3>1
        <3>3. Latest(t, k - 1, p) /\ t[k - 1].kind = "CREATED"
            BY <1>1, <1>2, <2>1, <3>2
        <3>4. QED
            BY <3>2, <3>3 DEF WillBeListed
    <2>2. QED
        BY <1>3, <1>6, <2>1 DEF WillBeListed
<1>7. QED
    BY <1>5, <1>6 DEF t

LEMMA WillBeListedTake ==
    ASSUME NEW s \in Seq(Event), s # <<>>, NEW p, NEW listed \in Nat,
           WillBeListed(s, p, listed), About(s, 1, p), NEW after \in Nat,
           s[1].kind = "CREATED" => after > 0
    PROVE  WillBeListed(Tail(s), p, after)
<1> DEFINE t == Tail(s)
<1>1. /\ t \in Seq(Event) /\ Len(t) \in Nat /\ Len(s) \in Nat /\ 1 \in 1..Len(s)
      /\ \A i \in 1..Len(t) : i + 1 \in 1..Len(s) /\ t[i] = s[i + 1] /\ i + 1 > 1
      /\ Len(t) = Len(s) - 1
    BY TailEvents
<1>2. /\ \A i \in 1..Len(t) : About(t, i, p) <=> About(s, i + 1, p)
      /\ \A i \in 1..Len(t) : Latest(t, i, p) <=> Latest(s, i + 1, p)
      /\ \A k \in 1..Len(s) : k = 1 \/ (k - 1 \in 1..Len(t) /\ (k - 1) + 1 = k)
    BY TailPositions
<1> HIDE DEF t
<1>3. PICK k \in 1..Len(s) : Latest(s, k, p) /\ s[k].kind = "CREATED"
    BY <1>1 DEF WillBeListed, None
<1>4. CASE k = 1
    <2>1. None(t, p)
        BY <1>1, <1>2, <1>3, <1>4 DEF None, Latest
    <2>2. QED
        BY <1>3, <1>4, <2>1 DEF WillBeListed, t
<1>5. CASE k # 1
    <2>1. k - 1 \in 1..Len(t) /\ (k - 1) + 1 = k
        BY <1>2, <1>5
    <2>2. Latest(t, k - 1, p) /\ t[k - 1].kind = "CREATED"
        BY <1>1, <1>2, <1>3, <2>1
    <2>3. QED
        BY <2>1, <2>2 DEF WillBeListed, t
<1>6. QED
    BY <1>4, <1>5

-----------------------------------------------------------------------------
(* The inductive invariant of the list *)

LoadPaths == {System, User} \X Lib

Present(p) == IF Exists(p) THEN 1 ELSE 0

\* A file of which inotify told the truth, while it is there for good.
Kept(p) ==
    disk[p] = "moved" =>
        /\ stage = "list" => p \in todo \/ Listed(p) > 0
        /\ stage \notin {"read", "list"} => WillBeListed(events, p, Listed(p))

Tracked(p) ==
    /\ ByTurns(events, p, Listed(p), Present(p))
    /\ stage = "list" /\ p \in todo => Listed(p) = 0 /\ Exists(p)

\* The files Settled takes out.
Lost == unseen \cup misread

ListInv ==
    /\ events \in Seq(Event)
    /\ availables \in Seq(Pair) /\ known \in [Pair -> Int] /\ todo \subseteq LoadPaths
    /\ disk \in [Pair -> FileState]
    /\ stage \in {"read", "list"} => events = <<>> /\ watched = {}
    /\ stage = "read" => availables = <<>>
    /\ callback => stage \in {"ready", "gone"}
    /\ ChangesAreTold
    /\ \A p \in LoadPaths \ Lost : Kept(p)
    /\ \A p \in LoadPaths \ (Lost \cup replaced) : Tracked(p)

\* The callback is told the same as before.
ToldSame == UNCHANGED <<callback, known, news, early>>

LEMMA EffectIsSmall == \A e, p : Effect(e, p) \in {-1, 0, 1}
BY DEF Effect

LEMMA ChangesToldSame ==
    ASSUME ListInv, ToldSame, availables' = availables
    PROVE  ChangesAreTold'
BY DEF ListInv, ToldSame, ChangesAreTold, Listed, Effect

LEMMA LoadPathsArePairs == LoadPaths \subseteq Pair
BY LoaderAssumption DEF LoadPaths, Pair

LEMMA ListedIsCount ==
    ASSUME availables \in Seq(Pair)
    PROVE  \A p : Listed(p) = Cardinality(Positions(availables, p)) /\ Listed(p) \in Nat
<1>1. DOMAIN availables = 1..Len(availables)
    OBVIOUS
<1>2. \A p : Listed(p) = Cardinality(Positions(availables, p))
    BY <1>1 DEF Listed, Positions
<1>3. QED
    BY <1>2, PositionsAreFinite

LEMMA NextListedIsCount ==
    ASSUME availables' \in Seq(Pair)
    PROVE  \A p : Listed(p)' = Cardinality(Positions(availables', p)) /\ Listed(p)' \in Nat
<1>1. DOMAIN availables' = 1..Len(availables')
    OBVIOUS
<1>2. \A p : Listed(p)' = Cardinality(Positions(availables', p))
    BY <1>1 DEF Listed, Positions
<1>3. QED
    BY <1>2, PositionsAreFinite

\* What is listed of each file after a change of the list.
LEMMA ListAppend ==
    ASSUME availables \in Seq(Pair), NEW e \in Pair, availables' = Append(availables, e)
    PROVE  /\ availables' \in Seq(Pair) /\ availables' # availables
           /\ \A p : Listed(p)' = Listed(p) + IF p = e THEN 1 ELSE 0
BY ListedIsCount, NextListedIsCount, AppendPosition

LEMMA ListRemove ==
    ASSUME availables \in Seq(Pair), NEW e \in Pair, availables' = RemoveFirst(availables, e)
    PROVE  /\ availables' \in Seq(Pair)
           /\ availables' = availables <=> Listed(e) = 0
           /\ \A p : Listed(p)' = Listed(p) - IF p = e /\ availables' # availables THEN 1 ELSE 0
BY ListedIsCount, NextListedIsCount, RemoveFirstPosition

LEMMA ListSame ==
    ASSUME availables' = availables
    PROVE  \A p : Listed(p)' = Listed(p)
BY DEF Listed

LEMMA DiskSame ==
    ASSUME disk' = disk
    PROVE  \A p : Exists(p)' = Exists(p) /\ Present(p)' = Present(p)
BY DEF Exists, Present

-----------------------------------------------------------------------------

\* Steps that change neither the list nor what is on disk nor the queue.
LEMMA QuietStep ==
    ASSUME ListInv, ToldSame, UNCHANGED <<availables, todo, disk, events, unseen, misread, replaced>>,
           \/ stage' = stage /\ watched' = watched
           \/ stage = "list" /\ todo = {} /\ stage' = "watchSystem"
           \/ /\ stage \notin {"read", "list"} /\ stage' \notin {"read", "list"}
              /\ stage' \in {"ready", "gone"} \/ ~callback
    PROVE  ListInv'
<1>1. \A p : Listed(p)' = Listed(p) /\ Exists(p)' = Exists(p) /\ Present(p)' = Present(p)
    BY ListSame, DiskSame
<1>2. ChangesAreTold' /\ callback' = callback /\ known' = known
    BY ChangesToldSame DEF ToldSame
<1>3. LoadPaths' = LoadPaths /\ Lost' = Lost
    BY DEF LoadPaths, Lost
<1>4. ASSUME NEW p \in LoadPaths \ Lost PROVE Kept(p)'
    <2>1. Kept(p)
        BY <1>4 DEF ListInv
    <2>2. CASE stage = "list" /\ todo = {} /\ stage' = "watchSystem"
        <3>1. events = <<>>
            BY <2>2 DEF ListInv
        <3>2. None(events, p)
            BY <3>1 DEF None
        <3>3. disk[p] = "moved" => WillBeListed(events, p, Listed(p))
            BY <2>1, <2>2, <3>2 DEF Kept, WillBeListed
        <3>4. QED
            BY <1>1, <2>2, <3>3 DEF Kept
    <2>3. CASE stage' = stage \/ (stage \notin {"read", "list"} /\ stage' \notin {"read", "list"})
        BY <1>1, <2>1, <2>3 DEF Kept
    <2>4. QED
        BY <2>2, <2>3
<1>5. ASSUME NEW p \in LoadPaths \ (Lost \cup replaced) PROVE Tracked(p)'
    <2>1. Tracked(p)
        BY <1>5 DEF ListInv
    <2>2. stage' = "list" => stage = "list"
        OBVIOUS
    <2>3. QED
        BY <1>1, <2>1, <2>2 DEF Tracked
<1>6. QED
    BY <1>2, <1>3, <1>4, <1>5 DEF ListInv

LEMMA ReadStep ==
    ASSUME ListInv, ReadDirectories
    PROVE  ListInv'
<1>1. /\ stage = "read" /\ stage' = "list"
      /\ todo' = {p \in LoadPaths : Exists(p)}
      /\ UNCHANGED <<availables, known, callback, disk, events, watched, misread>>
      /\ availables = <<>> /\ events = <<>> /\ ~callback
    BY DEF ReadDirectories, LoadPaths, library, telling, watchVars, ListInv
<1>2. \A p : Listed(p)' = Listed(p) /\ Exists(p)' = Exists(p) /\ Present(p)' = Present(p)
    BY <1>1, ListSame, DiskSame
<1>3. \A p : Listed(p) = 0
    BY <1>1, FS_EmptySet DEF Listed
<1>4. \A p : disk[p] = "moved" => Exists(p)
    BY DEF Exists
<1>5. \A p \in LoadPaths : Kept(p)'
    BY <1>1, <1>4 DEF Kept
<1>6. ASSUME NEW p \in LoadPaths PROVE Tracked(p)'
    <2>1. Len(events') = 0 /\ Listed(p)' = 0 /\ Present(p)' \in {0, 1}
        BY <1>1, <1>2, <1>3 DEF Present
    <2>2. ByTurns(events', p, 0, Present(p)')
        BY <2>1 DEF ByTurns
    <2>3. QED
        BY <1>1, <1>2, <2>1, <2>2 DEF Tracked
<1>7. QED
    BY <1>1, <1>5, <1>6 DEF ListInv, LoadPaths, ChangesAreTold

LEMMA ListStep ==
    ASSUME ListInv, ListNext
    PROVE  ListInv'
<1>1. PICK p \in todo :
        /\ todo' = todo \ {p}
        /\ availables' = IF Adds(<<p[1], Stripped[p[2]]>>)
                           THEN Append(availables, <<p[1], Stripped[p[2]]>>) ELSE availables
        /\ misread' = IF <<p[1], Stripped[p[2]]>> = p THEN misread
                        ELSE misread \cup {p, <<p[1], Stripped[p[2]]>>}
    BY DEF ListNext
<1> DEFINE found == <<p[1], Stripped[p[2]]>>
<1>2. /\ stage = "list" /\ events = <<>> /\ ~callback
      /\ UNCHANGED <<stage, known, callback, disk, events, watched, unseen, replaced>>
    BY DEF ListNext, telling, diskVars, watchVars, ListInv
<1>3. found \in Pair /\ p \in LoadPaths
    BY LoaderAssumption DEF ListInv, LoadPaths, Pair
<1> HIDE DEF found
<1>4. /\ availables' = IF Adds(found) THEN Append(availables, found) ELSE availables
      /\ misread' = IF found = p THEN misread ELSE misread \cup {p, found}
    BY <1>1 DEF found
<1>5. /\ availables' \in Seq(Pair) /\ availables \in Seq(Pair)
      /\ \A q : Listed(q)' = Listed(q) + IF Adds(found) /\ q = found THEN 1 ELSE 0
      /\ \A q : Listed(q) \in Nat
    <2>1. availables \in Seq(Pair)
        BY DEF ListInv
    <2>2. CASE Adds(found)
        BY <1>3, <1>4, <2>1, <2>2, ListAppend, ListedIsCount
    <2>3. CASE ~Adds(found)
        BY <1>4, <2>1, <2>3, ListSame, ListedIsCount
    <2>4. QED
        BY <2>2, <2>3
<1>6. \A q : Exists(q)' = Exists(q) /\ Present(q)' = Present(q)
    BY <1>2, DiskSame
<1>7. ASSUME NEW q, q \notin Lost'
      PROVE  q \notin Lost /\ (q = p \/ q = found => q = p /\ q = found)
    BY <1>2, <1>4, <1>7 DEF Lost
<1>8. ASSUME NEW q \in LoadPaths \ Lost' PROVE Kept(q)'
    <2>1. Kept(q)
        BY <1>7 DEF ListInv
    <2>2. CASE q = p
        <3>1. q = found
            BY <1>7, <2>2
        <3>2. disk[q] = "moved" => Adds(found)
            BY <3>1 DEF Adds, Opens, Good
        <3>3. QED
            BY <1>2, <1>5, <3>1, <3>2 DEF Kept
    <2>3. CASE q # p
        <3>1. Listed(q)' = Listed(q) /\ (q \in todo' <=> q \in todo)
            BY <1>1, <1>5, <1>7, <2>3
        <3>2. QED
            BY <1>2, <2>1, <3>1 DEF Kept
    <2>4. QED
        BY <2>2, <2>3
<1>9. ASSUME NEW q \in LoadPaths \ (Lost' \cup replaced) PROVE Tracked(q)'
    <2>1. Tracked(q)
        BY <1>7 DEF ListInv
    <2>2. Len(events') = 0
        BY <1>2
    <2>3. Listed(q) <= Present(q)
        <3>1. None(events, q)
            BY <1>2 DEF None
        <3>2. QED
            BY <2>1, <3>1 DEF Tracked, ByTurns
    <2>4. CASE q = p
        <3>1. Listed(q) = 0 /\ Present(q) = 1
            BY <1>2, <2>1, <2>4 DEF Tracked, Present
        <3>2. Listed(q)' <= 1
            BY <1>5, <3>1
        <3>3. ByTurns(events', q, Listed(q)', Present(q)')
            BY <1>6, <2>2, <3>1, <3>2 DEF ByTurns
        <3>4. QED
            BY <1>1, <2>4, <3>3 DEF Tracked
    <2>5. CASE q # p
        <3>1. Listed(q)' = Listed(q) /\ (q \in todo' <=> q \in todo)
            BY <1>1, <1>5, <1>7, <2>5
        <3>2. QED
            BY <1>2, <1>6, <2>1, <3>1 DEF Tracked
    <2>6. QED
        BY <2>4, <2>5
<1>10. todo' \subseteq LoadPaths
    BY <1>1 DEF ListInv
<1>11. QED
    BY <1>2, <1>5, <1>8, <1>9, <1>10 DEF ListInv, LoadPaths, ChangesAreTold

-----------------------------------------------------------------------------
(* The files *)

\* Inotify tells of a change, or the directory is not watched.
LEMMA ToldStep ==
    ASSUME ListInv, NEW p \in Pair, NEW kind \in {"CREATED", "DELETED"}, NEW state,
           Change(p, state), Told(p, kind), state \in FileState,
           kind = "DELETED" <=> state = "none",
           state = "none" => Exists(p),
           replaced' = (IF kind = "CREATED" /\ Exists(p) THEN replaced \cup {p} ELSE replaced),
           ToldSame, UNCHANGED <<stage, todo, availables, misread, watched>>
    PROVE  ListInv'
<1> DEFINE e == [kind |-> kind, pair |-> p]
<1>1. /\ e \in Event /\ e.pair = p /\ e.kind = kind
      /\ events \in Seq(Event) /\ disk \in [Pair -> FileState]
      /\ disk' = [disk EXCEPT ![p] = state]
    BY DEF Event, ListInv, Change
<1> HIDE DEF e
<1>2. /\ disk' \in [Pair -> FileState] /\ disk'[p] = state
      /\ \A q : q # p => disk'[q] = disk[q]
    BY <1>1
<1>3. \/ p[1] \in watched /\ events' = Append(events, e) /\ unseen' = unseen
      \/ /\ p[1] \in watched /\ events' = Append(events, OverflowEvent)
         /\ unseen' = unseen \cup {p}
      \/ events' = events /\ unseen' = unseen \cup {p}
    BY DEF Told, Overflow, e
<1>4. stage \in {"read", "list"} => events' = <<>> /\ p \in unseen'
    BY <1>3 DEF ListInv
<1>a. events' \in Seq(Event) /\ OverflowEvent \in Event
    <2>1. OverflowEvent \in Event
        BY DEF Event
    <2>2. QED
        BY <1>1, <1>3, <2>1
<1>b. \A q : q \notin Lost' => q \notin Lost /\ q \notin unseen'
    BY <1>3 DEF Lost
\* Events of other files do not matter for a file.
<1>c. ASSUME NEW q, q # p
      PROVE  /\ \A present : ByTurns(events, q, Listed(q), present)
                            => ByTurns(events', q, Listed(q), present)
             /\ WillBeListed(events, q, Listed(q)) => WillBeListed(events', q, Listed(q))
    <2>1. Listed(q) \in Nat
        BY ListedIsCount DEF ListInv
    <2>2. CASE events' = Append(events, e)
        BY <1>1, <1>c, <2>1, <2>2, OtherAppend
    <2>3. CASE events' = Append(events, OverflowEvent)
        BY <1>1, <1>a, <2>1, <2>3, OtherAppend DEF OverflowEvent
    <2>4. CASE events' = events
        BY <2>4
    <2>5. QED
        BY <1>3, <2>2, <2>3, <2>4
<1>5. \A q : Listed(q)' = Listed(q) /\ Listed(q) \in Nat
    BY ListSame, ListedIsCount DEF ListInv
<1>6. \A q : q # p => (Exists(q)' <=> Exists(q)) /\ Present(q)' = Present(q)
    BY <1>2 DEF Exists, Present
<1>7. ASSUME NEW q \in LoadPaths \ Lost' PROVE Kept(q)'
    <2>1. Kept(q)
        BY <1>b, <1>7 DEF ListInv
    <2>2. CASE q # p
        <3>1. WillBeListed(events, q, Listed(q)) => WillBeListed(events', q, Listed(q))
            BY <1>c, <2>2
        <3>2. QED
            BY <1>2, <1>5, <2>1, <2>2, <3>1 DEF Kept
    <2>3. CASE q = p
        <3>1. events' = Append(events, e) /\ stage \notin {"read", "list"}
            BY <1>3, <1>4, <1>b, <1>7, <2>3
        <3>2. CASE state = "moved"
            <4>1. e.kind = "CREATED"
                BY <1>1, <3>2
            <4>2. WillBeListed(events', q, Listed(q))
                BY <1>1, <1>5, <2>3, <3>1, <4>1, CreatedAppend
            <4>3. QED
                BY <1>5, <3>1, <4>2 DEF Kept
        <3>3. CASE state # "moved"
            BY <1>2, <2>3, <3>3 DEF Kept
        <3>4. QED
            BY <3>2, <3>3
    <2>4. QED
        BY <2>2, <2>3
<1>8. ASSUME NEW q \in LoadPaths \ (Lost' \cup replaced') PROVE Tracked(q)'
    <2>1. Tracked(q) /\ q \notin Lost /\ q \notin unseen'
        BY <1>b, <1>8 DEF ListInv
    <2>2. CASE q # p
        <3>1. ByTurns(events, q, Listed(q), Present(q))
                => ByTurns(events', q, Listed(q), Present(q))
            BY <1>c, <2>2
        <3>2. QED
            BY <1>5, <1>6, <2>1, <2>2, <3>1 DEF Tracked
    <2>3. CASE q = p
        <3>1. events' = Append(events, e) /\ stage \notin {"read", "list"}
            BY <1>3, <1>4, <2>1, <2>3
        <3>2. /\ kind = IF Present(q) = 1 THEN "DELETED" ELSE "CREATED"
              /\ Present(q) \in {0, 1} /\ Present(q)' = 1 - Present(q)
            <4>1. CASE Exists(p)
                <5>1. kind = "DELETED" /\ state = "none"
                    BY <1>8, <2>3, <4>1
                <5>2. ~Exists(p)'
                    BY <1>2, <5>1 DEF Exists
                <5>3. QED
                    BY <2>3, <4>1, <5>1, <5>2 DEF Present
            <4>2. CASE ~Exists(p)
                <5>1. kind = "CREATED" /\ state # "none"
                    BY <4>2
                <5>2. Exists(p)'
                    BY <1>2, <5>1 DEF Exists
                <5>3. QED
                    BY <2>3, <4>2, <5>1, <5>2 DEF Present
            <4>3. QED
                BY <4>1, <4>2
        <3>3. ByTurns(events', q, Listed(q), 1 - Present(q))
            <4>1. ByTurns(events, q, Listed(q), Present(q))
                BY <2>1 DEF Tracked
            <4>2. QED
                BY <1>1, <1>5, <2>3, <3>1, <3>2, <4>1, ByTurnsAppend
        <3>4. QED
            BY <1>5, <3>1, <3>2, <3>3 DEF Tracked
    <2>4. QED
        BY <2>2, <2>3
<1>9. ChangesAreTold' /\ callback' = callback /\ known' = known
    BY ChangesToldSame DEF ToldSame
<1>10. QED
    BY <1>2, <1>4, <1>a, <1>7, <1>8, <1>9 DEF ListInv, LoadPaths

LEMMA CopyEndStep ==
    ASSUME ListInv, NEW p \in Pair, CopyEnd(p),
           ToldSame, UNCHANGED <<stage, todo, availables, misread>>
    PROVE  ListInv'
<1>1. /\ disk \in [Pair -> FileState] /\ disk[p] = "partial"
      /\ disk' = [disk EXCEPT ![p] = "copied"] /\ Lost' = Lost
      /\ UNCHANGED <<events, unseen, replaced, watched>>
    BY DEF CopyEnd, ListInv, watchVars, Lost
<1>2. /\ disk' \in [Pair -> FileState] /\ disk'[p] = "copied"
      /\ \A q : q # p => disk'[q] = disk[q]
    BY <1>1 DEF FileState, Good
<1>3. \A q : Listed(q)' = Listed(q)
    BY ListSame
<1>4. \A q : (Exists(q)' <=> Exists(q)) /\ Present(q)' = Present(q)
    BY <1>1, <1>2 DEF Exists, Present
<1>5. \A q \in LoadPaths \ Lost' : Kept(q)'
    BY <1>1, <1>2, <1>3 DEF ListInv, Kept
<1>6. \A q \in LoadPaths \ (Lost' \cup replaced') : Tracked(q)'
    BY <1>1, <1>3, <1>4 DEF ListInv, Tracked
<1>7. ChangesAreTold' /\ callback' = callback /\ known' = known
    BY ChangesToldSame DEF ToldSame
<1>8. QED
    BY <1>1, <1>2, <1>5, <1>6, <1>7 DEF ListInv, LoadPaths

LEMMA DeleteDirStep ==
    ASSUME ListInv, NEW d \in Dir, DeleteDir(d),
           ToldSame, UNCHANGED <<stage, todo, availables, misread>>
    PROVE  ListInv'
<1> DEFINE e == [kind |-> "DIR_DELETED", pair |-> <<d, "">>]
<1>1. /\ d \in watched /\ watched' = watched \ {d} /\ events \in Seq(Event)
      /\ UNCHANGED <<disk, unseen, replaced>> /\ Lost' = Lost
    BY DEF DeleteDir, ListInv, Lost
<1>a. /\ e \in Event /\ e.kind \notin {"CREATED", "DELETED"}
      /\ OverflowEvent \in Event /\ OverflowEvent.kind \notin {"CREATED", "DELETED"}
      /\ events' \in {Append(events, e), Append(events, OverflowEvent), events}
    BY DEF DeleteDir, Event, Overflow, OverflowEvent
<1> HIDE DEF e
<1>b. events' \in Seq(Event)
    BY <1>1, <1>a
<1>c. ASSUME NEW q
      PROVE  /\ \A present : ByTurns(events, q, Listed(q), present)
                            => ByTurns(events', q, Listed(q), present)
             /\ WillBeListed(events, q, Listed(q)) => WillBeListed(events', q, Listed(q))
    <2>1. Listed(q) \in Nat
        BY ListedIsCount DEF ListInv
    <2>2. ASSUME NEW x \in Event, x.kind \notin {"CREATED", "DELETED"},
                 events' = Append(events, x)
          PROVE  /\ \A present : ByTurns(events, q, Listed(q), present)
                            => ByTurns(events', q, Listed(q), present)
                 /\ WillBeListed(events, q, Listed(q)) => WillBeListed(events', q, Listed(q))
        BY <1>1, <2>1, <2>2, OtherAppend
    <2>3. QED
        BY <1>a, <2>2
<1>2. \A q : Listed(q)' = Listed(q) /\ Listed(q) \in Nat
    BY ListSame, ListedIsCount DEF ListInv
<1>3. \A q : (Exists(q)' <=> Exists(q)) /\ Present(q)' = Present(q)
    BY <1>1, DiskSame
<1>4. stage \notin {"read", "list"}
    BY <1>1 DEF ListInv
<1>5. ASSUME NEW q \in LoadPaths \ Lost' PROVE Kept(q)'
    <2>1. Kept(q)
        BY <1>1, <1>5 DEF ListInv
    <2>2. WillBeListed(events, q, Listed(q)) => WillBeListed(events', q, Listed(q))
        BY <1>c
    <2>3. QED
        BY <1>1, <1>2, <2>1, <2>2 DEF Kept
<1>6. ASSUME NEW q \in LoadPaths \ (Lost' \cup replaced') PROVE Tracked(q)'
    <2>1. Tracked(q)
        BY <1>1, <1>6 DEF ListInv
    <2>2. ByTurns(events, q, Listed(q), Present(q))
            => ByTurns(events', q, Listed(q), Present(q))
        BY <1>c
    <2>3. QED
        BY <1>2, <1>3, <2>1, <2>2 DEF Tracked
<1>7. ChangesAreTold' /\ callback' = callback /\ known' = known
    BY ChangesToldSame DEF ToldSame
<1>8. QED
    BY <1>1, <1>b, <1>4, <1>5, <1>6, <1>7 DEF ListInv, LoadPaths

LEMMA ListDiskStep ==
    ASSUME ListInv, DiskChange, ToldSame, UNCHANGED <<stage, todo, availables, misread>>
    PROVE  ListInv'
<1>1. ASSUME NEW p \in Pair, NEW state \in {"moved", "junk"}, MoveIn(p, state)
      PROVE  ListInv'
    <2>1. /\ Change(p, state) /\ Told(p, "CREATED") /\ watched' = watched
          /\ replaced' = IF Exists(p) THEN replaced \cup {p} ELSE replaced
        BY <1>1 DEF MoveIn, watchVars
    <2>2. state \in FileState /\ state # "none"
        BY DEF FileState, Good
    <2>3. QED
        BY <2>1, <2>2, ToldStep
<1>2. ASSUME NEW p \in Pair, CopyIn(p) PROVE ListInv'
    <2>1. /\ ~Exists(p) /\ Change(p, "partial") /\ Told(p, "CREATED") /\ watched' = watched
          /\ replaced' = replaced
        BY <1>2 DEF CopyIn, watchVars
    <2>2. "partial" \in FileState
        BY DEF FileState
    <2>3. QED
        BY <2>1, <2>2, ToldStep
<1>3. ASSUME NEW p \in Pair, Delete(p) PROVE ListInv'
    <2>1. /\ Exists(p) /\ Change(p, "none") /\ Told(p, "DELETED") /\ watched' = watched
          /\ replaced' = replaced
        BY <1>3 DEF Delete, watchVars
    <2>2. "none" \in FileState
        BY DEF FileState
    <2>3. QED
        BY <2>1, <2>2, ToldStep
<1>4. QED
    BY <1>1, <1>2, <1>3, CopyEndStep, DeleteDirStep DEF DiskChange

-----------------------------------------------------------------------------
(* The monitor *)

\* The change of the list.
LEMMA MonitorTakesStep ==
    ASSUME ListInv, MonitorTakes
    PROVE  ListInv'
<1> DEFINE e == Head(events)
<1>1. /\ events \in Seq(Event) /\ events # <<>> /\ events' = Tail(events)
      /\ UNCHANGED <<disk, unseen, replaced, watched, stage, todo, callback, known, early>>
      /\ Lost' = Lost /\ events' \in Seq(Event)
    <2>1. events \in Seq(Event) /\ events # <<>> /\ events' = Tail(events)
        BY DEF MonitorTakes, TakeEvent, ListInv
    <2>2. QED
        BY <2>1, TailEvents DEF MonitorTakes, TakeEvent, watchVars, Lost
<1>2. e = events[1] /\ e \in Event /\ 1 \in 1..Len(events)
    BY <1>1
<1>3. /\ availables' = CASE e.kind = "CREATED" -> Created(e.pair)
                         [] e.kind = "DELETED" -> Deleted(e.pair)
                         [] OTHER -> availables
      /\ news = NoNews
      /\ news' = IF availables' = availables /\ e.kind # "DIR_DELETED" THEN NoNews ELSE e
    BY DEF MonitorTakes, NextEvent, ToTell
<1> HIDE DEF e
<1>4. e.kind \in {"CREATED", "DELETED"} => e.pair \in Pair
    BY <1>2, PairOfEvent
<1>5. stage \notin {"read", "list"}
    BY <1>1 DEF ListInv
<1>6. availables \in Seq(Pair) /\ \A q : Listed(q) \in Nat
    BY ListedIsCount DEF ListInv
<1>7. \A q : (Exists(q)' <=> Exists(q)) /\ Present(q)' = Present(q)
    BY <1>1, DiskSame
\* The change of the list, by the kind of the event.
<1> DEFINE added == e.kind = "CREATED" /\ Adds(e.pair)
           removed == e.kind = "DELETED" /\ Listed(e.pair) > 0
<1>8. /\ availables' \in Seq(Pair)
      /\ availables' = availables <=> ~added /\ ~removed
      /\ \A q : Listed(q)' = IF q # e.pair THEN Listed(q)
                             ELSE IF added THEN Listed(q) + 1
                             ELSE IF removed THEN Listed(q) - 1 ELSE Listed(q)
    <2>1. CASE e.kind = "CREATED"
        <3>1. availables' = IF Adds(e.pair) THEN Append(availables, e.pair) ELSE availables
            BY <1>3, <2>1 DEF Created
        <3>2. CASE Adds(e.pair)
            BY <1>4, <1>6, <2>1, <3>1, <3>2, ListAppend
        <3>3. CASE ~Adds(e.pair)
            BY <1>6, <2>1, <3>1, <3>3, ListSame
        <3>4. QED
            BY <3>2, <3>3
    <2>2. CASE e.kind = "DELETED"
        <3>1. availables' = RemoveFirst(availables, e.pair) /\ e.pair \in Pair
            BY <1>3, <1>4, <2>2 DEF Deleted
        <3>2. /\ availables' \in Seq(Pair)
              /\ availables' = availables <=> Listed(e.pair) = 0
              /\ \A q : Listed(q)' = Listed(q)
                    - IF q = e.pair /\ availables' # availables THEN 1 ELSE 0
            BY <1>6, <3>1, ListRemove
        <3>3. QED
            BY <1>6, <2>2, <3>2
    <2>3. CASE e.kind \notin {"CREATED", "DELETED"}
        <3>1. availables' = availables
            BY <1>3, <2>3
        <3>2. QED
            BY <1>6, <2>3, <3>1, ListSame
    <2>4. QED
        BY <1>4, <2>1, <2>2, <2>3
<1> HIDE DEF added, removed
<1>9. \A q : Listed(q)' \in Nat
    BY <1>8, NextListedIsCount
<1>10. ChangesAreTold'
    <2> SUFFICES ASSUME callback, NEW q \in Pair
                 PROVE  known[q] + Effect(news', q) = Listed(q)' + Effect(early, q)
        BY <1>1 DEF ChangesAreTold, Effect
    <2>1. known[q] + Effect(news, q) = Listed(q) + Effect(early, q) /\ known[q] \in Int
        BY DEF ListInv, ChangesAreTold
    <2>2. Effect(news, q) = 0 /\ Effect(early, q) \in {-1, 0, 1} /\ Listed(q) \in Nat
        BY <1>3, <1>6, EffectIsSmall DEF Effect, NoNews
    <2>3. Listed(q)' = Listed(q) + Effect(news', q)
        <3>1. CASE q # e.pair
            <4>1. Effect(news', q) = 0
                BY <1>3, <3>1 DEF Effect, NoNews
            <4>2. QED
                BY <1>8, <2>2, <3>1, <4>1
        <3>2. CASE q = e.pair /\ added
            <4>1. news' = e /\ Effect(e, q) = 1
                BY <1>3, <1>8, <3>2 DEF Effect, added
            <4>2. QED
                BY <1>8, <3>2, <4>1
        <3>3. CASE q = e.pair /\ removed
            <4>1. news' = e /\ Effect(e, q) = -1 /\ ~added
                BY <1>3, <1>8, <3>3 DEF Effect, added, removed
            <4>2. QED
                BY <1>8, <2>2, <3>3, <4>1
        <3>4. CASE q = e.pair /\ ~added /\ ~removed
            <4>1. Effect(news', q) = 0
                BY <1>3, <1>8, <3>4 DEF Effect, NoNews
            <4>2. QED
                BY <1>8, <2>2, <3>4, <4>1
        <3>5. QED
            BY <3>1, <3>2, <3>3, <3>4
    <2>4. Effect(news', q) \in {-1, 0, 1}
        BY EffectIsSmall
    <2>5. QED
        BY <2>1, <2>2, <2>3, <2>4
<1>11. ASSUME NEW q \in LoadPaths \ Lost' PROVE Kept(q)'
    <2>1. Kept(q)
        BY <1>1, <1>11 DEF ListInv
    <2>2. CASE disk[q] # "moved"
        BY <1>1, <2>2 DEF Kept
    <2>3. CASE disk[q] = "moved" /\ ~About(events, 1, q)
        <3>1. WillBeListed(events, q, Listed(q))
            BY <1>5, <2>1, <2>3 DEF Kept
        <3>2. WillBeListed(Tail(events), q, Listed(q))
            BY <1>1, <1>6, <2>3, <3>1, OtherTake
        <3>3. Listed(q)' = Listed(q)
            BY <1>2, <1>4, <1>8, <2>3 DEF About, added, removed
        <3>4. QED
            BY <1>1, <1>5, <3>2, <3>3 DEF Kept
    <2>4. CASE disk[q] = "moved" /\ About(events, 1, q)
        <3>1. WillBeListed(events, q, Listed(q)) /\ e.pair = q
            BY <1>2, <1>5, <2>1, <2>4 DEF Kept, About
        <3>2. e.kind = "CREATED" => Listed(q)' > 0
            <4>1. Adds(q)
                BY <2>4 DEF Adds, Opens, Good
            <4>2. QED
                BY <1>6, <1>8, <3>1, <4>1 DEF added
        <3>3. WillBeListed(Tail(events), q, Listed(q)')
            BY <1>1, <1>2, <1>6, <1>9, <2>4, <3>1, <3>2, WillBeListedTake
        <3>4. QED
            BY <1>1, <1>5, <3>3 DEF Kept
    <2>5. QED
        BY <2>2, <2>3, <2>4
<1>12. ASSUME NEW q \in LoadPaths \ (Lost' \cup replaced') PROVE Tracked(q)'
    <2>1. Tracked(q) /\ ByTurns(events, q, Listed(q), Present(q)) /\ Present(q) \in {0, 1}
        BY <1>1, <1>12 DEF ListInv, Tracked, Present
    <2>2. CASE ~About(events, 1, q)
        <3>1. ByTurns(Tail(events), q, Listed(q), Present(q))
            BY <1>1, <1>6, <2>1, <2>2, OtherTake
        <3>2. Listed(q)' = Listed(q)
            BY <1>2, <1>4, <1>8, <2>2 DEF About, added, removed
        <3>3. QED
            BY <1>1, <1>5, <1>7, <3>1, <3>2 DEF Tracked
    <2>3. CASE About(events, 1, q)
        <3>1. e.pair = q /\ e.kind \in {"CREATED", "DELETED"}
            BY <1>2, <1>4, <2>3 DEF About
        <3>2. Listed(q)' <= IF events[1].kind = "CREATED" THEN Listed(q) + 1
                            ELSE IF Listed(q) = 0 THEN 0 ELSE Listed(q) - 1
            BY <1>2, <1>6, <1>8, <3>1 DEF added, removed
        <3>3. ByTurns(Tail(events), q, Listed(q)', Present(q))
            BY <1>1, <1>6, <1>9, <2>1, <2>3, <3>2, ByTurnsTake
        <3>4. QED
            BY <1>1, <1>5, <1>7, <3>3 DEF Tracked
    <2>4. QED
        BY <2>2, <2>3
<1>13. QED
    BY <1>1, <1>5, <1>8, <1>10, <1>11, <1>12 DEF ListInv, LoadPaths

\* The callback.
LEMMA MonitorTellsStep ==
    ASSUME ListInv, MonitorTells
    PROVE  ListInv'
<1>1. /\ UNCHANGED <<stage, todo, availables, misread, callback, early, disk, events,
                      unseen, replaced, watched>>
      /\ news' = NoNews
      /\ known' = IF callback THEN [p \in Pair |-> known[p] + Effect(news, p)] ELSE known
    BY DEF MonitorTells, library, diskVars, watchVars
<1>2. /\ \A p : Listed(p)' = Listed(p) /\ Exists(p)' = Exists(p) /\ Present(p)' = Present(p)
      /\ Lost' = Lost
    BY <1>1, ListSame, DiskSame DEF Lost
<1>3. known' \in [Pair -> Int]
    <2>1. \A p \in Pair : known[p] \in Int /\ Effect(news, p) \in {-1, 0, 1}
        BY EffectIsSmall DEF ListInv
    <2>2. \A p \in Pair : known[p] + Effect(news, p) \in Int
        BY <2>1
    <2>3. QED
        BY <1>1, <2>2 DEF ListInv
<1>4. ChangesAreTold'
    <2> SUFFICES ASSUME callback, NEW p \in Pair
                 PROVE  known'[p] + Effect(news', p) = Listed(p)' + Effect(early, p)
        BY <1>1 DEF ChangesAreTold, Effect
    <2>1. known'[p] = known[p] + Effect(news, p)
        BY <1>1
    <2>2. known[p] + Effect(news, p) = Listed(p) + Effect(early, p)
        BY DEF ListInv, ChangesAreTold
    <2>3. Effect(news', p) = 0 /\ known'[p] \in Int
        BY <1>1, <1>3 DEF Effect, NoNews
    <2>4. QED
        BY <1>2, <2>1, <2>2, <2>3
<1>5. \A p \in LoadPaths \ Lost' : Kept(p)'
    BY <1>1, <1>2 DEF ListInv, Kept
<1>6. \A p \in LoadPaths \ (Lost' \cup replaced') : Tracked(p)'
    BY <1>1, <1>2 DEF ListInv, Tracked
<1>7. QED
    BY <1>1, <1>3, <1>4, <1>5, <1>6 DEF ListInv, LoadPaths

LEMMA ListInit == LoaderInit => ListInv
<1> SUFFICES ASSUME LoaderInit PROVE ListInv
    OBVIOUS
<1>1. /\ availables = <<>> /\ events = <<>> /\ watched = {} /\ todo = {} /\ stage = "read"
      /\ callback = FALSE /\ known = [p \in Pair |-> 0]
    BY DEF LoaderInit
<1>2. /\ availables \in Seq(Pair) /\ known \in [Pair -> Int] /\ Len(events) = 0
      /\ events \in Seq(Event)
    BY <1>1
<1>3. disk \in [Pair -> FileState] /\ \A p \in Pair : disk[p] \in {"moved", "none"}
    BY DEF LoaderInit, FileState, Good
<1>4. \A p : Listed(p) = 0
    BY <1>1, FS_EmptySet DEF Listed
<1>5. \A p : Kept(p)
    BY <1>1 DEF Kept
<1>6. \A p : ByTurns(events, p, 0, Present(p))
    BY <1>2 DEF ByTurns, Present
<1>7. \A p : Tracked(p)
    BY <1>1, <1>4, <1>6 DEF Tracked
<1>8. QED
    BY <1>1, <1>2, <1>3, <1>5, <1>7 DEF ListInv, ChangesAreTold

LEMMA ListInvStep == ListInv /\ [LoaderNext]_loaderVars => ListInv'
<1> SUFFICES ASSUME ListInv, [LoaderNext]_loaderVars PROVE ListInv'
    OBVIOUS
<1> USE DEF library, telling, ToldSame
<1>1. CASE UNCHANGED loaderVars
    BY <1>1, QuietStep DEF loaderVars, diskVars, watchVars
<1> SUFFICES ASSUME LoaderNext PROVE ListInv'
    BY <1>1
<1>2. CASE Construct
    <2>1. CASE ReadDirectories
        BY <2>1, ReadStep
    <2>2. CASE ListNext
        BY <2>2, ListStep
    <2>3. CASE ListEnd
        BY <2>3, QuietStep DEF ListEnd, diskVars, watchVars
    <2>4. ASSUME NEW d, NEW before, NEW recording, NEW after,
                 Watch(d, before, recording, after),
                 {before, recording} \cap {"read", "list", "ready", "gone"} = {},
                 recording \notin {"read", "list"}, after \notin {"read", "list"}
          PROVE  ListInv'
        <3>1. /\ ToldSame /\ UNCHANGED <<availables, todo, disk, events, unseen, misread, replaced>>
              /\ stage \in {before, recording} /\ stage' \in {recording, after}
            BY <2>4 DEF Watch, AddWatch, RecordWatch, diskVars
        <3>2. ~callback
            BY <2>4, <3>1 DEF ListInv
        <3>3. QED
            BY <2>4, <3>1, <3>2, QuietStep
    <2>5. CASE Watch(System, "watchSystem", "recordSystem", "watchUser")
        BY <2>4, <2>5
    <2>6. CASE Watch(User, "watchUser", "recordUser", "ready")
        BY <2>4, <2>6
    <2>7. QED
        BY <1>2, <2>1, <2>2, <2>3, <2>5, <2>6 DEF Construct
<1>3. CASE DiskChange /\ UNCHANGED <<stage, todo, library, telling>>
    BY <1>3, ListDiskStep
<1>4. CASE MonitorTakes \/ MonitorTells
    BY <1>4, MonitorTakesStep, MonitorTellsStep
<1>5. CASE MonitorAborts
    BY <1>5, QuietStep DEF MonitorAborts, AbortOnEvent, diskVars
<1>6. CASE stage = "ready" /\ UpdateOnChanges
    <2>1. /\ callback' = TRUE /\ stage = "ready" /\ known' = [p \in Pair |-> Listed(p)]
          /\ early' = news /\ news' = news /\ Lost' = Lost
          /\ UNCHANGED <<stage, todo, availables, disk, events, unseen, replaced, watched>>
        BY <1>6 DEF UpdateOnChanges, diskVars, watchVars, Lost
    <2>2. /\ \A p : Listed(p)' = Listed(p) /\ Listed(p) \in Nat
          /\ \A p : Exists(p)' = Exists(p) /\ Present(p)' = Present(p)
        BY <2>1, ListSame, DiskSame, ListedIsCount DEF ListInv
    <2>3. known' \in [Pair -> Int] /\ ChangesAreTold'
        BY <2>1, <2>2 DEF ChangesAreTold, Effect
    <2>4. /\ \A p \in LoadPaths \ Lost : Kept(p)'
          /\ \A p \in LoadPaths \ (Lost \cup replaced) : Tracked(p)'
        BY <2>1, <2>2 DEF ListInv, Kept, Tracked
    <2>5. QED
        BY <2>1, <2>3, <2>4 DEF ListInv, LoadPaths
<1>7. ASSUME NEW d, SetUserPathsPrefix(d) PROVE ListInv'
    BY <1>7, QuietStep DEF SetUserPathsPrefix, diskVars, watchVars
<1>8. ASSUME NEW lib, LoadModule(lib) PROVE ListInv'
    BY <1>8, QuietStep DEF LoadModule, diskVars, watchVars
<1>9. ASSUME NEW p, DestroyModule(p) PROVE ListInv'
    BY <1>9, QuietStep DEF DestroyModule, diskVars, watchVars
<1>10. CASE stage = "ready" /\ Destruct
    BY <1>10, QuietStep DEF Destruct, Stop, diskVars
<1>11. QED
    BY <1>2, <1>3, <1>4, <1>5, <1>6, <1>7, <1>8, <1>9, <1>10 DEF LoaderNext

\* The list, the queue of events and the files agree in every behaviour.
THEOREM ListInvariance == LoaderSpec => []ListInv
<1>1. QED
    BY ListInit, ListInvStep, PTL DEF LoaderSpec

\* A module that was in a load path when the loader read it, or was moved into
\* it while it was watched, is listed once its events are handled, unless its
\* name has a dot or one of its events was lost (module_loader.cc:331-335).
THEOREM NoModuleIsLost == LoaderSpec => []NoModuleLost
<1>1. ListInv => NoModuleLost
    <2> SUFFICES ASSUME ListInv, NEW p \in LoadPaths, Settled(p), disk[p] = "moved"
                 PROVE  Listed(p) > 0
        BY DEF NoModuleLost, LoadPaths
    <2>1. /\ stage = "ready" /\ Kept(p)
          /\ \A i \in DOMAIN events : events[i].pair # p
        BY DEF ListInv, Settled, Lost
    <2>2. WillBeListed(events, p, Listed(p))
        BY <2>1 DEF Kept
    <2>3. QED
        BY <2>1, <2>2 DEF WillBeListed, Latest, About
<1>2. QED
    BY <1>1, ListInvariance, PTL

\* A library that is gone is not listed, nor is one listed twice, with the same
\* exceptions and that of files moved over others (module_loader.cc:337-350).
THEOREM GoneIsAlwaysUnlisted == LoaderSpec => []GoneIsUnlisted
<1>1. ListInv => GoneIsUnlisted
    <2> SUFFICES ASSUME ListInv, NEW p \in LoadPaths, Settled(p), p \notin replaced
                 PROVE  Listed(p) <= IF Exists(p) THEN 1 ELSE 0
        BY DEF GoneIsUnlisted, LoadPaths
    <2>1. Tracked(p) /\ \A i \in DOMAIN events : events[i].pair # p
        BY DEF ListInv, Settled, Lost
    <2>2. None(events, p)
        BY <2>1 DEF None, About
    <2>3. QED
        BY <2>1, <2>2 DEF Tracked, ByTurns, Present
<1>2. QED
    BY <1>1, ListInvariance, PTL

\* The callback is told each change of the list that follows its registration
\* once, and possibly the one before it (module_loader.cc:352-356).
THEOREM EveryChangeIsTold == LoaderSpec => []ChangesAreTold
<1>1. ListInv => ChangesAreTold
    BY DEF ListInv
<1>2. QED
    BY <1>1, ListInvariance, PTL
=============================================================================
