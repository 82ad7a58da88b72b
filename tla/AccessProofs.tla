----------------------------- MODULE AccessProofs ------------------------------
(***************************************************************************)
(* Proofs about Admission and Catalog, who gets in and what for.           *)
(*                                                                         *)
(* Admission: its types, that no stretch of time as long as a window sees  *)
(* more admissions than the limits allow, and how far a token window can   *)
(* go over its limit.  Catalog: its types, that an edit returns to a cache *)
(* that holds it, that the last commit reaches the cache, and that the     *)
(* lists of models are true.                                               *)
(***************************************************************************)
EXTENDS Admission, Catalog, Basics, SequenceTheorems, FiniteSetTheorems

-----------------------------------------------------------------------------
(* Admission. *)

EventLists == Seq(Event)

LEMMA EventsTyped ==
    ASSUME NEW s \in EventLists
    PROVE  /\ Len(s) \in Nat /\ DOMAIN s = 1..Len(s)
           /\ \A i \in 1..Len(s) : /\ s[i] \in Event /\ s[i].at \in Nat /\ s[i].at \in 0..End
                                   /\ s[i].weight \in Nat
    <1>1. Len(s) \in Nat /\ DOMAIN s = 1..Len(s) /\ \A i \in 1..Len(s) : s[i] \in Event
        BY LenProperties, ElementOfSeq DEF EventLists
    <1>2. End \in Nat
        BY AdmissionAssumption
    <1> QED
        BY <1>1, <1>2 DEF Event
-----------------------------------------------------------------------------
(***************************************************************************)
(* What events weigh.                                                      *)
(***************************************************************************)
\* The recursion that adds the weights up defines a function.
LEMMA SumsDef ==
    ASSUME NEW s \in EventLists
    PROVE  Sums(s) = [i \in 0..Len(s) |->
                        IF i = 0 THEN 0 ELSE Sums(s)[i - 1] + s[i].weight]
    <1> DEFINE Adds(f, n) ==
                   f = [i \in 0..n |-> IF i = 0 THEN 0 ELSE f[i - 1] + s[i].weight]
               T == {n \in Nat : ~\E f : Adds(f, n)}
    <1>1. T = {}
        <2> SUFFICES ASSUME T # {} PROVE FALSE
            OBVIOUS
        <2>1. PICK n \in T : \A k \in T : n <= k
            <3>1. T \subseteq Nat
                OBVIOUS
            <3> HIDE DEF T
            <3> QED
                BY <3>1, LeastNumber
        <2>2. n # 0
            <3> DEFINE f == [i \in 0..0 |-> 0]
            <3>1. f = [i \in 0..0 |-> IF i = 0 THEN 0 ELSE f[i - 1] + s[i].weight]
                OBVIOUS
            <3> HIDE DEF f
            <3>2. Adds(f, 0)
                BY <3>1
            <3> QED
                BY <3>2
        <2>3. n \in Nat /\ n - 1 \in Nat /\ ~(n <= n - 1)
            BY <2>2
        <2>4. PICK f : Adds(f, n - 1)
            BY <2>1, <2>3
        <2> DEFINE g == [i \in 0..n |-> IF i = n THEN f[n - 1] + s[n].weight ELSE f[i]]
        <2>5. \A i \in 0..n - 1 : f[i] = IF i = 0 THEN 0 ELSE f[i - 1] + s[i].weight
            BY <2>4
        <2>6. g = [i \in 0..n |-> IF i = 0 THEN 0 ELSE g[i - 1] + s[i].weight]
            BY <2>3, <2>5
        <2> HIDE DEF g
        <2>7. Adds(g, n)
            BY <2>6
        <2> QED
            BY <2>7
    <1>2. \E f : Adds(f, Len(s))
        BY <1>1, EventsTyped
    <1>3. Sums(s) = CHOOSE f : Adds(f, Len(s))
        BY DEF Sums
    <1> HIDE DEF Adds
    <1>4. Adds(Sums(s), Len(s))
        BY <1>2, <1>3
    <1> QED
        BY <1>4 DEF Adds

LEMMA SumsStep ==
    ASSUME NEW s \in EventLists
    PROVE  /\ Sums(s)[0] = 0
           /\ \A i \in 1..Len(s) : Sums(s)[i] = Sums(s)[i - 1] + s[i].weight
    <1>1. Len(s) \in Nat
        BY EventsTyped
    <1> DEFINE f == Sums(s)
    <1>2. f = [i \in 0..Len(s) |-> IF i = 0 THEN 0 ELSE f[i - 1] + s[i].weight]
        BY SumsDef
    <1> HIDE DEF f
    <1>3. f[0] = 0 /\ \A i \in 1..Len(s) : f[i] = f[i - 1] + s[i].weight
        BY <1>1, <1>2
    <1> QED
        BY <1>3 DEF f

LEMMA SumsNat ==
    ASSUME NEW s \in EventLists
    PROVE  \A i \in 0..Len(s) : Sums(s)[i] \in Nat
    <1> DEFINE T == {i \in 0..Len(s) : Sums(s)[i] \notin Nat}
    <1>1. Len(s) \in Nat /\ \A i \in 1..Len(s) : s[i].weight \in Nat
        BY EventsTyped
    <1> SUFFICES ASSUME T # {} PROVE FALSE
        OBVIOUS
    <1>2. PICK n \in T : \A k \in T : n <= k
        <2>1. T \subseteq Nat
            BY <1>1
        <2> HIDE DEF T
        <2> QED
            BY <2>1, LeastNumber
    <1>3. n # 0
        BY SumsStep
    <1>4. n \in 1..Len(s) /\ n - 1 \in 0..Len(s) /\ ~(n <= n - 1)
        BY <1>1, <1>3
    <1>5. Sums(s)[n - 1] \in Nat
        BY <1>2, <1>4
    <1>6. Sums(s)[n] = Sums(s)[n - 1] + s[n].weight
        BY <1>4, SumsStep
    <1> QED
        BY <1>1, <1>4, <1>5, <1>6

LEMMA SumsGrow ==
    ASSUME NEW s \in EventLists, NEW i \in 0..Len(s), NEW j \in i..Len(s)
    PROVE  Sums(s)[i] <= Sums(s)[j]
    <1> DEFINE T == {k \in i..Len(s) : ~(Sums(s)[i] <= Sums(s)[k])}
    <1>1. Len(s) \in Nat /\ \A k \in 1..Len(s) : s[k].weight \in Nat
        BY EventsTyped
    <1>2. \A k \in 0..Len(s) : Sums(s)[k] \in Nat
        BY SumsNat
    <1> SUFFICES ASSUME T # {} PROVE FALSE
        OBVIOUS
    <1>3. PICK n \in T : \A k \in T : n <= k
        <2>1. T \subseteq Nat
            BY <1>1
        <2> HIDE DEF T
        <2> QED
            BY <2>1, LeastNumber
    <1>4. n # i
        BY <1>1, <1>2
    <1>5. n \in 1..Len(s) /\ n - 1 \in i..Len(s) /\ n - 1 \in 0..Len(s) /\ ~(n <= n - 1)
        BY <1>1, <1>4
    <1>6. Sums(s)[i] <= Sums(s)[n - 1]
        BY <1>3, <1>5
    <1>7. Sums(s)[n] = Sums(s)[n - 1] + s[n].weight
        BY <1>5, SumsStep
    <1>8. Sums(s)[n - 1] \in Nat /\ Sums(s)[i] \in Nat /\ s[n].weight \in Nat
        BY <1>1, <1>2, <1>5
    <1>9. Sums(s)[i] <= Sums(s)[n]
        BY <1>6, <1>7, <1>8
    <1> QED
        BY <1>9

\* As long as no event weighs nothing, they weigh as much as there are of them.
LEMMA SumsCount ==
    ASSUME NEW s \in EventLists, \A i \in 1..Len(s) : s[i].weight = 1
    PROVE  \A i \in 0..Len(s) : Sums(s)[i] = i
    <1> DEFINE T == {k \in 0..Len(s) : Sums(s)[k] # k}
    <1>1. Len(s) \in Nat
        BY EventsTyped
    <1> SUFFICES ASSUME T # {} PROVE FALSE
        OBVIOUS
    <1>2. PICK n \in T : \A k \in T : n <= k
        <2>1. T \subseteq Nat
            BY <1>1
        <2> HIDE DEF T
        <2> QED
            BY <2>1, LeastNumber
    <1>3. n # 0
        BY SumsStep
    <1>4. n \in 1..Len(s) /\ n - 1 \in 0..Len(s) /\ ~(n <= n - 1)
        BY <1>1, <1>3
    <1>5. Sums(s)[n - 1] = n - 1
        BY <1>2, <1>4
    <1>6. Sums(s)[n] = Sums(s)[n - 1] + 1
        BY <1>4, SumsStep
    <1> QED
        BY <1>4, <1>5, <1>6

\* EventLists of which one sequence has the same as another from some place on.
LEMMA SumsShift ==
    ASSUME NEW s \in EventLists, NEW t \in EventLists, NEW m \in Nat, NEW n \in Nat,
           n <= Len(t), m + n <= Len(s), \A i \in 1..n : t[i] = s[m + i]
    PROVE  Sums(t)[n] + Sums(s)[m] = Sums(s)[m + n]
    <1> DEFINE T == {k \in 0..n : Sums(t)[k] + Sums(s)[m] # Sums(s)[m + k]}
    <1>1. Len(s) \in Nat /\ Len(t) \in Nat
        BY EventsTyped
    <1> SUFFICES ASSUME T # {} PROVE FALSE
        BY <1>1
    <1>2. PICK p \in T : \A k \in T : p <= k
        <2>1. T \subseteq Nat
            BY <1>1
        <2> HIDE DEF T
        <2> QED
            BY <2>1, LeastNumber
    <1>3. m \in 0..Len(s) /\ Sums(s)[m] \in Nat
        BY <1>1, SumsNat
    <1>4. p # 0
        BY <1>3, SumsStep
    <1>5. /\ p \in 1..n /\ p \in 1..Len(t) /\ p - 1 \in 0..n /\ p - 1 \in 0..Len(t)
          /\ m + p \in 1..Len(s) /\ m + p - 1 \in 0..Len(s) /\ ~(p <= p - 1)
        BY <1>1, <1>4
    <1>6. Sums(t)[p - 1] + Sums(s)[m] = Sums(s)[m + (p - 1)]
        BY <1>2, <1>5
    <1>7. Sums(t)[p] = Sums(t)[p - 1] + t[p].weight
        BY <1>5, SumsStep
    <1>8. Sums(s)[m + p] = Sums(s)[m + p - 1] + s[m + p].weight
        BY <1>5, SumsStep
    <1>9. t[p] = s[m + p] /\ s[m + p].weight \in Nat /\ m + (p - 1) = m + p - 1
        BY <1>5, EventsTyped
    <1>10. Sums(t)[p - 1] \in Nat /\ Sums(s)[m + p - 1] \in Nat
        BY <1>5, SumsNat
    <1>11. \A a, b, c, w \in Nat : a + b = c => (a + w) + b = c + w
        OBVIOUS
    <1>12. Sums(t)[p] + Sums(s)[m] = Sums(s)[m + p]
        <2> DEFINE a == Sums(t)[p - 1]
                   b == Sums(s)[m]
                   c == Sums(s)[m + p - 1]
                   w == t[p].weight
        <2>1. a \in Nat /\ b \in Nat /\ c \in Nat /\ w \in Nat /\ a + b = c
            BY <1>3, <1>6, <1>9, <1>10
        <2>2. Sums(t)[p] = a + w /\ Sums(s)[m + p] = c + w
            BY <1>7, <1>8, <1>9
        <2> HIDE DEF a, b, c, w
        <2>3. (a + w) + b = c + w
            BY <1>11, <2>1
        <2>4. Sums(t)[p] + Sums(s)[m] = (a + w) + b
            BY <2>2 DEF b
        <2> QED
            BY <2>2, <2>3, <2>4
    <1> QED
        BY <1>2, <1>12

LEMMA WeightAppend ==
    ASSUME NEW s \in EventLists, NEW e \in Event
    PROVE  /\ Append(s, e) \in EventLists /\ Weight(Append(s, e)) = Weight(s) + e.weight
           /\ Weight(s) \in Nat
    <1> DEFINE t == Append(s, e)
    <1>1. /\ t \in EventLists /\ Len(t) = Len(s) + 1 /\ Len(s) \in Nat /\ t[Len(s) + 1] = e
          /\ \A i \in 1..Len(s) : t[i] = s[i]
        BY AppendProperties, EventsTyped DEF EventLists
    <1> HIDE DEF t
    <1>2. Sums(t)[Len(s)] = Sums(s)[Len(s)]
        <2>1. Sums(s)[Len(s)] + Sums(t)[0] = Sums(t)[0 + Len(s)]
            BY <1>1, SumsShift
        <2>2. Sums(t)[0] = 0 /\ Sums(s)[Len(s)] \in Nat
            BY <1>1, SumsStep, SumsNat
        <2> QED
            BY <1>1, <2>1, <2>2
    <1>3. Sums(t)[Len(s) + 1] = Sums(t)[Len(s)] + e.weight
        <2>1. Len(s) + 1 \in 1..Len(t) /\ Len(s) + 1 - 1 = Len(s)
            BY <1>1
        <2> QED
            BY <1>1, <2>1, SumsStep
    <1>4. Sums(s)[Len(s)] \in Nat
        BY <1>1, SumsNat
    <1> QED
        BY <1>1, <1>2, <1>3, <1>4 DEF Weight, t

LEMMA WeightEmpty == <<>> \in EventLists /\ Weight(<<>>) = 0
    <1>1. <<>> \in EventLists /\ Len(<<>>) = 0
        BY EmptySeq DEF EventLists
    <1> QED
        BY <1>1, SumsStep DEF Weight
-----------------------------------------------------------------------------
(***************************************************************************)
(* What a prune leaves.                                                    *)
(***************************************************************************)
\* What is left of the events once the first m of them are dropped, all those
\* before the cut-off.
Cut(s, p, m, off) ==
    /\ m \in 0..Len(s) /\ p \in EventLists /\ Len(p) = Len(s) - m
    /\ \A i \in 1..Len(p) : p[i] = s[m + i]
    /\ \A i \in 1..m : s[i].at < off
    /\ m < Len(s) => s[m + 1].at >= off

LEMMA Pruned ==
    ASSUME NEW s \in EventLists, NEW off \in Int
    PROVE  \E m \in Nat : Cut(s, DropOlder(s, off), m, off)
    <1> DEFINE live == {i \in DOMAIN s : s[i].at >= off}
    <1>1. /\ Len(s) \in Nat /\ DOMAIN s = 1..Len(s)
          /\ \A i \in 1..Len(s) : s[i].at \in Nat
        BY EventsTyped
    <1>2. CASE live = {}
        <2>1. DropOlder(s, off) = <<>>
            BY <1>2 DEF DropOlder
        <2>2. \A i \in 1..Len(s) : s[i].at < off
            BY <1>1, <1>2
        <2>3. <<>> \in EventLists /\ Len(<<>>) = 0
            BY EmptySeq DEF EventLists
        <2>4. Cut(s, DropOlder(s, off), Len(s), off)
            BY <1>1, <2>1, <2>2, <2>3 DEF Cut
        <2> QED
            BY <1>1, <2>4
    <1>3. CASE live # {}
        <2> DEFINE k == Min(live)
        <2>1. k \in live /\ \A i \in live : k <= i
            <3>1. live \subseteq Nat
                BY <1>1
            <3> HIDE DEF live
            <3>2. \E x \in live : \A y \in live : x =< y
                BY <1>3, <3>1, LeastNumber
            <3> QED
                BY <3>2 DEF Min
        <2>2. DropOlder(s, off) = SubSeq(s, k, Len(s))
            BY <1>3 DEF DropOlder
        <2> HIDE DEF k
        <2>3. k \in 1..Len(s) /\ k \in Nat /\ s[k].at >= off
            BY <1>1, <2>1
        <2>4. /\ SubSeq(s, k, Len(s)) \in EventLists
              /\ Len(SubSeq(s, k, Len(s))) = Len(s) - k + 1
              /\ \A i \in 1..Len(s) - k + 1 : SubSeq(s, k, Len(s))[i] = s[k + i - 1]
            BY <1>1, <2>3, SubSeqProperties DEF EventLists
        <2>5. \A i \in 1..k - 1 : s[i].at < off
            BY <1>1, <2>1, <2>3
        <2>6. k - 1 \in 0..Len(s) /\ k - 1 \in Nat /\ Len(s) - (k - 1) = Len(s) - k + 1
              /\ k - 1 + 1 = k
            BY <1>1, <2>3
        <2>7. \A i \in 1..Len(s) - k + 1 : k + i - 1 = (k - 1) + i
            BY <1>1, <2>3
        <2> HIDE DEF live
        <2>8. Cut(s, DropOlder(s, off), k - 1, off)
            BY <2>2, <2>3, <2>4, <2>5, <2>6, <2>7 DEF Cut
        <2> QED
            BY <2>6, <2>8
    <1> QED
        BY <1>2, <1>3

LEMMA CutWeight ==
    ASSUME NEW s \in EventLists, NEW p, NEW m \in Nat, NEW off, Cut(s, p, m, off)
    PROVE  Weight(p) + Sums(s)[m] = Weight(s)
    <1>1. /\ m \in 0..Len(s) /\ p \in EventLists /\ Len(p) = Len(s) - m /\ Len(s) \in Nat
          /\ \A i \in 1..Len(p) : p[i] = s[m + i]
        BY EventsTyped DEF Cut
    <1>2. Len(p) \in Nat /\ m + Len(p) = Len(s) /\ m + Len(p) <= Len(s) /\ Len(p) <= Len(p)
        BY <1>1
    <1>3. Sums(p)[Len(p)] + Sums(s)[m] = Sums(s)[m + Len(p)]
        BY <1>1, <1>2, SumsShift
    <1> QED
        BY <1>2, <1>3 DEF Weight

LEMMA WeightDrop ==
    ASSUME NEW s \in EventLists, NEW off \in Int
    PROVE  /\ DropOlder(s, off) \in EventLists /\ Weight(DropOlder(s, off)) \in Nat
           /\ Weight(DropOlder(s, off)) <= Weight(s) /\ Weight(s) \in Nat
    <1> DEFINE p == DropOlder(s, off)
    <1>1. PICK m \in Nat : Cut(s, p, m, off)
        BY Pruned
    <1> HIDE DEF p
    <1>2. p \in EventLists /\ m \in 0..Len(s) /\ Len(s) \in Nat
        BY <1>1, EventsTyped DEF Cut
    <1>3. Weight(p) + Sums(s)[m] = Weight(s)
        BY <1>1, CutWeight
    <1>4. Sums(s)[m] \in Nat /\ Weight(s) \in Nat /\ Weight(p) \in Nat
        <2>1. Len(s) \in 0..Len(s) /\ Len(p) \in 0..Len(p)
            BY <1>2, EventsTyped
        <2> QED
            BY <1>2, <2>1, SumsNat DEF Weight
    <1> QED
        BY <1>2, <1>3, <1>4 DEF p

\* With a later cut-off, no less is dropped.
LEMMA WeightLater ==
    ASSUME NEW s \in EventLists, NEW off \in Int, NEW later \in Int, off <= later
    PROVE  Weight(DropOlder(s, later)) <= Weight(DropOlder(s, off))
    <1> DEFINE p == DropOlder(s, off)
               q == DropOlder(s, later)
    <1>1. PICK m \in Nat : Cut(s, p, m, off)
        BY Pruned
    <1>2. PICK n \in Nat : Cut(s, q, n, later)
        BY Pruned
    <1>3. Weight(p) \in Nat /\ Weight(q) \in Nat
        BY WeightDrop
    <1> HIDE DEF p, q
    <1>4. m \in 0..Len(s) /\ n \in 0..Len(s) /\ Len(s) \in Nat
        BY <1>1, <1>2, EventsTyped DEF Cut
    <1>5. m <= n
        <2> SUFFICES ASSUME n < m PROVE FALSE
            BY <1>4
        <2>1. n + 1 \in 1..m /\ n + 1 \in 1..Len(s) /\ n < Len(s)
            BY <1>4
        <2>2. s[n + 1].at < off /\ s[n + 1].at >= later
            BY <1>1, <1>2, <2>1 DEF Cut
        <2>3. s[n + 1].at \in Nat
            BY <2>1, EventsTyped
        <2> QED
            BY <2>2, <2>3
    <1>6. Sums(s)[m] <= Sums(s)[n] /\ Sums(s)[m] \in Nat /\ Sums(s)[n] \in Nat
        <2>1. n \in m..Len(s)
            BY <1>4, <1>5
        <2> QED
            BY <1>4, <2>1, SumsGrow, SumsNat
    <1>7. Weight(p) + Sums(s)[m] = Weight(s) /\ Weight(q) + Sums(s)[n] = Weight(s)
        BY <1>1, <1>2, CutWeight
    <1>8. Weight(q) <= Weight(p)
        BY <1>3, <1>6, <1>7
    <1> QED
        BY <1>8 DEF p, q
-----------------------------------------------------------------------------
(***************************************************************************)
(* How many events are no older than t.                                    *)
(***************************************************************************)
Since(s, t) == {i \in 1..Len(s) : s[i].at >= t}

LEMMA SinceFinite ==
    ASSUME NEW s \in EventLists, NEW t
    PROVE  /\ IsFiniteSet(Since(s, t)) /\ Cardinality(Since(s, t)) \in Nat
           /\ Cardinality(Since(s, t)) <= Len(s)
    <1>1. Len(s) \in Nat
        BY EventsTyped
    <1>2. IsFiniteSet(1..Len(s)) /\ Cardinality(1..Len(s)) = Len(s)
        BY <1>1, FS_Interval, SMTT(20)
    <1>3. Since(s, t) \in SUBSET (1..Len(s))
        BY DEF Since
    <1>4. IsFiniteSet(Since(s, t)) /\ Cardinality(Since(s, t)) <= Len(s)
        BY <1>2, <1>3, FS_Subset
    <1> QED
        BY <1>4, FS_CardinalityType

LEMMA SinceAppend ==
    ASSUME NEW s \in EventLists, NEW e \in Event, NEW t
    PROVE  Cardinality(Since(Append(s, e), t)) =
               Cardinality(Since(s, t)) + (IF e.at >= t THEN 1 ELSE 0)
    <1> DEFINE n == Len(s) + 1
               u == Append(s, e)
    <1>1. /\ Len(u) = n /\ Len(s) \in Nat /\ u[n] = e
          /\ \A i \in 1..Len(s) : u[i] = s[i]
        BY AppendProperties, EventsTyped DEF EventLists
    <1>2. IsFiniteSet(Since(s, t)) /\ n \notin Since(s, t) /\ Cardinality(Since(s, t)) \in Nat
        <2>1. n \notin Since(s, t)
            BY <1>1 DEF Since
        <2> QED
            BY <2>1, SinceFinite
    <1> HIDE DEF u
    <1>3. CASE e.at >= t
        <2>1. Since(u, t) = Since(s, t) \cup {n}
            BY <1>1, <1>3 DEF Since
        <2>2. Cardinality(Since(s, t) \cup {n}) = Cardinality(Since(s, t)) + 1
            BY <1>2, FS_AddElement
        <2> QED
            BY <1>3, <2>1, <2>2 DEF u
    <1>4. CASE ~(e.at >= t)
        <2>1. Since(u, t) = Since(s, t)
            BY <1>1, <1>4 DEF Since
        <2> QED
            BY <1>2, <1>4, <2>1 DEF u
    <1> QED
        BY <1>3, <1>4

\* A prune loses nothing that is no older than its cut-off.
LEMMA SinceDrop ==
    ASSUME NEW s \in EventLists, NEW off \in Int, NEW t \in Int, off <= t
    PROVE  Cardinality(Since(s, t)) <= Cardinality(Since(DropOlder(s, off), t))
    <1> DEFINE p == DropOlder(s, off)
    <1>1. PICK m \in Nat : Cut(s, p, m, off)
        BY Pruned
    <1> HIDE DEF p
    <1>2. /\ m \in 0..Len(s) /\ p \in EventLists /\ Len(p) = Len(s) - m
          /\ \A i \in 1..Len(p) : p[i] = s[m + i]
          /\ \A i \in 1..m : s[i].at < off
        BY <1>1 DEF Cut
    <1>3. Len(s) \in Nat /\ Len(p) \in Nat
        BY <1>2, EventsTyped
    <1>4. ASSUME NEW i \in Since(s, t)
          PROVE  i - m \in Since(p, t)
        <2>1. i \in 1..Len(s) /\ s[i].at >= t /\ s[i].at \in Nat
            BY EventsTyped DEF Since
        <2>2. i > m
            BY <1>1, <1>2, <2>1 DEF Cut
        <2>3. i - m \in 1..Len(p) /\ m + (i - m) = i
            BY <1>2, <1>3, <2>1, <2>2
        <2>4. p[i - m] = s[i]
            BY <1>2, <2>3
        <2> QED
            BY <2>1, <2>3, <2>4 DEF Since
    <1> DEFINE f == [i \in Since(s, t) |-> i - m]
    <1>5. f \in Injection(Since(s, t), Since(p, t))
        <2>1. f \in [Since(s, t) -> Since(p, t)]
            BY <1>4
        <2>2. \A i, j \in Since(s, t) : f[i] = f[j] => i = j
            BY <1>3 DEF Since
        <2> QED
            BY <2>1, <2>2 DEF Injection, IsInjective
    <1> HIDE DEF f
    <1>6. IsFiniteSet(Since(p, t))
        BY <1>2, SinceFinite
    <1> QED
        BY <1>5, <1>6, FS_Injection DEF p
-----------------------------------------------------------------------------
(***************************************************************************)
(* The windows.                                                            *)
(***************************************************************************)
Windows(w) == DOMAIN w \subseteq Names /\ \A n \in DOMAIN w : w[n] \in EventLists

\* The events of a window; one that does not exist has none.
Of(w, n) == IF n \in DOMAIN w THEN w[n] ELSE <<>>

Entered(w, n, weight) == Append(Prune(Of(w, n)), [at |-> now, weight |-> weight])

LEMMA NowTyped ==
    ASSUME now \in 0..End
    PROVE  now \in Nat /\ now - Window \in Int /\ Window \in Nat /\ now >= now - Window
    BY AdmissionAssumption

LEMMA DropEmpty == \A off \in Int : DropOlder(<<>>, off) = <<>>
    BY DEF DropOlder

LEMMA OfTyped ==
    ASSUME NEW w, Windows(w), NEW n
    PROVE  Of(w, n) \in EventLists
    BY WeightEmpty DEF Windows, Of

LEMMA TotalOf ==
    ASSUME NEW w, Windows(w), NEW n, now \in 0..End
    PROVE  Total(w, n) = Weight(Prune(Of(w, n))) /\ Total(w, n) \in Nat
    <1>1. now - Window \in Int
        BY NowTyped
    <1>2. n \notin DOMAIN w => Prune(Of(w, n)) = <<>>
        BY <1>1, DropEmpty DEF Of, Prune
    <1>3. Total(w, n) = Weight(Prune(Of(w, n)))
        BY <1>2, WeightEmpty DEF Total, Of
    <1> QED
        BY <1>1, <1>3, OfTyped, WeightDrop DEF Prune

\* One event enters one window; a window that goes was empty.
LEMMA AddWindow ==
    ASSUME NEW w, Windows(w), NEW n \in Names, NEW weight \in Nat, now \in 0..End,
           NEW v, v = Add(w, n, weight)
    PROVE  /\ Windows(v) /\ Entered(w, n, weight) \in EventLists
           /\ \A m \in Names :
                LET after == IF m = n THEN Entered(w, n, weight) ELSE Of(w, m)
                IN  Of(v, m) = after \/ (Of(v, m) = <<>> /\ Prune(after) = <<>>)
    <1> DEFINE new == [m \in DOMAIN w \cup {n} |->
                         IF m = n THEN Entered(w, n, weight) ELSE w[m]]
               kept == {m \in DOMAIN new : Prune(new[m]) # <<>>}
    <1>1. Entered(w, n, weight) \in EventLists
        <2>1. Prune(Of(w, n)) \in EventLists
            BY NowTyped, OfTyped, WeightDrop DEF Prune
        <2>2. [at |-> now, weight |-> weight] \in Event
            BY DEF Event
        <2> QED
            BY <2>1, <2>2, WeightAppend DEF Entered
    <1>2. Windows(new)
        BY <1>1 DEF Windows
    <1>3. v = new \/ v = [m \in kept |-> new[m]]
        <2>1. Prune(<<>>) = <<>>
            BY NowTyped, DropEmpty DEF Prune
        <2>2. Entered(w, n, weight) =
                 Append(IF n \in DOMAIN w THEN Prune(w[n]) ELSE <<>>,
                        [at |-> now, weight |-> weight])
            BY <2>1 DEF Entered, Of
        <2> QED
            BY <2>2 DEF Add, EvictStale, Restrict
    <1>4. ASSUME NEW m \in Names
          PROVE  Of(new, m) = IF m = n THEN Entered(w, n, weight) ELSE Of(w, m)
        BY DEF Of
    <1> HIDE DEF new
    <1>5. CASE v = new
        BY <1>1, <1>2, <1>4, <1>5
    <1>6. CASE v = [m \in kept |-> new[m]]
        <2>1. Windows(v)
            BY <1>2, <1>6 DEF Windows
        <2>2. ASSUME NEW m \in Names
              PROVE  Of(v, m) = Of(new, m) \/ (Of(v, m) = <<>> /\ Prune(Of(new, m)) = <<>>)
            <3>1. Prune(<<>>) = <<>>
                BY NowTyped, DropEmpty DEF Prune
            <3> QED
                BY <1>6, <3>1 DEF Of
        <2> QED
            BY <1>1, <1>4, <2>1, <2>2
    <1> QED
        BY <1>3, <1>5, <1>6

\* What an addition does to the total of a window.
LEMMA AddTotal ==
    ASSUME NEW w, Windows(w), NEW n \in Names, NEW weight \in Nat, now \in 0..End,
           NEW v, v = Add(w, n, weight), NEW m \in Names
    PROVE  Total(v, m) <= Total(w, m) + (IF m = n THEN weight ELSE 0)
    <1> DEFINE in == Entered(w, n, weight)
               after == IF m = n THEN in ELSE Of(w, m)
    <1>1. /\ Windows(v) /\ in \in EventLists
          /\ Of(v, m) = after \/ (Of(v, m) = <<>> /\ Prune(after) = <<>>)
        BY AddWindow
    <1>2. now - Window \in Int
        BY NowTyped
    <1>3. Weight(Prune(after)) <= Total(w, m) + (IF m = n THEN weight ELSE 0)
        <2>1. CASE m = n
            <3> DEFINE p == Prune(Of(w, n))
                       e == [at |-> now, weight |-> weight]
            <3>1. p \in EventLists /\ Weight(p) = Total(w, m) /\ e \in Event
                BY <1>2, <2>1, OfTyped, TotalOf, WeightDrop DEF Prune, Event
            <3> HIDE DEF p
            <3>2. Weight(Append(p, e)) = Weight(p) + weight
                BY <3>1, WeightAppend
            <3>3. Weight(Prune(in)) <= Weight(in)
                BY <1>1, <1>2, WeightDrop DEF Prune
            <3>4. in = Append(p, e)
                BY DEF Entered, p
            <3> QED
                BY <2>1, <3>1, <3>2, <3>3, <3>4
        <2>2. CASE m # n
            BY <2>2, TotalOf
        <2> QED
            BY <2>1, <2>2
    <1>4. Total(v, m) = Weight(Prune(Of(v, m)))
        BY <1>1, TotalOf
    <1>5. CASE Of(v, m) = after
        BY <1>3, <1>4, <1>5
    <1>6. CASE Of(v, m) = <<>> /\ Prune(after) = <<>>
        <2>1. Prune(<<>>) = <<>>
            BY <1>2, DropEmpty DEF Prune
        <2> QED
            BY <1>3, <1>4, <1>6, <2>1
    <1> QED
        BY <1>1, <1>5, <1>6

\* What it does to the events no older than t: the new one is among them,
\* and none is lost that is still within the window.
LEMMA AddSince ==
    ASSUME NEW w, Windows(w), NEW n \in Names, NEW weight \in Nat, now \in 0..End,
           NEW v, v = Add(w, n, weight), NEW m \in Names, NEW t \in Int, now - Window <= t
    PROVE  Cardinality(Since(Of(w, m), t)) + (IF m = n /\ now >= t THEN 1 ELSE 0)
              <= Cardinality(Since(Of(v, m), t))
    <1> DEFINE in == Entered(w, n, weight)
               after == IF m = n THEN in ELSE Of(w, m)
               had == Cardinality(Since(Of(w, m), t))
               more == IF m = n /\ now >= t THEN 1 ELSE 0
    <1>1. /\ Windows(v) /\ in \in EventLists
          /\ Of(v, m) = after \/ (Of(v, m) = <<>> /\ Prune(after) = <<>>)
        BY AddWindow
    <1>2. now - Window \in Int
        BY NowTyped
    <1>3. Of(w, m) \in EventLists /\ had \in Nat /\ Of(v, m) \in EventLists
        BY <1>1, OfTyped, SinceFinite
    <1>4. had + more <= Cardinality(Since(after, t))
        <2>1. CASE m = n
            <3> DEFINE p == Prune(Of(w, n))
                       e == [at |-> now, weight |-> weight]
            <3>1. p \in EventLists /\ e \in Event /\ e.at = now
                BY <1>2, OfTyped, WeightDrop DEF Prune, Event
            <3>2. had <= Cardinality(Since(p, t))
                BY <1>2, <1>3, <2>1, SinceDrop DEF Prune
            <3>3. in = Append(p, e)
                BY DEF Entered
            <3> HIDE DEF p, e
            <3>4. Cardinality(Since(Append(p, e), t)) =
                     Cardinality(Since(p, t)) + (IF e.at >= t THEN 1 ELSE 0)
                BY <3>1, SinceAppend
            <3>5. Cardinality(Since(p, t)) \in Nat
                BY <3>1, SinceFinite
            <3> QED
                BY <1>3, <2>1, <3>1, <3>2, <3>3, <3>4, <3>5
        <2>2. CASE m # n
            BY <1>3, <2>2
        <2> QED
            BY <2>1, <2>2
    <1>5. CASE Of(v, m) = after
        BY <1>4, <1>5
    <1>6. CASE Of(v, m) = <<>> /\ Prune(after) = <<>>
        <2>1. after \in EventLists
            BY <1>1, <1>3
        <2>2. Cardinality(Since(after, t)) <= Cardinality(Since(<<>>, t))
            BY <1>2, <1>6, <2>1, SinceDrop DEF Prune
        <2>3. Cardinality(Since(<<>>, t)) \in Nat /\ Cardinality(Since(after, t)) \in Nat
            BY <2>1, WeightEmpty, SinceFinite
        <2> QED
            BY <1>3, <1>4, <1>6, <2>2, <2>3
    <1> QED
        BY <1>1, <1>5, <1>6
-----------------------------------------------------------------------------
(***************************************************************************)
(* Types.                                                                  *)
(***************************************************************************)
LEMMA TypesWindows == AdmissionTypes => Windows(requests) /\ Windows(tokens) /\ now \in 0..End
    BY DEF AdmissionTypes, Windows, EventLists

LEMMA TwiceWindows ==
    ASSUME NEW w, Windows(w), NEW k \in Key, NEW weight \in Nat, now \in 0..End,
           NEW v, v = Add(Add(w, Gateway, weight), k, weight)
    PROVE  Windows(v)
    <1>1. Gateway \in Names /\ k \in Names
        BY DEF Names
    <1> QED
        BY <1>1, AddWindow

LEMMA DropWindows ==
    ASSUME NEW w, Windows(w), NEW k, NEW v, v = Dropped(w, k)
    PROVE  /\ Windows(v) /\ Of(v, k) = <<>>
           /\ \A n : n # k => Of(v, n) = Of(w, n)
    BY DEF Windows, Dropped, Restrict, Of

\* The limits that an admission is checked against.
LEMMA RatesTyped ==
    ASSUME AdmissionTypes, NEW r \in Request
    PROVE  call[r].own.rpm \in Nat /\ limit[Gateway].rpm \in Nat
    <1>1. \A x \in Limits : x.rpm \in Nat
        BY AdmissionAssumption
    <1>2. call[r] \in Calls /\ Gateway \in Names
        BY DEF AdmissionTypes, Names
    <1>3. call[r].own \in Limits
        BY <1>2 DEF Calls
    <1>4. limit[Gateway] \in Limits
        BY <1>2 DEF AdmissionTypes
    <1> QED
        BY <1>1, <1>3, <1>4

LEMMA AdmitTyped ==
    ASSUME AdmissionTypes, NEW r \in Request, Admit(r)
    PROVE  AdmissionTypes'
    <1>1. /\ Windows(requests) /\ now \in 0..End /\ Owner[r] \in Key
        BY TypesWindows, AdmissionAssumption
    <1>2. Windows(requests')
        BY <1>1, TwiceWindows DEF Admit, ChargeRequest
    <1>3. call' \in [Request -> Calls]
        BY DEF Admit, AdmissionTypes, Calls
    <1>4. admitted' \in Seq(Admissions)
        <2> DEFINE e == [request |-> r, at |-> now, rpm |-> call[r].own.rpm,
                         all |-> limit[Gateway].rpm, reset |-> FALSE]
        <2>1. call[r].own.rpm \in Nat /\ limit[Gateway].rpm \in Nat
            BY RatesTyped
        <2>2. e \in Admissions
            BY <1>1, <2>1 DEF Admissions
        <2> HIDE DEF e
        <2>3. admitted' = Append(admitted, e) /\ admitted \in Seq(Admissions)
            BY DEF Admit, AdmissionTypes, e
        <2> QED
            BY <2>2, <2>3, AppendProperties
    <1>5. peak' \in [Names -> Nat]
        <2> DEFINE under(n) == Cardinality({q \in Counted(n) : At(q, "running") \/ q = r})
        <2>1. \A n \in Names : under(n) \in Nat
            <3> TAKE n \in Names
            <3>1. {q \in Counted(n) : At(q, "running") \/ q = r} \in SUBSET Request
                BY DEF Counted
            <3>2. IsFiniteSet({q \in Counted(n) : At(q, "running") \/ q = r})
                BY <3>1, AdmissionAssumption, FS_Subset
            <3> QED
                BY <3>2, FS_CardinalityType
        <2>2. peak' = [n \in Names |-> IF under(n) > peak[n] THEN under(n) ELSE peak[n]]
            BY DEF Admit
        <2> HIDE DEF under
        <2> QED
            BY <2>1, <2>2 DEF AdmissionTypes
    <1> QED
        BY <1>2, <1>3, <1>4, <1>5 DEF Admit, AdmissionTypes, Windows, EventLists

LEMMA SettleTyped ==
    ASSUME AdmissionTypes, NEW r \in Request, Settle(r)
    PROVE  AdmissionTypes'
    <1>1. /\ Windows(tokens) /\ now \in 0..End /\ Owner[r] \in Key
        BY TypesWindows, AdmissionAssumption
    <1>2. Windows(tokens')
        <2>1. PICK cost \in Costs : ChargeTokens(Owner[r], cost)
            BY DEF Settle
        <2>2. cost \in Nat
            BY AdmissionAssumption
        <2> QED
            BY <1>1, <2>1, <2>2, TwiceWindows DEF ChargeTokens
    <1>3. call' \in [Request -> Calls]
        BY DEF Settle, AdmissionTypes, Calls
    <1> QED
        BY <1>2, <1>3 DEF Settle, AdmissionTypes, Windows, EventLists

LEMMA ConsoleTyped ==
    ASSUME AdmissionTypes,
           \/ \E n \in Names : SetLimits(n)
           \/ \E k \in Key : ResetUsage(k) \/ DeleteKey(k)
    PROVE  AdmissionTypes'
    <1>1. edits' \in 0..MaxEdits
        BY AdmissionAssumption DEF SetLimits, ResetUsage, DeleteKey, Edit, AdmissionTypes
    <1>2. UNCHANGED <<now, requests, tokens, call, admitted, peak>>
        BY DEF SetLimits, ResetUsage, DeleteKey
    <1>3. CASE \E n \in Names : SetLimits(n)
        <2>1. PICK n \in Names : SetLimits(n)
            BY <1>3
        <2>2. PICK new \in Limits :
                /\ limit' = [limit EXCEPT ![n] = new]
                /\ cap' = [cap EXCEPT ![n] = IF 0 \in {cap[n], new.tpm} THEN 0
                                 ELSE IF new.tpm > cap[n] THEN new.tpm ELSE cap[n]]
            BY <2>1 DEF SetLimits
        <2>3. new.tpm \in Nat
            BY AdmissionAssumption
        <2>4. limit' \in [Names -> Limits] /\ cap' \in [Names -> Nat]
            BY <2>2, <2>3 DEF AdmissionTypes
        <2> QED
            BY <1>1, <1>2, <2>1, <2>4 DEF SetLimits, AdmissionTypes
    <1>4. CASE \E k \in Key : ResetUsage(k) \/ DeleteKey(k)
        BY <1>1, <1>2, <1>4 DEF ResetUsage, DeleteKey, AdmissionTypes
    <1> QED
        BY <1>3, <1>4

LEMMA ResetTyped ==
    ASSUME AdmissionTypes, NEW k \in Key, Reset(k)
    PROVE  AdmissionTypes'
    <1>1. Windows(requests') /\ Windows(tokens')
        BY TypesWindows, DropWindows DEF Reset
    <1>2. admitted' \in Seq(Admissions)
        <2> DEFINE e(i) == IF Owner[admitted[i].request] = k
                           THEN [admitted[i] EXCEPT !.reset = TRUE] ELSE admitted[i]
        <2>1. /\ Len(admitted) \in Nat /\ DOMAIN admitted = 1..Len(admitted)
              /\ \A i \in 1..Len(admitted) : admitted[i] \in Admissions
            BY LenProperties, ElementOfSeq DEF AdmissionTypes
        <2>2. \A i \in 1..Len(admitted) : e(i) \in Admissions
            BY <2>1 DEF Admissions
        <2>3. admitted' = [i \in 1..Len(admitted) |-> e(i)]
            BY <2>1 DEF Reset
        <2> HIDE DEF e
        <2>4. [i \in 1..Len(admitted) |-> e(i)] \in Seq(Admissions)
            BY <2>1, <2>2, IsASeq
        <2> QED
            BY <2>3, <2>4
    <1> QED
        BY <1>1, <1>2 DEF Reset, AdmissionTypes, Windows, EventLists

LEMMA TypesStep ==
    ASSUME AdmissionTypes, [AdmissionNext]_admissionVars
    PROVE  AdmissionTypes'
    <1>1. CASE Tick
        BY <1>1, AdmissionAssumption DEF Tick, AdmissionTypes
    <1>2. ASSUME NEW r \in Request, Authenticate(r) \/ Refuse(r)
          PROVE  AdmissionTypes'
        <2>1. call' \in [Request -> Calls]
            <3>1. CASE Authenticate(r)
                <4>1. limit[Owner[r]] \in Limits
                    BY AdmissionAssumption DEF Names, AdmissionTypes
                <4> QED
                    BY <3>1, <4>1 DEF Authenticate, AdmissionTypes, Calls
            <3>2. CASE Refuse(r)
                BY <3>2 DEF Refuse, AdmissionTypes, Calls
            <3> QED
                BY <1>2, <3>1, <3>2
        <2> QED
            BY <1>2, <2>1 DEF Authenticate, Refuse, AdmissionTypes
    <1>3. CASE UNCHANGED admissionVars
        BY <1>3 DEF admissionVars, AdmissionTypes
    <1> QED
        BY <1>1, <1>2, <1>3, AdmitTyped, SettleTyped, ConsoleTyped, ResetTyped
           DEF AdmissionNext

LEMMA InitTyped == AdmissionInit => AdmissionTypes
    <1> SUFFICES ASSUME AdmissionInit PROVE AdmissionTypes
        OBVIOUS
    <1>1. limit \in [Names -> Limits] /\ \A r \in Request : Owner[r] \in Names
        BY AdmissionAssumption DEF AdmissionInit, Names
    <1>2. call \in [Request -> Calls]
        BY <1>1 DEF AdmissionInit, Calls
    <1>3. cap \in [Names -> Nat] /\ peak \in [Names -> Nat]
        BY <1>1, AdmissionAssumption DEF AdmissionInit
    <1>4. admitted \in Seq(Admissions) /\ DOMAIN requests = {} /\ DOMAIN tokens = {}
        BY EmptySeq DEF AdmissionInit
    <1>5. now \in 0..End /\ edits \in 0..MaxEdits /\ keys \subseteq Key /\ resets \subseteq Key
        BY AdmissionAssumption DEF AdmissionInit
    <1> QED
        BY <1>1, <1>2, <1>3, <1>4, <1>5 DEF AdmissionTypes

(***************************************************************************)
(* The windows, the limits and the calls keep their types (RateLimiter,    *)
(* SlidingWindowCounter).                                                  *)
(***************************************************************************)
THEOREM AdmissionTyped == AdmissionSpec => []AdmissionTypes
    BY InitTyped, TypesStep, PTL DEF AdmissionSpec
-----------------------------------------------------------------------------
(***************************************************************************)
(* The rates.                                                              *)
(***************************************************************************)
\* The admissions that the window of n is there to count, no older than t.
Charged(n, t) ==
    {i \in DOMAIN admitted :
        /\ admitted[i].at >= t
        /\ n = Gateway \/ (Owner[admitted[i].request] = n /\ ~admitted[i].reset)}

\* A request weighs one.
OnesInv == \A n \in DOMAIN requests : \A i \in 1..Len(requests[n]) : requests[n][i].weight = 1

\* Every admission that is within the window is in it.
CountInv ==
    \A n \in Names : \A t \in Int : now - Window <= t =>
        Cardinality(Charged(n, t)) <= Cardinality(Since(Of(requests, n), t))

RatesInv == AdmissionTypes /\ OnesInv /\ CountInv /\ RatesHeld

LEMMA AdmittedTyped ==
    ASSUME AdmissionTypes
    PROVE  /\ Len(admitted) \in Nat /\ DOMAIN admitted = 1..Len(admitted)
           /\ \A i \in 1..Len(admitted) :
                /\ admitted[i] \in Admissions /\ admitted[i].at \in Nat
                /\ admitted[i].request \in Request
                /\ admitted[i].rpm \in Nat /\ admitted[i].all \in Nat
    <1>1. /\ Len(admitted) \in Nat /\ DOMAIN admitted = 1..Len(admitted)
          /\ \A i \in 1..Len(admitted) : admitted[i] \in Admissions
        BY LenProperties, ElementOfSeq DEF AdmissionTypes
    <1>2. End \in Nat
        BY AdmissionAssumption
    <1> QED
        BY <1>1, <1>2 DEF Admissions

LEMMA ChargedFinite ==
    ASSUME AdmissionTypes, NEW n, NEW t
    PROVE  IsFiniteSet(Charged(n, t)) /\ Cardinality(Charged(n, t)) \in Nat
    <1>1. Charged(n, t) \in SUBSET (1..Len(admitted)) /\ IsFiniteSet(1..Len(admitted))
        BY AdmittedTyped, FS_Interval DEF Charged
    <1> QED
        BY <1>1, FS_Subset, FS_CardinalityType

\* The total of a request window is the number of its live events.
LEMMA RequestTotal ==
    ASSUME RatesInv, NEW n \in Names
    PROVE  Cardinality(Since(Of(requests, n), now - Window)) <= Total(requests, n)
    <1> DEFINE s == Of(requests, n)
               off == now - Window
               p == DropOlder(s, off)
    <1>1. Windows(requests) /\ now \in 0..End
        BY TypesWindows DEF RatesInv
    <1>2. s \in EventLists /\ off \in Int
        BY <1>1, OfTyped, NowTyped
    <1>3. \A i \in 1..Len(s) : s[i].weight = 1
        BY EmptySeq DEF RatesInv, OnesInv, Of
    <1>4. PICK m \in Nat : Cut(s, p, m, off)
        BY <1>2, Pruned
    <1>5. Cardinality(Since(s, off)) <= Cardinality(Since(p, off))
        BY <1>2, SinceDrop
    <1> HIDE DEF p, s, off
    <1>6. p \in EventLists /\ Len(p) = Len(s) - m /\ m \in 0..Len(s)
          /\ \A i \in 1..Len(p) : p[i] = s[m + i]
        BY <1>4 DEF Cut
    <1>7. Len(p) \in Nat /\ Len(s) \in Nat
        BY <1>2, <1>6, EventsTyped
    <1>8. \A i \in 1..Len(p) : p[i].weight = 1
        BY <1>3, <1>6, <1>7
    <1>9. Weight(p) = Len(p)
        BY <1>6, <1>7, <1>8, SumsCount DEF Weight
    <1>10. Cardinality(Since(p, off)) \in Nat /\ Cardinality(Since(p, off)) <= Len(p)
        BY <1>6, SinceFinite
    <1>11. Total(requests, n) = Weight(p)
        BY <1>1, TotalOf DEF p, s, off, Prune
    <1>12. Cardinality(Since(s, off)) \in Nat
        BY <1>2, SinceFinite
    <1> QED
        BY <1>5, <1>7, <1>9, <1>10, <1>11, <1>12 DEF s, off

LEMMA AddOnes ==
    ASSUME NEW w, Windows(w), NEW n \in Names, now \in 0..End, NEW v, v = Add(w, n, 1),
           \A m \in DOMAIN w : \A i \in 1..Len(w[m]) : w[m][i].weight = 1
    PROVE  Windows(v) /\ \A m \in DOMAIN v : \A i \in 1..Len(v[m]) : v[m][i].weight = 1
    <1> DEFINE Ones(s) == \A i \in 1..Len(s) : s[i].weight = 1
    <1>1. /\ Windows(v) /\ Entered(w, n, 1) \in EventLists
          /\ \A m \in Names :
                LET after == IF m = n THEN Entered(w, n, 1) ELSE Of(w, m)
                IN  Of(v, m) = after \/ (Of(v, m) = <<>> /\ Prune(after) = <<>>)
        BY AddWindow
    <1>2. Ones(<<>>)
        BY EmptySeq
    <1>3. \A m : Ones(Of(w, m))
        BY <1>2 DEF Of
    <1>4. Ones(Entered(w, n, 1))
        <2> DEFINE s == Of(w, n)
                   off == now - Window
                   p == DropOlder(s, off)
                   e == [at |-> now, weight |-> 1]
        <2>1. s \in EventLists /\ off \in Int /\ Ones(s)
            BY <1>3, OfTyped, NowTyped
        <2>2. PICK m \in Nat : Cut(s, p, m, off)
            BY <2>1, Pruned
        <2>3. e \in Event /\ e.weight = 1
            BY DEF Event
        <2>4. Entered(w, n, 1) = Append(p, e)
            BY DEF Entered, Prune
        <2> HIDE DEF p, s, off, e
        <2>5. /\ p \in EventLists /\ Len(p) = Len(s) - m /\ m \in 0..Len(s)
              /\ \A i \in 1..Len(p) : p[i] = s[m + i]
            BY <2>2 DEF Cut
        <2>6. Len(s) \in Nat /\ Len(p) \in Nat
            BY <2>1, <2>5, EventsTyped
        <2>7. Ones(p)
            <3>1. ASSUME NEW i \in 1..Len(p) PROVE p[i].weight = 1
                <4>1. m + i \in 1..Len(s) /\ p[i] = s[m + i]
                    BY <2>5, <2>6
                <4> QED
                    BY <2>1, <4>1
            <3> QED
                BY <3>1
        <2>8. /\ Len(Append(p, e)) = Len(p) + 1 /\ Append(p, e)[Len(p) + 1] = e
              /\ \A i \in 1..Len(p) : Append(p, e)[i] = p[i]
            <3>1. p \in Seq(Event)
                BY <2>5 DEF EventLists
            <3> QED
                BY ONLY <3>1, <2>3, AppendProperties
        <2>9. Ones(Append(p, e))
            BY <2>3, <2>6, <2>7, <2>8
        <2> QED
            BY <2>4, <2>9
    <1>5. \A m \in Names : Ones(Of(v, m))
        BY <1>1, <1>2, <1>3, <1>4
    <1> QED
        BY <1>1, <1>5 DEF Windows, Of
-----------------------------------------------------------------------------
LEMMA Admitted ==
    ASSUME AdmissionTypes, NEW r \in Request, Admit(r)
    PROVE  LET n == Len(admitted) + 1
           IN  /\ n \in Nat /\ n \notin DOMAIN admitted
               /\ DOMAIN admitted' = DOMAIN admitted \cup {n} /\ DOMAIN admitted = 1..n - 1
               /\ \A i \in DOMAIN admitted : admitted'[i] = admitted[i]
               /\ admitted'[n].request = r /\ admitted'[n].at = now
               /\ admitted'[n].rpm = call[r].own.rpm
               /\ admitted'[n].all = limit[Gateway].rpm /\ ~admitted'[n].reset
    <1> DEFINE e == [request |-> r, at |-> now, rpm |-> call[r].own.rpm,
                     all |-> limit[Gateway].rpm, reset |-> FALSE]
               s == Append(admitted, e)
    <1>1. e \in Admissions
        <2>1. call[r].own.rpm \in Nat /\ limit[Gateway].rpm \in Nat
            BY RatesTyped
        <2> QED
            BY <2>1 DEF Admissions, AdmissionTypes
    <1>2. /\ e.request = r /\ e.at = now /\ e.rpm = call[r].own.rpm
          /\ e.all = limit[Gateway].rpm /\ ~e.reset
        OBVIOUS
    <1>3. admitted' = s
        BY DEF Admit
    <1> HIDE DEF e
    <1>4. /\ s \in Seq(Admissions) /\ Len(s) = Len(admitted) + 1 /\ s[Len(admitted) + 1] = e
          /\ \A i \in 1..Len(admitted) : s[i] = admitted[i]
        BY <1>1, AppendProperties DEF AdmissionTypes
    <1>5. Len(admitted) \in Nat /\ DOMAIN admitted = 1..Len(admitted)
        BY AdmittedTyped
    <1> HIDE DEF s
    <1>6. DOMAIN s = 1..Len(admitted) + 1
        BY <1>4, LenProperties
    <1> QED
        BY <1>2, <1>3, <1>4, <1>5, <1>6

\* An admission counts in the gateway's window and in its key's.
LEMMA AdmitCharged ==
    ASSUME AdmissionTypes, NEW r \in Request, Admit(r), NEW n \in Names, NEW t \in Int
    PROVE  LET more == IF now >= t /\ n \in {Gateway, Owner[r]} THEN {Len(admitted) + 1} ELSE {}
           IN  /\ Charged(n, t)' = Charged(n, t) \cup more
               /\ Cardinality(Charged(n, t)') =
                     Cardinality(Charged(n, t)) + (IF more = {} THEN 0 ELSE 1)
    <1> DEFINE i == Len(admitted) + 1
               more == IF now >= t /\ n \in {Gateway, Owner[r]} THEN {i} ELSE {}
    <1>1. /\ i \notin DOMAIN admitted
          /\ DOMAIN admitted' = DOMAIN admitted \cup {i}
          /\ \A j \in DOMAIN admitted : admitted'[j] = admitted[j]
          /\ admitted'[i].request = r /\ admitted'[i].at = now /\ ~admitted'[i].reset
        BY Admitted
    <1> HIDE DEF i
    <1>2. Charged(n, t)' = Charged(n, t) \cup more
        BY <1>1 DEF Charged
    <1>3. IsFiniteSet(Charged(n, t)) /\ Cardinality(Charged(n, t)) \in Nat
        BY ChargedFinite
    <1>4. i \notin Charged(n, t)
        BY <1>1 DEF Charged
    <1>5. Cardinality(Charged(n, t) \cup {i}) = Cardinality(Charged(n, t)) + 1
        BY <1>3, <1>4, FS_AddElement
    <1>6. more = {} \/ more = {i}
        OBVIOUS
    <1> HIDE DEF more
    <1>7. Cardinality(Charged(n, t)') = Cardinality(Charged(n, t)) + (IF more = {} THEN 0 ELSE 1)
        <2>1. CASE more = {}
            <3>1. Charged(n, t)' = Charged(n, t)
                BY <1>2, <2>1
            <3> QED
                BY <1>3, <2>1, <3>1
        <2>2. CASE more = {i}
            BY <1>2, <1>5, <2>2
        <2> QED
            BY <1>6, <2>1, <2>2
    <1> QED
        BY <1>2, <1>7 DEF i, more

\* Both windows see it.
LEMMA AdmitCount ==
    ASSUME RatesInv, NEW r \in Request, Admit(r)
    PROVE  OnesInv' /\ CountInv'
    <1>1. /\ AdmissionTypes /\ Windows(requests) /\ now \in 0..End /\ Owner[r] \in Key
          /\ Gateway \in Names /\ Owner[r] \in Names /\ Owner[r] # Gateway
        BY TypesWindows, AdmissionAssumption DEF RatesInv, Names
    <1> DEFINE w == Add(requests, Gateway, 1)
               v == Add(w, Owner[r], 1)
    <1>2. requests' = v /\ now' = now
        BY DEF Admit, ChargeRequest
    <1>3. Windows(w) /\ \A m \in DOMAIN w : \A i \in 1..Len(w[m]) : w[m][i].weight = 1
        BY <1>1, AddOnes DEF RatesInv, OnesInv
    <1> HIDE DEF w
    <1>4. Windows(v) /\ \A m \in DOMAIN v : \A i \in 1..Len(v[m]) : v[m][i].weight = 1
        BY <1>1, <1>3, AddOnes
    <1> HIDE DEF v
    <1>5. OnesInv'
        BY <1>2, <1>4 DEF OnesInv
    <1>6. ASSUME NEW n \in Names, NEW t \in Int, now - Window <= t
          PROVE  Cardinality(Charged(n, t)') <= Cardinality(Since(Of(v, n), t))
        <2> DEFINE a == Cardinality(Since(Of(requests, n), t))
                   b == Cardinality(Since(Of(w, n), t))
                   c == Cardinality(Since(Of(v, n), t))
        <2>1. a + (IF n = Gateway /\ now >= t THEN 1 ELSE 0) <= b
            BY <1>1, <1>6, AddSince DEF w
        <2>2. b + (IF n = Owner[r] /\ now >= t THEN 1 ELSE 0) <= c
            BY <1>1, <1>3, <1>6, AddSince DEF v
        <2>3. a \in Nat /\ b \in Nat /\ c \in Nat
            BY <1>1, <1>3, <1>4, OfTyped, SinceFinite
        <2>4. Cardinality(Charged(n, t)) <= a /\ Cardinality(Charged(n, t)) \in Nat
            BY <1>1, <1>6, ChargedFinite DEF RatesInv, CountInv
        <2> HIDE DEF a, b, c
        <2>5. Cardinality(Charged(n, t)') = Cardinality(Charged(n, t)) +
                 (IF now >= t /\ n \in {Gateway, Owner[r]} THEN 1 ELSE 0)
            BY <1>1, AdmitCharged
        <2>6. Cardinality(Charged(n, t)') <= c
            BY <1>1, <2>1, <2>2, <2>3, <2>4, <2>5
        <2> QED
            BY <2>6 DEF c
    <1>7. CountInv'
        BY <1>2, <1>6 DEF CountInv
    <1> QED
        BY <1>5, <1>7

\* What fits is one more than the window counts, and no more than the limit.
LEMMA AdmitFits ==
    ASSUME RatesInv, NEW r \in Request, Admit(r), NEW n \in Names, NEW top \in Nat,
           top > 0, Fits(requests, n, 1, top), n \in {Gateway, Owner[r]},
           NEW t \in Int, t = now - Window
    PROVE  Cardinality(Charged(n, t)') <= top
    <1>1. AdmissionTypes /\ Windows(requests) /\ now \in 0..End /\ CountInv
        BY TypesWindows DEF RatesInv
    <1>2. now >= t /\ now - Window <= t
        BY <1>1, NowTyped
    <1>3. Cardinality(Charged(n, t)') = Cardinality(Charged(n, t)) + 1
        BY <1>1, <1>2, AdmitCharged
    <1>4. Cardinality(Charged(n, t)) <= Cardinality(Since(Of(requests, n), t))
        BY <1>1, <1>2 DEF CountInv
    <1>5. Cardinality(Since(Of(requests, n), t)) <= Total(requests, n)
        BY RequestTotal
    <1>6. Total(requests, n) + 1 <= top
        BY DEF Fits
    <1>7. /\ Cardinality(Charged(n, t)) \in Nat /\ Total(requests, n) \in Nat
          /\ Cardinality(Since(Of(requests, n), t)) \in Nat
        BY <1>1, ChargedFinite, TotalOf, OfTyped, SinceFinite
    <1> QED
        BY <1>3, <1>4, <1>5, <1>6, <1>7

LEMMA AdmitHeld ==
    ASSUME RatesInv, NEW r \in Request, Admit(r)
    PROVE  RatesHeld'
    <1> DEFINE k == Owner[r]
    <1>n. PICK n \in Nat : n = Len(admitted) + 1
        BY AdmittedTyped DEF RatesInv
    <1>1. /\ n \in Nat /\ n \notin DOMAIN admitted
          /\ DOMAIN admitted' = DOMAIN admitted \cup {n} /\ DOMAIN admitted = 1..n - 1
          /\ \A i \in DOMAIN admitted : admitted'[i] = admitted[i]
          /\ admitted'[n].request = r /\ admitted'[n].at = now
          /\ admitted'[n].rpm = call[r].own.rpm
          /\ admitted'[n].all = limit[Gateway].rpm /\ ~admitted'[n].reset
        BY <1>n, Admitted DEF RatesInv
    <1>2. /\ AdmissionTypes /\ k \in Key /\ k \in Names /\ Gateway \in Names /\ k # Gateway
          /\ now \in 0..End
        BY TypesWindows, AdmissionAssumption DEF RatesInv, Names
    <1>3. ASSUME NEW i \in DOMAIN admitted
          PROVE  /\ admitted'[i] = admitted[i]
                 /\ admitted'[i].all > 0 => Cardinality(Recent(i)') <= admitted'[i].all
                 /\ admitted'[i].rpm > 0 =>
                       Cardinality({j \in Recent(i) : SameKey(i, j) /\ ~admitted[j].reset}')
                          <= admitted'[i].rpm
        <2>1. i \in 1..n - 1 /\ \A j \in 1..i : j \in DOMAIN admitted
            BY <1>1
        <2>2. Recent(i)' = Recent(i)
            BY <1>1, <2>1 DEF Recent
        <2>3. {j \in Recent(i) : SameKey(i, j) /\ ~admitted[j].reset}' =
              {j \in Recent(i) : SameKey(i, j) /\ ~admitted[j].reset}
            BY <1>1, <2>1, <2>2 DEF SameKey, Recent
        <2> QED
            BY <1>1, <2>2, <2>3 DEF RatesInv, RatesHeld
    <1>4. 1..n = DOMAIN admitted'
        <2>1. n >= 1
            BY <1>n, AdmittedTyped DEF RatesInv
        <2> QED
            BY <1>1, <2>1
    <1>t. PICK t \in Int : t = now - Window
        BY <1>2, NowTyped
    <1>5. Recent(n)' = Charged(Gateway, t)'
        BY <1>1, <1>4, <1>t DEF Recent, Charged
    <1>6. {j \in Recent(n) : SameKey(n, j) /\ ~admitted[j].reset}' = Charged(k, t)'
        <2>1. {j \in Recent(n) : SameKey(n, j) /\ ~admitted[j].reset}' =
              {j \in Recent(n)' : k = Owner[admitted'[j].request] /\ ~admitted'[j].reset}
            BY <1>1 DEF SameKey
        <2> QED
            BY <1>2, <1>5, <2>1 DEF Charged
    <1>7. limit[Gateway].rpm \in Nat /\ call[r].own.rpm \in Nat
        BY <1>2, RatesTyped
    <1>8. Fits(requests, Gateway, 1, limit[Gateway].rpm) /\ Fits(requests, k, 1, call[r].own.rpm)
        BY DEF Admit, Fit
    <1>9. limit[Gateway].rpm > 0 => Cardinality(Recent(n)') <= limit[Gateway].rpm
        BY <1>t, <1>2, <1>5, <1>7, <1>8, AdmitFits
    <1>10. call[r].own.rpm > 0 =>
             Cardinality({j \in Recent(n) : SameKey(n, j) /\ ~admitted[j].reset}')
                <= call[r].own.rpm
        BY <1>t, <1>2, <1>6, <1>7, <1>8, AdmitFits
    <1> QED
        BY <1>1, <1>3, <1>9, <1>10 DEF RatesHeld
-----------------------------------------------------------------------------
\* A reset marks the admissions of its key and changes nothing else of them.
LEMMA ResetMarks ==
    ASSUME AdmissionTypes, NEW k \in Key, Reset(k)
    PROVE  /\ DOMAIN admitted' = DOMAIN admitted
           /\ \A i \in DOMAIN admitted :
                 /\ admitted'[i].request = admitted[i].request
                 /\ admitted'[i].at = admitted[i].at
                 /\ admitted'[i].rpm = admitted[i].rpm /\ admitted'[i].all = admitted[i].all
                 /\ admitted'[i].reset = (admitted[i].reset \/ Owner[admitted[i].request] = k)
    <1>1. /\ DOMAIN admitted = 1..Len(admitted)
          /\ \A i \in DOMAIN admitted : admitted[i] \in Admissions
        BY AdmittedTyped
    <1> QED
        BY <1>1 DEF Reset, Admissions

LEMMA ResetRates ==
    ASSUME RatesInv, NEW k \in Key, Reset(k)
    PROVE  OnesInv' /\ CountInv' /\ RatesHeld'
    <1>1. /\ AdmissionTypes /\ Windows(requests) /\ now \in 0..End /\ k # Gateway
        BY TypesWindows, AdmissionAssumption DEF RatesInv
    <1>2. /\ DOMAIN admitted' = DOMAIN admitted
          /\ \A i \in DOMAIN admitted :
                /\ admitted'[i].request = admitted[i].request
                /\ admitted'[i].at = admitted[i].at
                /\ admitted'[i].rpm = admitted[i].rpm /\ admitted'[i].all = admitted[i].all
                /\ admitted'[i].reset = (admitted[i].reset \/ Owner[admitted[i].request] = k)
        BY <1>1, ResetMarks
    <1>3. /\ Windows(requests') /\ Of(requests', k) = <<>> /\ now' = now
          /\ \A n : n # k => Of(requests', n) = Of(requests, n)
        BY <1>1, DropWindows DEF Reset
    <1>4. OnesInv'
        BY DEF Reset, RatesInv, OnesInv, Dropped, Restrict
    <1>5. CountInv'
        <2> SUFFICES ASSUME NEW n \in Names, NEW t \in Int, now - Window <= t
                     PROVE  Cardinality(Charged(n, t)') <= Cardinality(Since(Of(requests', n), t))
            BY <1>3 DEF CountInv
        <2>1. CASE n = k
            <3>1. Charged(n, t)' = {}
                BY <1>1, <1>2, <2>1 DEF Charged
            <3>2. Cardinality(Since(Of(requests', n), t)) \in Nat
                BY <1>3, OfTyped, SinceFinite
            <3> QED
                BY <3>1, <3>2, FS_EmptySet
        <2>2. CASE n # k
            <3>1. Charged(n, t)' = Charged(n, t)
                BY <1>1, <1>2, <2>2, ZenonT(40) DEF Charged
            <3> QED
                BY <1>3, <2>2, <3>1 DEF RatesInv, CountInv
        <2> QED
            BY <2>1, <2>2
    <1>6. RatesHeld'
        <2> SUFFICES ASSUME NEW i \in DOMAIN admitted
                     PROVE  /\ admitted'[i].all > 0 => Cardinality(Recent(i)') <= admitted'[i].all
                            /\ admitted'[i].rpm > 0 =>
                                  Cardinality({j \in Recent(i) :
                                                 SameKey(i, j) /\ ~admitted[j].reset}')
                                     <= admitted'[i].rpm
            BY <1>2 DEF RatesHeld
        <2> DEFINE mine == {j \in Recent(i) : SameKey(i, j) /\ ~admitted[j].reset}
        <2>1. /\ DOMAIN admitted = 1..Len(admitted) /\ Len(admitted) \in Nat
              /\ admitted[i].rpm \in Nat /\ i \in Nat
            BY <1>1, AdmittedTyped
        <2>2. \A j \in 1..i : j \in DOMAIN admitted
            BY <2>1
        <2>3. Recent(i)' = Recent(i)
            BY <1>2, <2>2 DEF Recent, Reset
        <2>4. mine' \in SUBSET mine /\ mine \in SUBSET (1..i)
            BY <1>2, <2>2, <2>3 DEF SameKey, Recent
        <2> HIDE DEF mine
        <2>5. IsFiniteSet(mine) /\ Cardinality(mine) \in Nat
            <3>1. IsFiniteSet(1..i)
                BY <2>1, FS_Interval
            <3>2. IsFiniteSet(mine)
                BY <2>4, <3>1, FS_Subset
            <3> QED
                BY <3>2, FS_CardinalityType
        <2>6. Cardinality(mine') <= Cardinality(mine) /\ Cardinality(mine') \in Nat
            BY <2>4, <2>5, FS_Subset, FS_CardinalityType
        <2>7. /\ admitted[i].all > 0 => Cardinality(Recent(i)) <= admitted[i].all
              /\ admitted[i].rpm > 0 => Cardinality(mine) <= admitted[i].rpm
            BY DEF RatesInv, RatesHeld, mine
        <2>8. admitted[i].rpm > 0 => Cardinality(mine') <= admitted[i].rpm
            BY <2>1, <2>5, <2>6, <2>7
        <2>9. admitted'[i].rpm > 0 => Cardinality(mine') <= admitted'[i].rpm
            BY <1>2, <2>8
        <2> QED
            BY <1>2, <2>3, <2>7, <2>9 DEF mine
    <1> QED
        BY <1>4, <1>5, <1>6

LEMMA RatesKept ==
    ASSUME RatesInv, UNCHANGED <<requests, admitted>>,
           now' = now \/ (now' = now + 1)
    PROVE  OnesInv' /\ CountInv' /\ RatesHeld'
    <1>1. now \in Nat /\ Window \in Nat
        BY AdmissionAssumption DEF RatesInv, AdmissionTypes
    <1>2. CountInv'
        <2> SUFFICES ASSUME NEW n \in Names, NEW t \in Int, now' - Window <= t
                     PROVE  Cardinality(Charged(n, t)') <= Cardinality(Since(Of(requests', n), t))
            BY DEF CountInv
        <2>1. now - Window <= t
            BY <1>1
        <2>2. Charged(n, t)' = Charged(n, t)
            BY DEF Charged
        <2> QED
            BY <2>1, <2>2 DEF RatesInv, CountInv
    <1> QED
        BY <1>2 DEF RatesInv, OnesInv, RatesHeld, Recent, SameKey

LEMMA RatesStep ==
    ASSUME RatesInv, [AdmissionNext]_admissionVars
    PROVE  RatesInv'
    <1>1. AdmissionTypes'
        BY TypesStep DEF RatesInv
    <1>2. ASSUME NEW r \in Request, Admit(r)
          PROVE  OnesInv' /\ CountInv' /\ RatesHeld'
        BY <1>2, AdmitCount, AdmitHeld
    <1>3. ASSUME NEW k \in Key, Reset(k)
          PROVE  OnesInv' /\ CountInv' /\ RatesHeld'
        BY <1>3, ResetRates
    <1>4. CASE Tick
        BY <1>1, <1>4, RatesKept DEF Tick, RatesInv
    <1>5. ASSUME NEW r \in Request, Authenticate(r) \/ Refuse(r) \/ Settle(r)
          PROVE  OnesInv' /\ CountInv' /\ RatesHeld'
        BY <1>5, RatesKept DEF Authenticate, Refuse, Settle
    <1>6. CASE \/ \E n \in Names : SetLimits(n)
               \/ \E k \in Key : ResetUsage(k) \/ DeleteKey(k)
        BY <1>1, <1>6, RatesKept DEF SetLimits, ResetUsage, DeleteKey, RatesInv
    <1>7. CASE UNCHANGED admissionVars
        BY <1>1, <1>7, RatesKept DEF admissionVars, RatesInv
    <1> QED
        BY <1>1, <1>2, <1>3, <1>4, <1>5, <1>6, <1>7 DEF AdmissionNext, RatesInv

LEMMA RatesInit == AdmissionInit => RatesInv
    <1> SUFFICES ASSUME AdmissionInit PROVE RatesInv
        OBVIOUS
    <1>1. AdmissionTypes
        BY InitTyped
    <1>2. DOMAIN admitted = {} /\ DOMAIN requests = {}
        BY AdmittedTyped, EmptySeq DEF AdmissionInit
    <1>3. CountInv
        <2> SUFFICES ASSUME NEW n \in Names, NEW t \in Int
                     PROVE  Cardinality(Charged(n, t)) <= Cardinality(Since(Of(requests, n), t))
            BY DEF CountInv
        <2>1. Charged(n, t) = {}
            BY <1>2 DEF Charged
        <2>2. Cardinality(Since(Of(requests, n), t)) \in Nat
            BY <1>1, TypesWindows, OfTyped, SinceFinite
        <2> QED
            BY <2>1, <2>2, FS_EmptySet
    <1> QED
        BY <1>1, <1>2, <1>3 DEF RatesInv, OnesInv, RatesHeld

(***************************************************************************)
(* No stretch of time as long as a window sees more admissions than the    *)
(* limits the last of them was checked against, of the gateway and, since  *)
(* they were last reset, of its key (check_request, charge_request).       *)
(***************************************************************************)
THEOREM RatesProved == AdmissionSpec => []RatesHeld
    <1>1. RatesInv => RatesHeld
        BY DEF RatesInv
    <1> QED
        BY <1>1, RatesInit, RatesStep, PTL DEF AdmissionSpec
-----------------------------------------------------------------------------
(***************************************************************************)
(* The overshoot.                                                          *)
(***************************************************************************)
Most == Max(Costs)

Running(n) == {r \in Counted(n) : At(r, "running")}

\* While a window has always had a limit, those in force are no higher than the
\* highest it has had, and so are those that calls have copied.
CapInv ==
    \A n \in Names : cap[n] > 0 =>
        /\ limit[n].tpm \in 1..cap[n]
        /\ \A r \in Request : Owner[r] = n => call[r].own.tpm \in 1..cap[n]

\* What the calls under way may still charge is accounted for.
LoadInv ==
    \A n \in Names : cap[n] > 0 =>
        \/ Total(tokens, n) = 0 /\ Running(n) = {}
        \/ Total(tokens, n) + Cardinality(Running(n)) * Most <= cap[n] - Estimate + peak[n] * Most

LoadsInv == AdmissionTypes /\ CapInv /\ LoadInv

LEMMA MostTyped == Most \in Nat /\ \A cost \in Costs : cost \in Nat /\ cost <= Most
    <1>1. PICK most \in Costs : \A cost \in Costs : cost <= most
        BY AdmissionAssumption
    <1>2. Costs \subseteq Nat
        BY AdmissionAssumption
    <1>3. \E x \in Costs : \A y \in Costs : x >= y
        BY <1>1, <1>2
    <1> QED
        BY <1>2, <1>3 DEF Most, Max

LEMMA Times ==
    ASSUME NEW a \in Nat, NEW b \in Nat, NEW m \in Nat
    PROVE  /\ a * m \in Nat /\ (a + 1) * m = a * m + m
           /\ a <= b => a * m <= b * m
    OBVIOUS

LEMMA RunningFinite ==
    ASSUME NEW n
    PROVE  IsFiniteSet(Running(n)) /\ Cardinality(Running(n)) \in Nat
    <1>1. Running(n) \in SUBSET Request /\ IsFiniteSet(Request)
        BY AdmissionAssumption DEF Running, Counted
    <1> QED
        BY <1>1, FS_Subset, FS_CardinalityType

\* While time stands still.
LEMMA SameTime ==
    ASSUME now' = now, NEW n
    PROVE  Total(tokens, n)' = Total(tokens', n)
    BY DEF Total, Prune

\* A window whose load falls, with no less of a cap and of a peak.
LEMMA LoadFalls ==
    ASSUME AdmissionTypes, NEW n \in Names,
           cap[n] > 0, cap'[n] \in Nat, cap[n] <= cap'[n],
           peak'[n] \in Nat, peak[n] <= peak'[n], Running(n)' = Running(n),
           Total(tokens, n)' \in Nat, Total(tokens, n)' <= Total(tokens, n),
           LoadInv
    PROVE  \/ Total(tokens, n)' = 0 /\ Running(n)' = {}
           \/ Total(tokens, n)' + Cardinality(Running(n)') * Most
                 <= cap'[n] - Estimate + peak'[n] * Most
    <1> DEFINE R == Cardinality(Running(n)) * Most
               P == peak[n] * Most
               Q == peak'[n] * Most
    <1>1. /\ Total(tokens, n) \in Nat /\ cap[n] \in Nat /\ peak[n] \in Nat /\ Estimate \in Nat
          /\ Cardinality(Running(n)) \in Nat
        BY TypesWindows, TotalOf, RunningFinite, AdmissionAssumption DEF AdmissionTypes
    <1>2. R \in Nat /\ P \in Nat /\ Q \in Nat /\ P <= Q
        BY <1>1, MostTyped, Times
    <1>3. \/ Total(tokens, n) = 0 /\ Running(n) = {}
          \/ Total(tokens, n) + R <= cap[n] - Estimate + P
        BY DEF LoadInv
    <1>4. R = Cardinality(Running(n)') * Most
        OBVIOUS
    <1> HIDE DEF R, P
    <1>5. CASE Total(tokens, n) = 0 /\ Running(n) = {}
        BY <1>5
    <1>6. CASE Total(tokens, n) + R <= cap[n] - Estimate + P
        <2> HIDE DEF Q
        <2>1. Total(tokens, n)' + R <= cap'[n] - Estimate + Q
            BY <1>1, <1>2, <1>6
        <2> QED
            BY <1>4, <2>1 DEF Q
    <1> QED
        BY <1>3, <1>5, <1>6

LEMMA AdmitLoad ==
    ASSUME LoadsInv, NEW r \in Request, Admit(r), NEW n \in Names, cap[n] > 0
    PROVE  \/ Total(tokens, n)' = 0 /\ Running(n)' = {}
           \/ Total(tokens, n)' + Cardinality(Running(n)') * Most
                 <= cap'[n] - Estimate + peak'[n] * Most
    <1> DEFINE under == Cardinality({q \in Counted(n) : At(q, "running") \/ q = r})
    <1>1. AdmissionTypes /\ now \in 0..End /\ Windows(tokens) /\ now' = now /\ tokens' = tokens
          /\ cap' = cap
        BY TypesWindows DEF LoadsInv, Admit
    <1>2. Total(tokens, n)' = Total(tokens, n) /\ Total(tokens, n) \in Nat
        BY <1>1, SameTime, TotalOf
    <1>3. {q \in Counted(n) : At(q, "running") \/ q = r} \in SUBSET Request
        BY DEF Counted
    <1>4. under \in Nat
        <2>1. IsFiniteSet({q \in Counted(n) : At(q, "running") \/ q = r})
            BY <1>3, AdmissionAssumption, FS_Subset
        <2> QED
            BY <2>1, FS_CardinalityType
    <1>5. peak'[n] = IF under > peak[n] THEN under ELSE peak[n]
        BY DEF Admit
    <1>6. peak[n] \in Nat /\ cap[n] \in Nat /\ Estimate \in Nat
        BY <1>1, AdmissionAssumption DEF AdmissionTypes
    <1>7. call' = [call EXCEPT ![r].pc = "running"] /\ call \in [Request -> Calls] /\ At(r, "known")
        BY <1>1 DEF Admit, AdmissionTypes
    <1>8. \A q \in Request : call'[q].pc = IF q = r THEN "running" ELSE call[q].pc
        BY <1>7 DEF Calls
    <1>9. CASE n \in {Gateway, Owner[r]}
        <2>1. Running(n)' = {q \in Counted(n) : At(q, "running") \/ q = r}
            BY <1>8, <1>9 DEF Running, Counted, At
        <2>2. Cardinality(Running(n)') = under
            BY <2>1
        <2> HIDE DEF under
        <2>3. peak'[n] \in Nat /\ under <= peak'[n]
            BY <1>4, <1>5, <1>6
        <2>4. under * Most <= peak'[n] * Most /\ under * Most \in Nat /\ peak'[n] * Most \in Nat
            BY <1>4, <2>3, MostTyped, Times
        <2>5. \E top \in 1..cap[n] : Fits(tokens, n, Estimate, top)
            BY <1>9 DEF Admit, Fit, LoadsInv, CapInv
        <2>6. PICK top \in 1..cap[n] : Total(tokens, n) + Estimate <= top
            BY <1>6, <2>5 DEF Fits
        <2>7. Total(tokens, n) + Estimate <= cap[n]
            BY <1>2, <1>6, <2>6
        <2> DEFINE U == under * Most
                   V == peak'[n] * Most
        <2> HIDE DEF U, V
        <2>8. U <= V /\ U \in Nat /\ V \in Nat
            BY <2>4 DEF U, V
        <2>9. Total(tokens, n) + U <= cap[n] - Estimate + V
            BY <1>2, <1>6, <2>7, <2>8
        <2> QED
            BY <1>1, <1>2, <2>2, <2>9 DEF U, V
    <1>10. CASE n \notin {Gateway, Owner[r]}
        <2>1. Running(n)' = Running(n)
            BY <1>8, <1>10 DEF Running, Counted, At
        <2>2. peak'[n] \in Nat /\ peak[n] <= peak'[n]
            BY <1>4, <1>5, <1>6
        <2>3. LoadInv /\ cap[n] <= cap'[n] /\ cap'[n] \in Nat
              /\ Total(tokens, n)' \in Nat /\ Total(tokens, n)' <= Total(tokens, n)
            BY <1>1, <1>2, <1>6 DEF LoadsInv
        <2> QED
            BY <1>1, <2>1, <2>2, <2>3, LoadFalls
    <1> QED
        BY <1>9, <1>10
-----------------------------------------------------------------------------
\* A call that ends charges no more than was set aside for it.
LEMMA SettleLoad ==
    ASSUME LoadsInv, NEW r \in Request, Settle(r), NEW n \in Names, cap[n] > 0
    PROVE  \/ Total(tokens, n)' = 0 /\ Running(n)' = {}
           \/ Total(tokens, n)' + Cardinality(Running(n)') * Most
                 <= cap'[n] - Estimate + peak'[n] * Most
    <1>1. /\ AdmissionTypes /\ now \in 0..End /\ Windows(tokens) /\ now' = now
          /\ cap' = cap /\ peak' = peak /\ LoadInv
          /\ Gateway \in Names /\ Owner[r] \in Names /\ Gateway # Owner[r]
        BY TypesWindows, AdmissionAssumption DEF LoadsInv, Settle, Names
    <1>2. PICK cost \in Costs : ChargeTokens(Owner[r], cost)
        BY DEF Settle
    <1>3. cost \in Nat /\ cost <= Most /\ Most \in Nat
        BY MostTyped
    <1> DEFINE T == Total(tokens, n)
               U == Total(tokens, n)'
               hit == n \in {Gateway, Owner[r]}
    <1>4. T \in Nat /\ U \in Nat /\ U <= T + (IF hit THEN cost ELSE 0)
        <2>1. U = Total(tokens', n)
            BY <1>1, SameTime
        <2>2. T \in Nat
            BY <1>1, TotalOf
        <2>3. CASE cost = 0
            BY <1>2, <2>1, <2>2, <2>3 DEF ChargeTokens
        <2>4. CASE cost # 0
            <3> DEFINE w == Add(tokens, Gateway, cost)
            <3>1. tokens' = Add(w, Owner[r], cost)
                BY <1>2, <2>4 DEF ChargeTokens
            <3>2. Windows(w) /\ Total(w, n) <= T + (IF n = Gateway THEN cost ELSE 0)
                BY <1>1, <1>3, AddWindow, AddTotal
            <3> HIDE DEF w
            <3>3. /\ Windows(tokens')
                  /\ Total(tokens', n) <= Total(w, n) + (IF n = Owner[r] THEN cost ELSE 0)
                BY <1>1, <1>3, <3>1, <3>2, AddWindow, AddTotal
            <3>4. Total(w, n) \in Nat /\ Total(tokens', n) \in Nat
                BY <1>1, <3>2, <3>3, TotalOf
            <3> HIDE DEF U, T
            <3> QED
                BY <1>1, <1>3, <2>1, <2>2, <3>2, <3>3, <3>4
        <2> QED
            BY <2>3, <2>4
    <1>5. \A q \in Request : call'[q].pc = IF q = r THEN "over" ELSE call[q].pc
        BY <1>1 DEF Settle, AdmissionTypes, Calls
    <1>6. CASE hit
        <2> DEFINE R == Cardinality(Running(n))
                   L == Cardinality(Running(n)')
        <2>1. r \in Running(n) /\ Running(n)' = Running(n) \ {r}
            BY <1>5, <1>6 DEF Running, Counted, At, Settle
        <2>2. R \in Nat /\ L \in Nat /\ R = L + 1
            <3>1. IsFiniteSet(Running(n)) /\ R \in Nat
                BY RunningFinite
            <3>2. IsFiniteSet(Running(n) \ {r}) /\ Cardinality(Running(n) \ {r}) = R - 1
                BY <2>1, <3>1, FS_RemoveElement
            <3>3. Cardinality(Running(n) \ {r}) \in Nat
                BY <3>2, FS_CardinalityType
            <3> QED
                BY <2>1, <3>1, <3>2, <3>3
        <2> DEFINE A == R * Most
                   B == L * Most
                   P == peak[n] * Most
        <2>3. T + A <= cap[n] - Estimate + P
            BY <1>1, <2>1 DEF LoadInv
        <2> HIDE DEF R, L
        <2>4. A \in Nat /\ B \in Nat /\ A = B + Most
            BY <1>3, <2>2, Times
        <2>5. cap[n] \in Nat /\ Estimate \in Nat /\ P \in Nat
            BY <1>1, <1>3, Times, AdmissionAssumption DEF AdmissionTypes
        <2> HIDE DEF A, B, P, T, U
        <2>6. U + B <= cap[n] - Estimate + P
            BY <1>3, <1>4, <1>6, <2>3, <2>4, <2>5
        <2> QED
            BY <1>1, <2>6 DEF U, B, P, L
    <1>7. CASE ~hit
        <2>1. Running(n)' = Running(n)
            BY <1>5, <1>7 DEF Running, Counted, At
        <2>2. /\ cap[n] <= cap'[n] /\ cap'[n] \in Nat /\ peak[n] <= peak'[n] /\ peak'[n] \in Nat
            BY <1>1 DEF AdmissionTypes
        <2>3. U <= T
            BY <1>4, <1>7
        <2> QED
            BY <1>1, <1>4, <2>1, <2>2, <2>3, LoadFalls
    <1> QED
        BY <1>6, <1>7

\* Steps that charge nothing and start or end no call.
LEMMA OtherLoad ==
    ASSUME LoadsInv, NEW n \in Names, cap[n] > 0,
           \/ Tick \/ UNCHANGED admissionVars
           \/ \E r \in Request : Authenticate(r) \/ Refuse(r)
           \/ \E m \in Names : SetLimits(m) /\ cap'[n] > 0
           \/ \E k \in Key : ResetUsage(k) \/ DeleteKey(k) \/ Reset(k)
    PROVE  \/ Total(tokens, n)' = 0 /\ Running(n)' = {}
           \/ Total(tokens, n)' + Cardinality(Running(n)') * Most
                 <= cap'[n] - Estimate + peak'[n] * Most
    <1>1. /\ AdmissionTypes /\ now \in 0..End /\ Windows(tokens) /\ LoadInv
          /\ now \in Nat /\ Window \in Nat
        BY TypesWindows, NowTyped DEF LoadsInv
    <1>2. peak' = peak /\ peak[n] \in Nat
        BY <1>1 DEF Tick, admissionVars, Authenticate, Refuse, SetLimits, ResetUsage, DeleteKey,
               Reset, AdmissionTypes
    <1>3. cap'[n] \in Nat /\ cap[n] <= cap'[n]
        <2>1. CASE cap' = cap
            BY <1>1, <2>1 DEF AdmissionTypes
        <2>2. CASE \E m \in Names : SetLimits(m) /\ cap'[n] > 0
            <3>1. PICK m \in Names : SetLimits(m) /\ cap'[n] > 0
                BY <2>2
            <3>2. PICK new \in Limits :
                    cap' = [cap EXCEPT ![m] = IF 0 \in {cap[m], new.tpm} THEN 0
                                 ELSE IF new.tpm > cap[m] THEN new.tpm ELSE cap[m]]
                BY <3>1 DEF SetLimits
            <3>3. new.tpm \in Nat /\ cap \in [Names -> Nat]
                BY <1>1, AdmissionAssumption DEF AdmissionTypes
            <3> QED
                BY <3>1, <3>2, <3>3
        <2> QED
            BY <2>1, <2>2
            DEF Tick, admissionVars, Authenticate, Refuse, ResetUsage, DeleteKey, Reset
    <1>4. Running(n)' = Running(n)
        <2>1. \A q \in Request : call'[q].pc = "running" <=> call[q].pc = "running"
            BY <1>1 DEF Tick, admissionVars, Authenticate, Refuse, SetLimits, ResetUsage, DeleteKey,
                   Reset, AdmissionTypes, Calls, At
        <2> QED
            BY <2>1 DEF Running, Counted, At
    <1>5. Total(tokens, n)' \in Nat /\ Total(tokens, n)' <= Total(tokens, n)
        <2>1. Total(tokens, n) \in Nat
            BY <1>1, TotalOf
        <2>2. CASE Tick
            <3>0. now' = now + 1 /\ tokens' = tokens
                BY <2>2 DEF Tick
            <3>1. Total(tokens, n)' = IF n \notin DOMAIN tokens THEN 0
                                      ELSE Weight(DropOlder(tokens[n], now' - Window))
                BY <3>0 DEF Total, Prune
            <3>2. Total(tokens, n) = IF n \notin DOMAIN tokens THEN 0
                                     ELSE Weight(DropOlder(tokens[n], now - Window))
                BY DEF Total, Prune
            <3>3. now - Window \in Int /\ now' - Window \in Int /\ now - Window <= now' - Window
                BY <1>1, <3>0
            <3>4. ASSUME n \in DOMAIN tokens
                  PROVE  /\ Weight(DropOlder(tokens[n], now' - Window))
                               <= Weight(DropOlder(tokens[n], now - Window))
                         /\ Weight(DropOlder(tokens[n], now' - Window)) \in Nat
                BY <1>1, <3>3, <3>4, WeightLater, WeightDrop DEF Windows
            <3> QED
                BY <3>1, <3>2, <3>4
        <2>3. CASE \E k \in Key : Reset(k)
            <3>1. PICK k \in Key : Reset(k)
                BY <2>3
            <3>2. /\ now' = now /\ Windows(tokens') /\ Of(tokens', k) = <<>>
                  /\ n # k => Of(tokens', n) = Of(tokens, n)
                BY <1>1, <3>1, DropWindows DEF Reset
            <3>3. Total(tokens, n)' = Weight(Prune(Of(tokens', n)))
                BY <1>1, <3>2, SameTime, TotalOf
            <3>4. Total(tokens, n) = Weight(Prune(Of(tokens, n)))
                BY <1>1, TotalOf
            <3>5. Prune(<<>>) = <<>>
                BY <1>1, NowTyped, DropEmpty DEF Prune
            <3>6. CASE n = k
                <4>1. Total(tokens, n)' = 0
                    BY <3>2, <3>3, <3>5, <3>6, WeightEmpty
                <4> QED
                    BY <2>1, <4>1
            <3>7. CASE n # k
                BY <2>1, <3>2, <3>3, <3>4, <3>7
            <3> QED
                BY <3>6, <3>7
        <2>4. CASE now' = now /\ tokens' = tokens
            BY <2>1, <2>4, SameTime
        <2> QED
            BY <2>2, <2>3, <2>4
               DEF admissionVars, Authenticate, Refuse, SetLimits, ResetUsage, DeleteKey
    <1> QED
        BY <1>1, <1>2, <1>3, <1>4, <1>5, LoadFalls
-----------------------------------------------------------------------------
LEMMA CapStep ==
    ASSUME AdmissionTypes, CapInv, [AdmissionNext]_admissionVars
    PROVE  CapInv'
    <1>1. \A r \in Request : Owner[r] \in Names
        BY AdmissionAssumption DEF Names
    <1>2. ASSUME NEW r \in Request, Authenticate(r)
          PROVE  CapInv'
        BY <1>1, <1>2 DEF Authenticate, CapInv, AdmissionTypes
    <1>3. ASSUME NEW r \in Request, Admit(r) \/ Refuse(r) \/ Settle(r)
          PROVE  CapInv'
        <2>1. \A q \in Request : call'[q].own = call[q].own
            <3>1. \E pc : call' = [call EXCEPT ![r].pc = pc]
                BY <1>3 DEF Admit, Refuse, Settle
            <3> QED
                BY <3>1 DEF AdmissionTypes, Calls
        <2> QED
            BY <1>3, <2>1 DEF Admit, Refuse, Settle, CapInv
    <1>4. ASSUME NEW m \in Names, SetLimits(m)
          PROVE  CapInv'
        <2>1. PICK new \in Limits :
                /\ limit' = [limit EXCEPT ![m] = new]
                /\ cap' = [cap EXCEPT ![m] = IF 0 \in {cap[m], new.tpm} THEN 0
                                 ELSE IF new.tpm > cap[m] THEN new.tpm ELSE cap[m]]
            BY <1>4 DEF SetLimits
        <2>2. new.tpm \in Nat /\ \A n \in Names : cap[n] \in Nat /\ limit[n] \in Limits
            BY AdmissionAssumption DEF AdmissionTypes
        <2>3. /\ call' = call
              /\ \A n \in Names : n # m => cap'[n] = cap[n] /\ limit'[n] = limit[n]
              /\ limit'[m] = new
              /\ cap'[m] = IF 0 \in {cap[m], new.tpm} THEN 0
                           ELSE IF new.tpm > cap[m] THEN new.tpm ELSE cap[m]
            BY <1>4, <2>1 DEF SetLimits, AdmissionTypes
        <2>4. ASSUME NEW n \in Names, cap'[n] > 0
              PROVE  /\ limit'[n].tpm \in 1..cap'[n]
                     /\ \A r \in Request : Owner[r] = n => call'[r].own.tpm \in 1..cap'[n]
            <3>1. CASE n = m
                <4>1. /\ cap[m] > 0 /\ cap'[m] >= cap[m] /\ new.tpm \in 1..cap'[m]
                      /\ cap'[m] \in Nat /\ cap[m] \in Nat
                    BY <2>2, <2>3, <2>4, <3>1
                <4>2. \A r \in Request : Owner[r] = m => call[r].own.tpm \in 1..cap[m]
                    BY <4>1 DEF CapInv
                <4> QED
                    BY <2>3, <3>1, <4>1, <4>2
            <3>2. CASE n # m
                BY <2>3, <2>4, <3>2 DEF CapInv
            <3> QED
                BY <3>1, <3>2
        <2> QED
            BY <2>4 DEF CapInv
    <1>5. CASE \/ Tick \/ UNCHANGED admissionVars
               \/ \E k \in Key : ResetUsage(k) \/ DeleteKey(k) \/ Reset(k)
        BY <1>5 DEF Tick, admissionVars, ResetUsage, DeleteKey, Reset, CapInv
    <1> QED
        BY <1>2, <1>3, <1>4, <1>5 DEF AdmissionNext

LEMMA LoadsStep ==
    ASSUME LoadsInv, [AdmissionNext]_admissionVars
    PROVE  LoadsInv'
    <1>1. AdmissionTypes' /\ CapInv'
        BY TypesStep, CapStep DEF LoadsInv
    <1>2. ASSUME NEW n \in Names, cap'[n] > 0
          PROVE  \/ Total(tokens, n)' = 0 /\ Running(n)' = {}
                 \/ Total(tokens, n)' + Cardinality(Running(n)') * Most
                       <= cap'[n] - Estimate + peak'[n] * Most
        <2>1. cap[n] > 0
            <3>1. CASE cap' = cap
                BY <1>2, <3>1
            <3>2. CASE \E m \in Names : SetLimits(m)
                <4>1. PICK m \in Names : SetLimits(m)
                    BY <3>2
                <4>2. PICK new \in Limits :
                        cap' = [cap EXCEPT ![m] = IF 0 \in {cap[m], new.tpm} THEN 0
                                     ELSE IF new.tpm > cap[m] THEN new.tpm ELSE cap[m]]
                    BY <4>1 DEF SetLimits
                <4>3. cap[n] \in Nat /\ cap \in [Names -> Nat]
                    BY DEF LoadsInv, AdmissionTypes
                <4> QED
                    BY <1>2, <4>2, <4>3
            <3> QED
                BY <3>1, <3>2 DEF AdmissionNext, Tick, admissionVars, Authenticate, Admit, Refuse,
                       Settle, ResetUsage, DeleteKey, Reset
        <2>2. ASSUME NEW r \in Request, Admit(r) \/ Settle(r)
              PROVE  \/ Total(tokens, n)' = 0 /\ Running(n)' = {}
                     \/ Total(tokens, n)' + Cardinality(Running(n)') * Most
                           <= cap'[n] - Estimate + peak'[n] * Most
            BY <2>1, <2>2, AdmitLoad, SettleLoad
        <2>3. CASE \/ Tick \/ UNCHANGED admissionVars
                   \/ \E r \in Request : Authenticate(r) \/ Refuse(r)
                   \/ \E m \in Names : SetLimits(m)
                   \/ \E k \in Key : ResetUsage(k) \/ DeleteKey(k) \/ Reset(k)
            BY <1>2, <2>1, <2>3, OtherLoad
        <2> QED
            BY <2>2, <2>3 DEF AdmissionNext
    <1>3. LoadInv'
        BY <1>2 DEF LoadInv
    <1> QED
        BY <1>1, <1>3 DEF LoadsInv

LEMMA LoadsInit == AdmissionInit => LoadsInv
    <1> SUFFICES ASSUME AdmissionInit PROVE LoadsInv
        OBVIOUS
    <1>1. AdmissionTypes
        BY InitTyped
    <1>2. /\ \A n \in Names : limit[n].tpm \in Nat /\ cap[n] = limit[n].tpm
          /\ \A r \in Request : call[r].own = limit[Owner[r]] /\ call[r].pc = "new"
        BY <1>1, AdmissionAssumption DEF AdmissionInit, AdmissionTypes
    <1>3. CapInv
        BY <1>2 DEF CapInv
    <1>4. \A n \in Names : Total(tokens, n) = 0 /\ Running(n) = {}
        <2>1. DOMAIN tokens = {}
            BY EmptySeq DEF AdmissionInit
        <2> QED
            BY <1>2, <2>1 DEF Total, Running, Counted, At
    <1> QED
        BY <1>1, <1>3, <1>4 DEF LoadsInv, LoadInv

(***************************************************************************)
(* A token window holds more than the highest limit it has had by no more  *)
(* than the calls that were under way together can take (check_tokens,     *)
(* charge_tokens).                                                         *)
(***************************************************************************)
THEOREM Overshoot == AdmissionSpec => []OvershootBounded
    <1>1. LoadsInv => OvershootBounded
        <2> SUFFICES ASSUME LoadsInv, NEW n \in Names, cap[n] > 0,
                            ~(Total(tokens, n) = 0)
                     PROVE  Total(tokens, n) <= cap[n] - Estimate + peak[n] * Most
            BY DEF OvershootBounded, Most
        <2> DEFINE R == Cardinality(Running(n)) * Most
                   P == peak[n] * Most
        <2>1. Total(tokens, n) + R <= cap[n] - Estimate + P
            BY DEF LoadsInv, LoadInv
        <2>2. /\ Total(tokens, n) \in Nat /\ cap[n] \in Nat /\ peak[n] \in Nat /\ Estimate \in Nat
              /\ Cardinality(Running(n)) \in Nat
            BY TypesWindows, TotalOf, RunningFinite, AdmissionAssumption
               DEF LoadsInv, AdmissionTypes
        <2>3. R \in Nat /\ P \in Nat
            BY <2>2, MostTyped, Times
        <2> HIDE DEF R, P
        <2>4. Total(tokens, n) <= cap[n] - Estimate + P
            BY <2>1, <2>2, <2>3
        <2> QED
            BY <2>4 DEF P
    <1> QED
        BY <1>1, LoadsInit, LoadsStep, PTL DEF AdmissionSpec

-----------------------------------------------------------------------------
(* Catalog. *)

\* What a handler has gathered is a record of these fields.
Shape(e) == e = [pc |-> e.pc, op |-> e.op, id |-> e.id, row |-> e.row, cols |-> e.cols,
                 todo |-> e.todo, base |-> e.base, read |-> e.read, at |-> e.at]

\* What is known of a handler when the table is at version n: it has read the
\* table back after its commit.
Editing(e, n) ==
    /\ Shape(e)
    /\ e.pc \in {"idle", "loaded", "stored", "read"}
    /\ e.cols \subseteq Columns
    /\ e.op \in {"create", "update", "merge", "clear"} => e.row \in Row
    /\ e.base \in Versions /\ e.at \in Versions /\ e.base <= n
    /\ e.pc = "read" => e.base <= e.at /\ e.at <= n

\* A handler that is going to put the last commit in the cache.
Carries(e) ==
    /\ e.base = commits
    /\ \/ e.pc = "stored" /\ ~Gone(e)
       \/ e.pc = "read" /\ e.at = commits

TableInv ==
    /\ DOMAIN rows \subseteq Nat \ {0} /\ \A i \in DOMAIN rows : rows[i] \in Row
    /\ \E n \in Nat : \A i \in DOMAIN rows : i <= n
    /\ commits \in Versions /\ cache.at \in Versions

EditInv ==
    /\ edit = [a \in Admin |-> edit[a]]
    /\ \A a \in Admin : Editing(edit[a], commits)

NewestInv ==
    /\ newest \in Versions /\ newest <= commits
    /\ newest < commits => \E a \in Admin : Carries(edit[a])

ChannelInv ==
    /\ DOMAIN channels \subseteq Channel
    /\ \A c \in DOMAIN channels : channels[c] \in ChannelRows

CatalogInv == TableInv /\ EditInv /\ NewestInv /\ ChannelInv

LEMMA InvTypes == CatalogInv => CatalogTypes
    BY DEF CatalogInv, TableInv, EditInv, NewestInv, ChannelInv, Editing, CatalogTypes
-----------------------------------------------------------------------------
(***************************************************************************)
(* What the helpers make of a handler.                                     *)
(***************************************************************************)
LEMMA IdleEditing == \A n \in Nat : Editing(Idle, n)
    BY CatalogAssumption DEF Editing, Shape, Idle, Versions

LEMMA FreshEditing ==
    ASSUME NEW op, NEW id, NEW row, NEW cols, cols \subseteq Columns, NEW n \in Nat,
           op \in {"create", "update", "merge", "clear"} => row \in Row,
           NEW f, f = [pc |-> "loaded", op |-> op, id |-> id, row |-> row, cols |-> cols,
                       todo |-> <<>>, base |-> 0, read |-> <<>>, at |-> 0]
    PROVE  Editing(f, n) /\ f.pc = "loaded" /\ f.row = row
    <1>1. 0 \in Versions
        BY CatalogAssumption DEF Versions
    <1>2. /\ Shape(f) /\ f.pc = "loaded" /\ f.op = op /\ f.row = row /\ f.cols = cols
          /\ f.base = 0 /\ f.at = 0
        BY DEF Shape
    <1> QED
        BY <1>1, <1>2 DEF Editing

LEMMA BeginValue ==
    ASSUME NEW op, NEW id, NEW row, NEW cols, cols \subseteq Columns, NEW n \in Nat,
           op \in {"create", "update", "merge", "clear"} => row \in Row,
           NEW f, f = [Idle EXCEPT !.pc = "loaded", !.op = op, !.id = id, !.row = row,
                                   !.cols = cols]
    PROVE  Editing(f, n)
    <1> DEFINE g == [pc |-> "loaded", op |-> op, id |-> id, row |-> row, cols |-> cols,
                     todo |-> <<>>, base |-> 0, read |-> <<>>, at |-> 0]
    <1>1. Editing(g, n)
        <2> HIDE DEF g
        <2> QED
            BY FreshEditing DEF g
    <1>2. f = g
        BY DEF Idle
    <1> HIDE DEF g
    <1> QED
        BY <1>1, <1>2

LEMMA ImportBegins ==
    ASSUME NEW row \in Row, NEW n \in Nat,
           NEW f, f = [Idle EXCEPT !.pc = "loaded", !.row = row]
    PROVE  Editing(f, n) /\ f.pc = "loaded" /\ f.row = row
    <1> DEFINE g == [pc |-> "loaded", op |-> "none", id |-> 0, row |-> row, cols |-> {},
                     todo |-> <<>>, base |-> 0, read |-> <<>>, at |-> 0]
    <1>1. Editing(g, n) /\ g.pc = "loaded" /\ g.row = row
        <2> HIDE DEF g
        <2> QED
            BY FreshEditing DEF g
    <1>2. f = g
        BY DEF Idle
    <1> HIDE DEF g
    <1> QED
        BY <1>1, <1>2

LEMMA ClearBegins ==
    ASSUME NEW e, NEW n, Editing(e, n), e.row \in Row, e.pc = "loaded",
           NEW id, NEW todo,
           NEW f, f = [e EXCEPT !.op = "clear", !.id = id, !.todo = todo]
    PROVE  Editing(f, n)
    BY DEF Editing, Shape

LEMMA ImportValue ==
    ASSUME NEW e, NEW n \in Nat, Editing(e, n), e.row \in Row, e.pc = "loaded",
           NEW table, NEW f, f = ImportEntry(e, table)
    PROVE  Editing(f, n) /\ f.pc = "loaded"
    <1> DEFINE ids == {i \in DOMAIN table : table[i].alias = e.row.alias}
               cols == Differ(table[Min(ids)], e.row) \cap ImportCols(e.row)
    <1>1. CASE ids = {}
        <2>1. f = [e EXCEPT !.op = "create", !.id = 0, !.cols = Columns]
            BY <1>1 DEF ImportEntry
        <2> QED
            BY <2>1 DEF Editing, Shape
    <1>2. CASE ids # {}
        <2>1. f = [e EXCEPT !.op = "merge", !.id = Min(ids), !.cols = cols]
            BY <1>2 DEF ImportEntry
        <2>2. cols \subseteq Columns
            BY DEF Differ
        <2> HIDE DEF cols, ids
        <2> QED
            BY <2>1, <2>2 DEF Editing, Shape
    <1> QED
        BY <1>1, <1>2

LEMMA CommitValue ==
    ASSUME NEW e, Editing(e, commits), commits \in Versions, commits < MaxCommits,
           NEW f, f = AfterCommit(e)
    PROVE  /\ Editing(f, commits + 1) /\ f.pc = "stored" /\ f.base = commits + 1
           /\ f.op = e.op /\ f.id = IF e.op = "create" THEN NewId(rows) ELSE e.id
    <1> DEFINE i == IF e.op = "create" THEN NewId(rows) ELSE e.id
    <1>1. f = [e EXCEPT !.pc = "stored", !.base = commits + 1, !.id = i]
        BY DEF AfterCommit
    <1>2. commits + 1 \in Versions /\ commits \in Nat
        BY CatalogAssumption DEF Versions
    <1> HIDE DEF i
    <1>3. Shape(f) /\ f.pc = "stored" /\ f.base = commits + 1 /\ f.op = e.op /\ f.id = i
          /\ f.cols = e.cols /\ f.row = e.row /\ f.at = e.at
        BY <1>1 DEF Editing, Shape
    <1> QED
        BY <1>2, <1>3 DEF Editing, i

LEMMA ReadValue ==
    ASSUME NEW e, Editing(e, commits), commits \in Versions, NEW f, f = ReadBack(e)
    PROVE  /\ Editing(f, commits) /\ f.pc = "read" /\ f.at = commits /\ f.base = e.base
    <1>1. Shape(f) /\ f.pc = "read" /\ f.at = commits /\ f.base = e.base
          /\ f.op = e.op /\ f.cols = e.cols /\ f.row = e.row
        BY DEF Editing, Shape, ReadBack
    <1>2. commits \in Nat
        BY CatalogAssumption DEF Versions
    <1> QED
        BY <1>1, <1>2 DEF Editing

LEMMA FillValue ==
    ASSUME NEW e, Editing(e, commits), commits \in Versions, e.pc = "read",
           NEW f, f = AfterFill(e)
    PROVE  Editing(f, commits) /\ f.pc # "read"
    <1>1. commits \in Nat
        BY CatalogAssumption DEF Versions
    <1>2. CASE e.op # "clear"
        BY <1>1, <1>2, IdleEditing DEF AfterFill, Idle
    <1>3. CASE e.op = "clear" /\ e.todo = <<>>
        <2> DEFINE g == [e EXCEPT !.pc = "loaded"]
        <2>1. Editing(g, commits) /\ g.row \in Row /\ g.pc = "loaded"
            BY <1>3 DEF Editing, Shape
        <2>2. f = ImportEntry(g, rows)
            BY <1>3 DEF AfterFill
        <2> HIDE DEF g
        <2> QED
            BY <1>1, <2>1, <2>2, ImportValue
    <1>4. CASE e.op = "clear" /\ e.todo # <<>> /\ Head(e.todo) \notin DOMAIN rows
        BY <1>1, <1>4, IdleEditing DEF AfterFill, Idle
    <1>5. CASE e.op = "clear" /\ e.todo # <<>> /\ Head(e.todo) \in DOMAIN rows
        <2>1. f = [e EXCEPT !.pc = "loaded", !.id = Head(e.todo), !.todo = Tail(e.todo)]
            BY <1>5 DEF AfterFill
        <2> QED
            BY <1>5, <2>1 DEF Editing, Shape
    <1> QED
        BY <1>2, <1>3, <1>4, <1>5

\* An id that has not been given yet.
LEMMA NewIdFresh ==
    ASSUME TableInv
    PROVE  /\ NewId(rows) \in Nat \ {0} /\ NewId(rows) \notin DOMAIN rows
           /\ \A i \in DOMAIN rows : i <= NewId(rows)
    <1> DEFINE S == DOMAIN rows \cup {0}
    <1>1. PICK n \in Nat : \A i \in DOMAIN rows : i <= n
        BY DEF TableInv
    <1>2. S \subseteq Nat /\ S # {} /\ \A i \in S : i <= n
        BY <1>1 DEF TableInv
    <1>3. \E x \in S : \A y \in S : y <= x
        <2> HIDE DEF S
        <2> QED
            BY <1>2, GreatestNumber
    <1>4. Max(S) \in S /\ \A y \in S : Max(S) >= y
        <2>1. \E x \in S : \A y \in S : x >= y
            BY <1>2, <1>3
        <2> QED
            BY <2>1 DEF Max
    <1>5. NewId(rows) = 1 + Max(S)
        BY DEF NewId
    <1> QED
        BY <1>2, <1>4, <1>5
-----------------------------------------------------------------------------
(***************************************************************************)
(* The steps.                                                              *)
(***************************************************************************)
\* A step of one handler, the table as it is.
LEMMA HandlerStep ==
    ASSUME CatalogInv, NEW a \in Admin, NEW f, Editing(f, commits),
           edit' = [edit EXCEPT ![a] = f],
           UNCHANGED <<rows, commits, cache, channels, newest>>,
           Carries(edit[a]) => f.base = edit[a].base /\ f.pc = "read" /\ f.at = commits
    PROVE  CatalogInv'
    <1>1. TableInv' /\ ChannelInv'
        BY DEF CatalogInv, TableInv, ChannelInv
    <1>2. EditInv'
        BY DEF CatalogInv, EditInv
    <1>3. NewestInv'
        <2>1. ASSUME newest < commits
              PROVE  \E b \in Admin : Carries(edit[b])'
            <3>1. PICK b \in Admin : Carries(edit[b])
                BY <2>1 DEF CatalogInv, NewestInv
            <3>2. edit' [b] = IF b = a THEN f ELSE edit[b]
                BY DEF CatalogInv, EditInv
            <3>3. CASE b = a
                BY <3>1, <3>2, <3>3 DEF Carries
            <3>4. CASE b # a
                BY <3>1, <3>2, <3>4 DEF Carries, Gone
            <3> QED
                BY <3>3, <3>4
        <2> QED
            BY <2>1 DEF CatalogInv, NewestInv
    <1> QED
        BY <1>1, <1>2, <1>3 DEF CatalogInv

LEMMA OpenStep ==
    ASSUME CatalogInv, NEW a \in Admin,
           OpenCreate(a) \/ OpenUpdate(a) \/ OpenDelete(a) \/ OpenImport(a)
    PROVE  CatalogInv'
    <1>1. /\ edit[a].pc = "idle" /\ UNCHANGED <<rows, commits, cache, channels, newest>>
          /\ ~Carries(edit[a]) /\ commits \in Nat
        <2>1. commits \in Nat
            BY CatalogAssumption DEF CatalogInv, TableInv, Versions
        <2>2. edit[a].pc = "idle" /\ UNCHANGED <<rows, commits, cache, channels, newest>>
            BY DEF OpenCreate, OpenUpdate, OpenDelete, OpenImport
        <2> QED
            BY <2>1, <2>2 DEF Carries
    <1>2. \E f : Editing(f, commits) /\ edit' = [edit EXCEPT ![a] = f]
        <2>1. CASE OpenCreate(a)
            <3>1. PICK row \in Entries : Begin(a, "create", 0, row, Columns)
                BY <2>1 DEF OpenCreate
            <3> QED
                BY <1>1, <3>1, BeginValue, CatalogAssumption DEF Begin
        <2>2. CASE OpenUpdate(a)
            <3>1. PICK id \in DOMAIN rows, row \in Entries :
                      Begin(a, "update", id, row, Differ(rows[id], row))
                BY <2>2 DEF OpenUpdate
            <3>2. Differ(rows[id], row) \subseteq Columns
                BY DEF Differ
            <3> QED
                BY <1>1, <3>1, <3>2, BeginValue, CatalogAssumption DEF Begin
        <2>3. CASE OpenDelete(a)
            <3>1. PICK id \in DOMAIN rows : Begin(a, "delete", id, NoRow, {})
                BY <2>3 DEF OpenDelete
            <3> DEFINE f == [Idle EXCEPT !.pc = "loaded", !.op = "delete", !.id = id,
                                         !.row = NoRow, !.cols = {}]
            <3>2. edit' = [edit EXCEPT ![a] = f]
                BY <3>1 DEF Begin
            <3>3. Editing(f, commits)
                <4> HIDE DEF f
                <4> QED
                    BY <1>1, BeginValue DEF f
            <3> HIDE DEF f
            <3> QED
                BY <3>2, <3>3
        <2>4. CASE OpenImport(a)
            <3> DEFINE ids == SetToSortSeq(DOMAIN rows, <)
                       e(row) == [Idle EXCEPT !.pc = "loaded", !.row = row]
            <3>1. PICK row \in Entries, replace \in BOOLEAN :
                      edit' = [edit EXCEPT ![a] =
                                 IF replace /\ ids # <<>>
                                 THEN [e(row) EXCEPT !.op = "clear", !.id = Head(ids),
                                                     !.todo = Tail(ids)]
                                 ELSE ImportEntry(e(row), rows)]
                BY <2>4 DEF OpenImport
            <3>2. row \in Row
                BY CatalogAssumption
            <3>3. /\ Editing(e(row), commits) /\ e(row).row = row /\ e(row).pc = "loaded"
                BY <1>1, <3>2, ImportBegins
            <3> DEFINE g == [e(row) EXCEPT !.op = "clear", !.id = Head(ids), !.todo = Tail(ids)]
            <3>4. Editing(g, commits)
                <4> HIDE DEF e, ids
                <4> QED
                    BY <3>2, <3>3, ClearBegins
            <3>5. Editing(ImportEntry(e(row), rows), commits)
                <4> HIDE DEF e
                <4> QED
                    BY <1>1, <3>2, <3>3, ImportValue
            <3> HIDE DEF g, e
            <3>6. CASE replace /\ ids # <<>>
                BY <3>1, <3>4, <3>6 DEF g
            <3>7. CASE ~(replace /\ ids # <<>>)
                BY <3>1, <3>5, <3>7
            <3> QED
                BY <3>6, <3>7
        <2> QED
            BY <2>1, <2>2, <2>3, <2>4
    <1> QED
        BY <1>1, <1>2, HandlerStep
-----------------------------------------------------------------------------
LEMMA WrittenRow ==
    ASSUME NEW old \in Row, NEW new \in Row, NEW cols
    PROVE  Written(old, new, cols) \in Row
    BY DEF Row, Written, Columns

\* What a commit makes of the table.
LEMMA ApplyTyped ==
    ASSUME TableInv, NEW e, Editing(e, commits), ~Rejected(e), NEW t, t = Apply(e)
    PROVE  /\ DOMAIN t \subseteq Nat \ {0} /\ \A i \in DOMAIN t : t[i] \in Row
           /\ \E n \in Nat : \A i \in DOMAIN t : i <= n
           /\ e.op = "create" => NewId(rows) \in DOMAIN t
           /\ e.op = "update" => e.id \in DOMAIN t
    <1>1. /\ DOMAIN rows \subseteq Nat \ {0} /\ \A i \in DOMAIN rows : rows[i] \in Row
          /\ \E n \in Nat : \A i \in DOMAIN rows : i <= n
        BY DEF TableInv
    <1>2. CASE e.op = "create"
        <2> DEFINE new == NewId(rows)
        <2>1. t = [i \in DOMAIN rows \cup {new} |-> IF i = new THEN e.row ELSE rows[i]]
            BY <1>2 DEF Apply
        <2>2. e.row \in Row
            BY <1>2 DEF Editing
        <2>3. new \in Nat \ {0} /\ \A i \in DOMAIN rows : i <= new
            BY NewIdFresh
        <2> HIDE DEF new
        <2>4. /\ DOMAIN t = DOMAIN rows \cup {new}
              /\ \A i \in DOMAIN t : t[i] = IF i = new THEN e.row ELSE rows[i]
            BY <2>1
        <2>5. \A i \in DOMAIN t : i <= new
            BY <2>3, <2>4
        <2> QED
            BY <1>1, <1>2, <2>2, <2>3, <2>4, <2>5 DEF new
    <1>3. CASE e.op \in {"update", "merge"}
        <2>1. t = [i \in DOMAIN rows |->
                     IF i = e.id THEN Written(rows[i], e.row, e.cols) ELSE rows[i]]
            BY <1>3 DEF Apply
        <2>2. e.row \in Row
            BY <1>3 DEF Editing
        <2>3. e.op = "update" => e.id \in DOMAIN rows
            BY DEF Rejected
        <2>4. \A i \in DOMAIN rows : Written(rows[i], e.row, e.cols) \in Row
            BY <1>1, <2>2, WrittenRow
        <2>5. DOMAIN t = DOMAIN rows /\ \A i \in DOMAIN rows : t[i] \in Row
            BY <1>1, <2>1, <2>4
        <2> QED
            BY <1>1, <1>3, <2>3, <2>5
    <1>4. CASE e.op \notin {"create", "update", "merge"}
        <2>1. t = [i \in DOMAIN rows \ {e.id} |-> rows[i]]
            BY <1>4 DEF Apply, Restrict
        <2> QED
            BY <1>1, <1>4, <2>1
    <1> QED
        BY <1>2, <1>3, <1>4

LEMMA CommitStep ==
    ASSUME CatalogInv, NEW a \in Admin, Commit(a)
    PROVE  CatalogInv'
    <1> DEFINE e == edit[a]
               f == AfterCommit(e)
    <1>1. /\ edit = [b \in Admin |-> edit[b]] /\ \A b \in Admin : Editing(edit[b], commits)
          /\ TableInv /\ commits \in Versions /\ newest \in Versions /\ newest <= commits
        BY DEF CatalogInv, EditInv, TableInv, NewestInv
    <1>2. /\ e.pc = "loaded" /\ commits < MaxCommits /\ ~Rejected(e)
          /\ rows' = Apply(e) /\ commits' = commits + 1
          /\ edit' = [edit EXCEPT ![a] = f] /\ UNCHANGED <<cache, channels, newest>>
        BY DEF Commit
    <1>3. commits \in Nat /\ commits + 1 \in Versions
        BY <1>1, <1>2, CatalogAssumption DEF Versions
    <1>4. /\ Editing(f, commits + 1) /\ f.pc = "stored" /\ f.base = commits + 1
          /\ f.op = e.op /\ f.id = IF e.op = "create" THEN NewId(rows) ELSE e.id
        BY <1>1, <1>2, CommitValue
    <1>5. /\ DOMAIN rows' \subseteq Nat \ {0} /\ \A i \in DOMAIN rows' : rows'[i] \in Row
          /\ \E n \in Nat : \A i \in DOMAIN rows' : i <= n
          /\ e.op = "create" => NewId(rows) \in DOMAIN rows'
          /\ e.op = "update" => e.id \in DOMAIN rows'
        BY <1>1, <1>2, ApplyTyped
    <1> HIDE DEF f
    <1>6. TableInv'
        BY <1>1, <1>2, <1>3, <1>5 DEF TableInv
    <1>7. edit'[a] = f /\ \A b \in Admin \ {a} : edit'[b] = edit[b]
        BY <1>1, <1>2
    <1>8. EditInv'
        <2>1. \A b \in Admin \ {a} : Editing(edit[b], commits + 1)
            <3>1. ASSUME NEW b \in Admin
                  PROVE  Editing(edit[b], commits + 1)
                <4>1. Editing(edit[b], commits)
                    BY <1>1
                <4>2. edit[b].base \in Int /\ edit[b].at \in Int
                    BY <4>1 DEF Editing, Versions
                <4>3. edit[b].base <= commits + 1
                    BY <1>3, <4>1, <4>2 DEF Editing
                <4>4. edit[b].pc = "read" => edit[b].at <= commits + 1
                    BY <1>3, <4>1, <4>2 DEF Editing
                <4> QED
                    BY <4>1, <4>3, <4>4 DEF Editing
            <3> QED
                BY <3>1
        <2>2. edit' = [b \in Admin |-> edit'[b]]
            BY <1>1, <1>2
        <2> QED
            BY <1>2, <1>4, <1>7, <2>1, <2>2 DEF EditInv
    <1>9. NewestInv'
        <2>1. Carries(edit[a])'
            <3>1. ~Gone(edit[a])'
                BY <1>4, <1>5, <1>7 DEF Gone
            <3> QED
                BY <1>2, <1>4, <1>7, <3>1 DEF Carries
        <2>2. newest \in Int
            BY <1>1 DEF Versions
        <2> QED
            BY <1>1, <1>2, <1>3, <2>1, <2>2 DEF NewestInv
    <1> QED
        BY <1>2, <1>6, <1>8, <1>9 DEF CatalogInv, ChannelInv

LEMMA SelectStep ==
    ASSUME CatalogInv, NEW a \in Admin, CommitFails(a) \/ Select(a)
    PROVE  CatalogInv'
    <1>1. /\ UNCHANGED <<rows, commits, cache, channels, newest>>
          /\ edit[a].pc \in {"loaded", "stored"} /\ Editing(edit[a], commits)
          /\ commits \in Versions /\ commits \in Nat
        BY CatalogAssumption
           DEF CommitFails, Select, CatalogInv, EditInv, TableInv, Versions
    <1>2. CASE edit' = [edit EXCEPT ![a] = Idle] /\ ~Carries(edit[a])
        BY <1>1, <1>2, IdleEditing, HandlerStep
    <1>3. CASE /\ edit' = [edit EXCEPT ![a] = ReadBack(edit[a])]
        <2> DEFINE f == ReadBack(edit[a])
        <2>1. Editing(f, commits) /\ f.pc = "read" /\ f.at = commits /\ f.base = edit[a].base
            BY <1>1, ReadValue
        <2>2. edit' = [edit EXCEPT ![a] = f]
            BY <1>3
        <2> HIDE DEF f
        <2> QED
            BY <1>1, <2>1, <2>2, HandlerStep
    <1>4. CASE CommitFails(a)
        BY <1>2, <1>4 DEF CommitFails, Carries
    <1>5. CASE Select(a)
        BY <1>2, <1>3, <1>5 DEF Select, Carries
    <1> QED
        BY <1>4, <1>5

LEMMA FillStep ==
    ASSUME CatalogInv, NEW a \in Admin, Fill(a)
    PROVE  CatalogInv'
    <1> DEFINE e == edit[a]
               f == AfterFill(e)
    <1>1. /\ edit = [b \in Admin |-> edit[b]] /\ \A b \in Admin : Editing(edit[b], commits)
          /\ TableInv /\ commits \in Versions /\ newest \in Versions /\ newest <= commits
          /\ newest < commits => \E b \in Admin : Carries(edit[b])
        BY DEF CatalogInv, EditInv, TableInv, NewestInv
    <1>2. /\ e.pc = "read" /\ cache'.at = e.at
          /\ newest' = (IF e.at > newest THEN e.at ELSE newest)
          /\ edit' = [edit EXCEPT ![a] = f] /\ UNCHANGED <<rows, commits, channels>>
        BY DEF Fill
    <1>3. Editing(f, commits)
        BY <1>1, <1>2, FillValue
    <1>4. e.at \in Versions /\ e.at <= commits
        BY <1>1, <1>2 DEF Editing
    <1> HIDE DEF f
    <1>5. TableInv'
        BY <1>1, <1>2, <1>4 DEF TableInv
    <1>6. EditInv'
        BY <1>1, <1>2, <1>3 DEF EditInv
    <1>7. NewestInv'
        <2>1. newest' \in Versions /\ newest' <= commits' /\ newest' >= e.at /\ newest' >= newest
            BY <1>1, <1>2, <1>4 DEF Versions
        <2>2. ASSUME newest' < commits'
              PROVE  \E b \in Admin : Carries(edit[b])'
            <3>1. newest < commits /\ e.at # commits
                BY <1>1, <1>2, <1>4, <2>1, <2>2 DEF Versions
            <3>2. PICK b \in Admin : Carries(edit[b])
                BY <1>1, <3>1
            <3>3. b # a
                BY <1>2, <3>1, <3>2 DEF Carries
            <3>4. edit'[b] = edit[b]
                BY <1>1, <1>2, <3>3
            <3> QED
                BY <1>2, <3>2, <3>4 DEF Carries, Gone
        <2> QED
            BY <2>1, <2>2 DEF NewestInv
    <1> QED
        BY <1>2, <1>5, <1>6, <1>7 DEF CatalogInv, ChannelInv
-----------------------------------------------------------------------------
LEMMA ChannelStep ==
    ASSUME CatalogInv, NEW c \in Channel, SaveChannel(c) \/ DeleteChannel(c)
    PROVE  CatalogInv'
    <1>1. UNCHANGED <<rows, commits, cache, edit, newest>>
        BY DEF SaveChannel, DeleteChannel
    <1>2. ChannelInv'
        BY DEF SaveChannel, DeleteChannel, Restrict, CatalogInv, ChannelInv
    <1>3. TableInv' /\ EditInv' /\ NewestInv'
        BY <1>1 DEF CatalogInv, TableInv, EditInv, NewestInv, Carries, Gone
    <1> QED
        BY <1>2, <1>3 DEF CatalogInv

LEMMA CatalogInitial == CatalogInit => CatalogInv
    <1> SUFFICES ASSUME CatalogInit PROVE CatalogInv
        OBVIOUS
    <1>1. 0 \in Versions
        BY CatalogAssumption DEF Versions
    <1>2. TableInv
        <2>1. rows \in Seq(Row)
            <3>1. rows \in Seq(Entries) /\ Entries \subseteq Row
                BY CatalogAssumption DEF CatalogInit
            <3> QED
                BY <3>1
        <2>2. Len(rows) \in Nat /\ DOMAIN rows = 1..Len(rows)
              /\ \A i \in 1..Len(rows) : rows[i] \in Row
            BY <2>1, LenProperties, ElementOfSeq
        <2> QED
            BY <1>1, <2>2 DEF CatalogInit, TableInv
    <1>3. EditInv
        BY IdleEditing DEF CatalogInit, EditInv
    <1>4. NewestInv
        BY <1>1 DEF CatalogInit, NewestInv
    <1>5. ChannelInv
        BY DEF CatalogInit, ChannelInv
    <1> QED
        BY <1>2, <1>3, <1>4, <1>5 DEF CatalogInv

LEMMA CatalogStep == CatalogInv /\ [CatalogNext]_catalogVars => CatalogInv'
    <1> SUFFICES ASSUME CatalogInv, [CatalogNext]_catalogVars
                 PROVE  CatalogInv'
        OBVIOUS
    <1>1. CASE UNCHANGED catalogVars
        BY <1>1 DEF catalogVars, CatalogInv, TableInv, EditInv, NewestInv, ChannelInv,
                    Carries, Gone
    <1>2. CASE CatalogNext
        BY <1>2, OpenStep, CommitStep, SelectStep, FillStep, ChannelStep DEF CatalogNext
    <1> QED
        BY <1>1, <1>2

LEMMA CatalogInductive == CatalogSpec => []CatalogInv
    BY CatalogInitial, CatalogStep, PTL DEF CatalogSpec

(***************************************************************************)
(* The alias table, its cache, the channels and the handlers keep their    *)
(* types (MappingService, ChannelService).                                 *)
(***************************************************************************)
THEOREM CatalogTyped == CatalogSpec => []CatalogTypes
    BY CatalogInductive, InvTypes, PTL

(***************************************************************************)
(* When the refresh of an edit of the alias table is over, lookups use the *)
(* table as it was after its commit or later (MappingService.refresh).     *)
(***************************************************************************)
THEOREM EditSeen == CatalogSpec => OwnEditSeen
    <1> DEFINE Seen == \A a \in Admin : edit[a].pc = "read" /\ edit'[a].pc # "read"
                                           => cache'.at >= edit[a].base
    <1>1. CatalogInv /\ [CatalogNext]_catalogVars => [Seen]_catalogVars
        <2> SUFFICES ASSUME CatalogInv, CatalogNext, NEW a \in Admin,
                            edit[a].pc = "read", edit'[a].pc # "read"
                     PROVE  cache'.at >= edit[a].base
            OBVIOUS
        <2>1. edit = [b \in Admin |-> edit[b]] /\ Editing(edit[a], commits)
            BY DEF CatalogInv, EditInv
        <2>2. ASSUME NEW b \in Admin, NEW f, edit' = [edit EXCEPT ![b] = f]
              PROVE  b = a
            BY <2>1, <2>2
        <2>3. edit' # edit
            OBVIOUS
        <2>4. Fill(a)
            <3>1. \A c \in Channel : ~SaveChannel(c) /\ ~DeleteChannel(c)
                BY <2>3 DEF SaveChannel, DeleteChannel
            <3>2. PICK b \in Admin :
                      \/ OpenCreate(b) \/ OpenUpdate(b) \/ OpenDelete(b) \/ OpenImport(b)
                      \/ Commit(b) \/ CommitFails(b) \/ Select(b) \/ Fill(b)
                BY <3>1 DEF CatalogNext
            <3>3. b = a
                BY <2>2, <3>2 DEF OpenCreate, OpenUpdate, OpenDelete, OpenImport, Begin,
                                  Commit, CommitFails, Select, Fill
            <3> QED
                BY <3>2, <3>3 DEF OpenCreate, OpenUpdate, OpenDelete, OpenImport,
                                  Commit, CommitFails, Select
        <2>5. cache'.at = edit[a].at
            BY <2>4 DEF Fill
        <2>6. edit[a].base <= edit[a].at /\ edit[a].base \in Int /\ edit[a].at \in Int
            BY <2>1 DEF Editing, Versions
        <2> QED
            BY <2>5, <2>6
    <1> QED
        BY <1>1, CatalogInductive, PTL DEF CatalogSpec, OwnEditSeen

(***************************************************************************)
(* Once no edit is under way, the last commit has been in the cache        *)
(* (MappingService.refresh).                                               *)
(***************************************************************************)
THEOREM LastCommitSeen == CatalogSpec => []LastCommitCached
    <1>1. CatalogInv => LastCommitCached
        BY DEF CatalogInv, NewestInv, TableInv, Versions, LastCommitCached, Carries
    <1> QED
        BY <1>1, CatalogInductive, PTL

(***************************************************************************)
(* What the lists of models say of a model, some channel can do for it,    *)
(* and the lookup of the one model says so too (list_models,               *)
(* retrieve_model, Router.plan), whatever the tables hold.                 *)
(***************************************************************************)
THEOREM ListingHolds == CatalogSpec => []ListingTrue
    <1>1. \A name : Resolve(name).requested = name
        BY DEF Resolve, Resolved
    <1>2. \A d \in Active : \A up \in channels[d].models : Serves(d, up)
        BY DEF Serves
    <1>3. ASSUME NEW l \in Listing
          PROVE  \A ability \in l.caps : \E d \in Active :
                     ability \in CapabilitiesOf(d) /\ ServesRequest(d, Resolve(l.id))
        <2>1. CASE \E a \in KnownAliases : l = [id |-> a, caps |-> Declared(Resolve(a).upstream)]
            BY <1>2, <2>1 DEF Declared, ServesRequest
        <2>2. CASE \E m : l = [id |-> m, caps |-> Declared(m)]
            BY <1>1, <1>2, <2>2 DEF Declared, ServesRequest
        <2> QED
            BY <2>1, <2>2 DEF Listing
    <1>4. ListingTrue
        BY <1>3 DEF ListingTrue, Retrieved, Candidates
    <1> QED
        BY <1>4, PTL
=============================================================================
