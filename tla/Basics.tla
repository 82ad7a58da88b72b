--------------------------------- MODULE Basics ---------------------------------
(***************************************************************************)
(* Facts about numbers and lists that the proofs of several modules rest   *)
(* on.                                                                     *)
(***************************************************************************)
EXTENDS Integers, FiniteSets, SequencesExt, SequenceTheorems, WellFoundedInduction, TLAPS

\* A set of natural numbers has a least one: what stands here for induction.
LEMMA LeastNumber ==
    ASSUME NEW T, T \subseteq Nat, T # {}
    PROVE  \E x \in T : \A y \in T : x <= y
    <1> DEFINE R == OpToRel(<, Nat)
    <1>1. IsWellFoundedOn(R, Nat)
        BY NatLessThanWellFounded
    <1>2. \A x, y \in Nat : x < y => <<x, y>> \in R
        BY DEF OpToRel
    <1> HIDE DEF R
    <1>3. PICK x \in T : \A y \in T : ~(<<y, x>> \in R)
        BY <1>1, WFMin
    <1>4. ASSUME NEW y \in T
          PROVE  x <= y
        <2>1. x \in Nat /\ y \in Nat
            OBVIOUS
        <2>2. ~(y < x)
            BY <1>2, <1>3, <2>1
        <2> QED
            BY <2>1, <2>2
    <1> QED
        BY <1>4

\* A set of natural numbers with a bound has a greatest one.
LEMMA GreatestNumber ==
    ASSUME NEW S, S \subseteq Nat, S # {}, NEW n \in Nat, \A y \in S : y <= n
    PROVE  \E x \in S : \A y \in S : y <= x
    <1> DEFINE T == {m \in Nat : \A y \in S : y <= m}
    <1>1. PICK m \in T : \A k \in T : m <= k
        <2>1. T \subseteq Nat /\ n \in T
            OBVIOUS
        <2> HIDE DEF T
        <2> QED
            BY <2>1, LeastNumber
    <1>2. m \in S
        <2> SUFFICES ASSUME m \notin S PROVE FALSE
            OBVIOUS
        <2>1. m \in Nat /\ \A y \in S : y \in Nat /\ y <= m /\ y # m
            OBVIOUS
        <2>2. \A y \in S : y <= m - 1
            BY <2>1
        <2>3. m - 1 \in Nat
            <3>1. PICK y \in S : TRUE
                OBVIOUS
            <3>2. y \in Nat /\ y <= m - 1
                BY <2>1, <2>2
            <3> QED
                BY <2>1, <3>2
        <2>4. m - 1 \in T
            BY <2>2, <2>3
        <2> QED
            BY <1>1, <2>1, <2>4
    <1> QED
        BY <1>2
-----------------------------------------------------------------------------
\* What holds of the empty list and of a list with one more member, if it held of the
\* list before, holds of every list: induction with a set for the property.
LEMMA ListInduction ==
    ASSUME NEW S, NEW P, <<>> \in P,
           \A s \in Seq(S) : s \in P => \A x \in S : Append(s, x) \in P
    PROVE  Seq(S) \subseteq P
    <1> SUFFICES ASSUME NEW s \in Seq(S), s \notin P PROVE FALSE
        OBVIOUS
    <1> DEFINE T == {n \in Nat : \E t \in Seq(S) : Len(t) = n /\ t \notin P}
    <1>1. T \subseteq Nat /\ Len(s) \in T
        BY LenProperties
    <1> HIDE DEF T
    <1>2. PICK n \in T : \A k \in T : n <= k
        BY <1>1, LeastNumber
    <1>3. PICK t \in Seq(S) : Len(t) = n /\ t \notin P
        BY DEF T
    <1>4. t # <<>>
        BY <1>3
    <1>5. PICK u \in Seq(S), x \in S : t = Append(u, x)
        BY <1>4, SequenceEmptyOrAppend
    <1>6. Len(u) \in Nat /\ n = Len(u) + 1
        BY <1>3, <1>5, AppendProperties, LenProperties
    <1>7. u \in P
        <2> SUFFICES ASSUME u \notin P PROVE FALSE
            OBVIOUS
        <2>1. Len(u) \in T
            BY <1>6 DEF T
        <2> QED
            BY <1>2, <1>6, <2>1
    <1> QED
        BY <1>3, <1>5, <1>7

\* A list of one member.
LEMMA SingleList ==
    ASSUME NEW S, NEW x \in S
    PROVE  <<x>> \in Seq(S) /\ Len(<<x>>) = 1 /\ <<x>>[1] = x /\ <<x>> # <<>>
    OBVIOUS

LEMMA SeqInSeq ==
    ASSUME NEW S, NEW T, S \subseteq T
    PROVE  Seq(S) \subseteq Seq(T)
    <1> SUFFICES ASSUME NEW s \in Seq(S) PROVE s \in Seq(T)
        OBVIOUS
    <1>1. Len(s) \in Nat /\ s \in [1..Len(s) -> S]
        BY LenProperties
    <1>2. s \in [1..Len(s) -> T]
        BY <1>1
    <1> QED
        BY <1>1, <1>2

LEMMA FrontLast ==
    ASSUME NEW S, NEW s \in Seq(S), NEW x \in S
    PROVE  /\ Front(Append(s, x)) = s /\ Last(Append(s, x)) = x /\ Append(s, x) # <<>>
    <1>1. PICK t : t = Append(s, x)
        OBVIOUS
    <1>2. /\ t \in Seq(S) /\ Len(s) \in Nat /\ Len(t) = Len(s) + 1 /\ t[Len(s) + 1] = x
          /\ \A i \in 1..Len(s) : t[i] = s[i]
        BY <1>1, AppendProperties, LenProperties
    <1>3. t # <<>> /\ Last(t) = x
        BY <1>2 DEF Last
    <1>4. Front(t) = [i \in 1..Len(s) |-> t[i]]
        BY <1>2 DEF Front
    <1>5. s = [i \in 1..Len(s) |-> s[i]]
        BY LenProperties
    <1>6. Front(t) = s
        BY <1>2, <1>4, <1>5
    <1> QED
        BY <1>1, <1>3, <1>6

\* FlattenSeq is the last of the lists that it joins one after another.
LEMMA FlattenSteps ==
    ASSUME NEW ss, Len(ss) \in Nat, Len(ss) # 0
    PROVE  \E f : /\ FlattenSeq(ss) = f[Len(ss)] /\ f[1] = ss[1]
                  /\ \A i \in 2..Len(ss) : f[i] = f[i - 1] \o ss[i]
    <1> DEFINE Value(f, i) == IF i = 1 THEN ss[1] ELSE f[i - 1] \o ss[i]
               Runs(f, n) == f = [i \in 1..n |-> Value(f, i)]
               T == {n \in Nat : ~\E f : Runs(f, n)}
    <1>1. T = {}
        <2> SUFFICES ASSUME T # {} PROVE FALSE
            OBVIOUS
        <2>1. PICK n \in T : \A k \in T : n <= k
            <3>1. T \subseteq Nat
                OBVIOUS
            <3> HIDE DEF T
            <3> QED
                BY <3>1, LeastNumber
        <2>2. n # 0
            <3>1. Runs([i \in 1..0 |-> 0], 0)
                OBVIOUS
            <3> QED
                BY <3>1
        <2>3. n \in Nat /\ n - 1 \in Nat /\ ~(n <= n - 1)
            BY <2>2
        <2>4. PICK f : Runs(f, n - 1)
            BY <2>1, <2>3
        <2> DEFINE g == [i \in 1..n |-> IF i = n THEN Value(f, n) ELSE f[i]]
        <2>5. \A i \in 1..n - 1 : f[i] = Value(f, i)
            BY <2>4
        <2>6. g = [i \in 1..n |-> Value(g, i)]
            <3>1. \A i \in 1..n : g[i] = Value(f, i)
                BY <2>3, <2>5
            <3>2. \A i \in 1..n : i # 1 => g[i - 1] = f[i - 1]
                BY <2>3
            <3>3. \A i \in 1..n : Value(f, i) = Value(g, i)
                BY <3>2
            <3>4. DOMAIN g = 1..n /\ g = [i \in 1..n |-> g[i]]
                OBVIOUS
            <3> HIDE DEF Value, g
            <3> QED
                BY <3>1, <3>3, <3>4
        <2> HIDE DEF g
        <2>7. Runs(g, n)
            BY <2>6
        <2> QED
            BY <2>7
    <1>2. \E f : Runs(f, Len(ss))
        BY <1>1
    <1> DEFINE r == CHOOSE f : Runs(f, Len(ss))
    <1>3. FlattenSeq(ss) = r[Len(ss)]
        BY DEF FlattenSeq
    <1> HIDE DEF Runs
    <1>4. Runs(r, Len(ss))
        BY <1>2
    <1>5. r = [i \in 1..Len(ss) |-> Value(r, i)]
        BY <1>4 DEF Runs
    <1> HIDE DEF r, Value
    <1>6. \A i \in 1..Len(ss) : r[i] = Value(r, i)
        BY <1>5
    <1>7. r[1] = ss[1] /\ \A i \in 2..Len(ss) : r[i] = r[i - 1] \o ss[i]
        <2>1. 1 \in 1..Len(ss) /\ \A i \in 2..Len(ss) : i \in 1..Len(ss) /\ i # 1
            OBVIOUS
        <2>2. Value(r, 1) = ss[1]
            BY DEF Value
        <2>3. ASSUME NEW i \in 2..Len(ss) PROVE r[i] = r[i - 1] \o ss[i]
            BY <1>6, <2>1, <2>3 DEF Value
        <2> QED
            BY <1>6, <2>1, <2>2, <2>3
    <1> QED
        BY <1>3, <1>7 DEF r

LEMMA FlattenIs ==
    ASSUME NEW ss, Len(ss) \in Nat, Len(ss) # 0,
           NEW f, f[1] = ss[1], \A i \in 2..Len(ss) : f[i] = f[i - 1] \o ss[i]
    PROVE  FlattenSeq(ss) = f[Len(ss)]
    <1>1. PICK g : /\ FlattenSeq(ss) = g[Len(ss)] /\ g[1] = ss[1]
                   /\ \A i \in 2..Len(ss) : g[i] = g[i - 1] \o ss[i]
        BY FlattenSteps
    <1> DEFINE T == {i \in 1..Len(ss) : f[i] # g[i]}
    <1>2. T = {}
        <2> SUFFICES ASSUME T # {} PROVE FALSE
            OBVIOUS
        <2>1. PICK n \in T : \A k \in T : n <= k
            <3>1. T \subseteq Nat
                OBVIOUS
            <3> HIDE DEF T
            <3> QED
                BY <3>1, LeastNumber
        <2>2. n \in 2..Len(ss) /\ n - 1 \in 1..Len(ss) /\ ~(n <= n - 1)
            BY <1>1
        <2>3. f[n - 1] = g[n - 1]
            BY <2>1, <2>2
        <2>4. f[n] = f[n - 1] \o ss[n] /\ g[n] = g[n - 1] \o ss[n]
            BY <1>1, <2>2
        <2> QED
            BY <2>3, <2>4
    <1> QED
        BY <1>1, <1>2

\* A list joined to those before it.
LEMMA FlattenEmpty == FlattenSeq(<<>>) = <<>>
    BY DEF FlattenSeq

LEMMA FlattenOne ==
    ASSUME NEW x
    PROVE  FlattenSeq(<<x>>) = x
    <1>1. PICK ss : ss = <<x>>
        OBVIOUS
    <1>2. Len(ss) = 1 /\ ss[1] = x
        BY <1>1
    <1>3. Len(ss) \in Nat /\ Len(ss) # 0
        BY <1>2
    <1>4. PICK f : /\ FlattenSeq(ss) = f[Len(ss)] /\ f[1] = ss[1]
                   /\ \A i \in 2..Len(ss) : f[i] = f[i - 1] \o ss[i]
        BY ONLY <1>3, FlattenSteps
    <1> QED
        BY <1>1, <1>2, <1>4

LEMMA FlattenAppend ==
    ASSUME NEW S, NEW ss \in Seq(Seq(S)), NEW x \in Seq(S)
    PROVE  FlattenSeq(Append(ss, x)) = FlattenSeq(ss) \o x
    <1> DEFINE n == Len(ss)
               tt == Append(ss, x)
    <1>1. /\ n \in Nat /\ Len(tt) = n + 1 /\ tt[n + 1] = x
          /\ \A i \in 1..n : tt[i] = ss[i]
        BY LenProperties, AppendProperties
    <1>2. CASE n = 0
        <2>1. ss = <<>>
            BY <1>2, EmptySeq
        <2>2. tt = <<x>>
            BY <2>1
        <2>3. FlattenSeq(tt) = x /\ FlattenSeq(ss) = <<>>
            BY <2>1, <2>2, FlattenOne, FlattenEmpty
        <2> QED
            BY <2>3, ConcatEmptySeq
    <1>3. CASE n # 0
        <2>1. PICK f : /\ FlattenSeq(ss) = f[n] /\ f[1] = ss[1]
                       /\ \A i \in 2..n : f[i] = f[i - 1] \o ss[i]
            BY <1>1, <1>3, FlattenSteps
        <2> DEFINE g == [i \in 1..n + 1 |-> IF i = n + 1 THEN f[n] \o x ELSE f[i]]
        <2> HIDE DEF n, tt
        <2>2. g[n + 1] = f[n] \o x /\ \A i \in 1..n : g[i] = f[i]
            BY <1>1
        <2>3. g[1] = tt[1]
            BY <1>1, <1>3, <2>1, <2>2
        <2> HIDE DEF g
        <2>4. ASSUME NEW i \in 2..Len(tt) PROVE g[i] = g[i - 1] \o tt[i]
            <3>1. CASE i = n + 1
                <4>1. i - 1 = n /\ n \in 1..n
                    BY <1>1, <1>3, <3>1
                <4> QED
                    BY <1>1, <2>2, <3>1, <4>1
            <3>2. CASE i # n + 1
                <4>1. i \in 2..n /\ i \in 1..n /\ i - 1 \in 1..n
                    BY <1>1, <3>2
                <4> QED
                    BY <1>1, <2>1, <2>2, <4>1
            <3> QED
                BY <3>1, <3>2
        <2>5. FlattenSeq(tt) = g[n + 1]
            <3>1. Len(tt) \in Nat /\ Len(tt) # 0
                BY <1>1
            <3>2. FlattenSeq(tt) = g[Len(tt)]
                BY ONLY <2>3, <2>4, <3>1, FlattenIs
            <3> QED
                BY <1>1, <3>2
        <2> QED
            BY <2>1, <2>2, <2>5 DEF tt
    <1> QED
        BY <1>2, <1>3

LEMMA FlattenTyped ==
    ASSUME NEW S
    PROVE  \A ss \in Seq(Seq(S)) : FlattenSeq(ss) \in Seq(S)
    <1> DEFINE P == {ss \in Seq(Seq(S)) : FlattenSeq(ss) \in Seq(S)}
    <1>1. <<>> \in P
        BY FlattenEmpty, EmptySeq
    <1>2. ASSUME NEW ss \in P, NEW x \in Seq(S) PROVE Append(ss, x) \in P
        <2>1. Append(ss, x) \in Seq(Seq(S))
            BY AppendProperties
        <2>2. FlattenSeq(Append(ss, x)) \in Seq(S)
            BY FlattenAppend, ConcatProperties
        <2> QED
            BY <2>1, <2>2
    <1> HIDE DEF P
    <1>3. Seq(Seq(S)) \subseteq P
        BY <1>1, <1>2, ListInduction
    <1> QED
        BY <1>3 DEF P

LEMMA FlattenBoth ==
    ASSUME NEW S, NEW ss \in Seq(Seq(S))
    PROVE  \A tt \in Seq(Seq(S)) : FlattenSeq(ss \o tt) = FlattenSeq(ss) \o FlattenSeq(tt)
    <1> DEFINE P == {tt \in Seq(Seq(S)) : FlattenSeq(ss \o tt) = FlattenSeq(ss) \o FlattenSeq(tt)}
    <1>1. <<>> \in P
        <2>1. ss \o <<>> = ss /\ <<>> \in Seq(Seq(S))
            BY ConcatEmptySeq, EmptySeq
        <2>2. FlattenSeq(ss) \o <<>> = FlattenSeq(ss)
            BY FlattenTyped, ConcatEmptySeq
        <2> QED
            BY <2>1, <2>2, FlattenEmpty
    <1>2. ASSUME NEW tt \in P, NEW x \in Seq(S) PROVE Append(tt, x) \in P
        <2>1. Append(tt, x) \in Seq(Seq(S))
            BY AppendProperties
        <2>2. ss \o Append(tt, x) = Append(ss \o tt, x)
            OBVIOUS
        <2>3. ss \o tt \in Seq(Seq(S))
            BY ConcatProperties
        <2>4. FlattenSeq(Append(ss \o tt, x)) = FlattenSeq(ss \o tt) \o x
            BY <2>3, FlattenAppend
        <2>5. FlattenSeq(Append(tt, x)) = FlattenSeq(tt) \o x
            BY FlattenAppend
        <2>6. FlattenSeq(ss) \in Seq(S) /\ FlattenSeq(tt) \in Seq(S)
            BY FlattenTyped
        <2>7. (FlattenSeq(ss) \o FlattenSeq(tt)) \o x = FlattenSeq(ss) \o (FlattenSeq(tt) \o x)
            BY <2>6, ConcatAssociative
        <2> QED
            BY <2>1, <2>2, <2>4, <2>5, <2>7
    <1> HIDE DEF P
    <1>3. Seq(Seq(S)) \subseteq P
        BY <1>1, <1>2, ListInduction
    <1> QED
        BY <1>3 DEF P

\* A list with one member more.
LEMMA Appended ==
    ASSUME NEW S, NEW s \in Seq(S), NEW x \in S, NEW t, t = Append(s, x)
    PROVE  /\ t \in Seq(S) /\ Len(t) = Len(s) + 1 /\ t[Len(s) + 1] = x
           /\ \A i \in 1..Len(s) : t[i] = s[i]
    BY AppendProperties

\* A function that gives a list for each member of a list, and these lists joined.
Images(h, s) == [i \in DOMAIN s |-> h[s[i]]]
Joined(h, s) == FlattenSeq(Images(h, s))
Lists(h, S, T) == h \in [S -> Seq(T)]
After(k, h, g, R) == \A x \in R : k[x] = Joined(h, g[x])

LEMMA ImageList ==
    ASSUME NEW S, NEW T, NEW h \in [S -> T], NEW s \in Seq(S)
    PROVE  /\ Images(h, s) \in Seq(T) /\ Len(Images(h, s)) = Len(s)
           /\ \A i \in 1..Len(s) : Images(h, s)[i] = h[s[i]]
    <1> DEFINE image(t) == Images(h, t)
    <1>1. Len(s) \in Nat /\ DOMAIN s = 1..Len(s) /\ \A i \in 1..Len(s) : s[i] \in S
        BY LenProperties, ElementOfSeq
    <1>2. image(s) \in [1..Len(s) -> T]
        BY <1>1 DEF Images
    <1>3. image(s) \in Seq(T) /\ Len(image(s)) = Len(s)
        BY <1>1, <1>2
    <1>4. \A i \in 1..Len(s) : image(s)[i] = h[s[i]]
        BY <1>1 DEF Images
    <1> QED
        BY <1>3, <1>4

LEMMA ImageAppend ==
    ASSUME NEW S, NEW T, NEW h \in [S -> T], NEW s \in Seq(S), NEW x \in S
    PROVE  Images(h, Append(s, x)) = Append(Images(h, s), h[x])
    <1>0. /\ Len(s) \in Nat /\ DOMAIN s = 1..Len(s)
          /\ Images(h, s) \in Seq(T) /\ Len(Images(h, s)) = Len(s)
          /\ \A i \in 1..Len(s) : s[i] \in S /\ Images(h, s)[i] = h[s[i]]
        BY ImageList, LenProperties, ElementOfSeq
    <1> DEFINE t == Append(s, x)
    <1>1. /\ t \in Seq(S) /\ Len(t) = Len(s) + 1
          /\ t[Len(s) + 1] = x /\ \A i \in 1..Len(s) : t[i] = s[i]
        BY AppendProperties, LenProperties
    <1> HIDE DEF t
    <1>2. /\ Images(h, t) \in Seq(T) /\ Len(Images(h, t)) = Len(s) + 1
          /\ \A i \in 1..Len(s) + 1 : Images(h, t)[i] = h[t[i]]
        <2>1. PICK w : w = t
            OBVIOUS
        <2>2. w \in Seq(S)
            BY <1>1, <2>1
        <2>3. /\ Images(h, w) \in Seq(T) /\ Len(Images(h, w)) = Len(w)
              /\ \A i \in 1..Len(w) : Images(h, w)[i] = h[w[i]]
            BY ONLY <2>2, h \in [S -> T], ImageList
        <2> QED
            BY <1>1, <2>1, <2>3
    <1> DEFINE u == Append(Images(h, s), h[x])
    <1>3. /\ u \in Seq(T) /\ Len(u) = Len(s) + 1 /\ u[Len(s) + 1] = h[x]
          /\ \A i \in 1..Len(s) : u[i] = Images(h, s)[i]
        BY <1>0, AppendProperties
    <1> HIDE DEF u
    <1>4. \A i \in 1..Len(s) + 1 : Images(h, t)[i] = u[i]
        BY <1>0, <1>1, <1>2, <1>3
    <1>5. Images(h, t) = u
        BY <1>2, <1>3, <1>4, SeqEqual
    <1> QED
        BY <1>5 DEF t, u

LEMMA JoinedEmpty ==
    ASSUME NEW h
    PROVE  Joined(h, <<>>) = <<>>
    <1>1. PICK s : s = <<>>
        OBVIOUS
    <1>2. PICK t : t = Images(h, s)
        OBVIOUS
    <1>3. Joined(h, s) = FlattenSeq(t)
        BY <1>2 DEF Joined
    <1>4. t = <<>>
        BY <1>1, <1>2 DEF Images
    <1>5. FlattenSeq(t) = <<>>
        BY <1>4, FlattenEmpty
    <1>6. Joined(h, s) = <<>>
        BY <1>3, <1>5
    <1> QED
        BY ONLY <1>1, <1>6

LEMMA JoinedTyped ==
    ASSUME NEW S, NEW T, NEW h, Lists(h, S, T), NEW s \in Seq(S)
    PROVE  Joined(h, s) \in Seq(T)
    <1>1. PICK U : U = Seq(T)
        OBVIOUS
    <1>2. h \in [S -> U]
        BY <1>1 DEF Lists
    <1>3. Images(h, s) \in Seq(U)
        BY ONLY <1>2, s \in Seq(S), ImageList
    <1>4. FlattenSeq(Images(h, s)) \in Seq(T)
        BY <1>1, <1>3, FlattenTyped
    <1> QED
        BY <1>4 DEF Joined

LEMMA JoinedAppend ==
    ASSUME NEW S, NEW T, NEW h, Lists(h, S, T), NEW s \in Seq(S), NEW x \in S
    PROVE  Joined(h, Append(s, x)) = Joined(h, s) \o h[x]
    <1> DEFINE image == Images(h, s)
    <1>1. PICK U : U = Seq(T)
        OBVIOUS
    <1>2. h \in [S -> U]
        BY <1>1 DEF Lists
    <1>3. /\ Images(h, s) \in Seq(U)
          /\ Images(h, Append(s, x)) = Append(Images(h, s), h[x])
        <2>1. Images(h, s) \in Seq(U)
            BY ONLY <1>2, s \in Seq(S), ImageList
        <2>2. Images(h, Append(s, x)) = Append(Images(h, s), h[x])
            BY ONLY <1>2, s \in Seq(S), x \in S, ImageAppend
        <2> QED
            BY <2>1, <2>2
    <1> HIDE DEF image
    <1>4. image \in Seq(Seq(T)) /\ h[x] \in Seq(T)
        BY <1>1, <1>3 DEF image, Lists
    <1>5. FlattenSeq(Append(image, h[x])) = FlattenSeq(image) \o h[x]
        BY <1>4, FlattenAppend
    <1>6. Joined(h, s) = FlattenSeq(image)
        BY DEF Joined, image
    <1>7. Images(h, Append(s, x)) = Append(image, h[x])
        BY <1>3 DEF image
    <1> QED
        BY <1>5, <1>6, <1>7 DEF Joined

LEMMA JoinedOne ==
    ASSUME NEW S, NEW T, NEW h, Lists(h, S, T), NEW x \in S
    PROVE  Joined(h, <<x>>) = h[x]
    <1>1. <<>> \in Seq(S) /\ Append(<<>>, x) = <<x>>
        OBVIOUS
    <1>2. Joined(h, Append(<<>>, x)) = Joined(h, <<>>) \o h[x]
        BY <1>1, JoinedAppend
    <1>3. h[x] \in Seq(T)
        BY DEF Lists
    <1> QED
        BY <1>1, <1>2, <1>3, JoinedEmpty, ConcatEmptySeq

LEMMA JoinedBoth ==
    ASSUME NEW S, NEW T, NEW h, Lists(h, S, T), NEW s \in Seq(S), NEW u \in Seq(S)
    PROVE  Joined(h, s \o u) = Joined(h, s) \o Joined(h, u)
    <1> DEFINE P == {t \in Seq(S) : Joined(h, s \o t) = Joined(h, s) \o Joined(h, t)}
    <1>1. <<>> \in P
        <2>1. s \o <<>> = s /\ <<>> \in Seq(S)
            BY ConcatEmptySeq, EmptySeq
        <2>2. Joined(h, s) \o <<>> = Joined(h, s)
            BY JoinedTyped, ConcatEmptySeq
        <2> QED
            BY <2>1, <2>2, JoinedEmpty
    <1>2. ASSUME NEW t \in P, NEW x \in S PROVE Append(t, x) \in P
        <2>1. Append(t, x) \in Seq(S)
            BY AppendProperties
        <2>2. s \o Append(t, x) = Append(s \o t, x)
            OBVIOUS
        <2>3. s \o t \in Seq(S)
            BY ConcatProperties
        <2>4. Joined(h, Append(s \o t, x)) = Joined(h, s \o t) \o h[x]
            <3>1. PICK r \in Seq(S) : r = s \o t
                BY <2>3
            <3>2. Joined(h, Append(r, x)) = Joined(h, r) \o h[x]
                BY ONLY Lists(h, S, T), r \in Seq(S), x \in S, JoinedAppend
            <3> QED
                BY <3>1, <3>2
        <2>5. Joined(h, Append(t, x)) = Joined(h, t) \o h[x]
            BY ONLY Lists(h, S, T), t \in Seq(S), x \in S, JoinedAppend
        <2>6. Joined(h, s) \in Seq(T) /\ Joined(h, t) \in Seq(T) /\ h[x] \in Seq(T)
            BY JoinedTyped DEF Lists
        <2>7. (Joined(h, s) \o Joined(h, t)) \o h[x] = Joined(h, s) \o (Joined(h, t) \o h[x])
            <3>1. PICK a, b, c : a = Joined(h, s) /\ b = Joined(h, t) /\ c = h[x]
                OBVIOUS
            <3>2. a \in Seq(T) /\ b \in Seq(T) /\ c \in Seq(T)
                BY <2>6, <3>1
            <3>3. (a \o b) \o c = a \o (b \o c)
                BY ONLY <3>2, ConcatAssociative
            <3> QED
                BY <3>1, <3>3
        <2> QED
            BY <2>1, <2>2, <2>4, <2>5, <2>7
    <1> HIDE DEF P
    <1>3. Seq(S) \subseteq P
        BY <1>1, <1>2, ListInduction
    <1> QED
        BY <1>3 DEF P

\* What is made of each member of a joined list, joined.
LEMMA JoinedTwice ==
    ASSUME NEW R, NEW S, NEW T, NEW g, NEW h, NEW k,
           Lists(g, R, S), Lists(h, S, T), Lists(k, R, T), After(k, h, g, R), NEW r \in Seq(R)
    PROVE  Joined(h, Joined(g, r)) = Joined(k, r)
    <1>0. ASSUME NEW a \in Seq(S), NEW b \in Seq(S)
          PROVE  Joined(h, a \o b) = Joined(h, a) \o Joined(h, b)
        BY JoinedBoth
    <1> DEFINE P == {s \in Seq(R) : Joined(h, Joined(g, s)) = Joined(k, s)}
    <1>1. <<>> \in P
        BY JoinedEmpty, EmptySeq
    <1>2. ASSUME NEW s \in P, NEW x \in R PROVE Append(s, x) \in P
        <2>1. Append(s, x) \in Seq(R)
            BY AppendProperties
        <2>2. Joined(g, Append(s, x)) = Joined(g, s) \o g[x]
            BY JoinedAppend
        <2>3. Joined(g, s) \in Seq(S) /\ g[x] \in Seq(S)
            BY JoinedTyped DEF Lists
        <2>4. Joined(h, Joined(g, s) \o g[x]) = Joined(h, Joined(g, s)) \o Joined(h, g[x])
            <3>1. PICK a, b : a = Joined(g, s) /\ b = g[x]
                OBVIOUS
            <3>2. a \in Seq(S) /\ b \in Seq(S)
                BY <2>3, <3>1
            <3> QED
                BY <1>0, <3>1, <3>2
        <2>5. Joined(k, Append(s, x)) = Joined(k, s) \o k[x]
            BY JoinedAppend
        <2> QED
            BY <2>1, <2>2, <2>4, <2>5 DEF After
    <1> HIDE DEF P
    <1>3. Seq(R) \subseteq P
        BY <1>1, <1>2, ListInduction
    <1> QED
        BY <1>3 DEF P

LEMMA JoinedAlike ==
    ASSUME NEW S, NEW s \in Seq(S), NEW h, NEW k, \A x \in S : h[x] = k[x]
    PROVE  Joined(h, s) = Joined(k, s)
    <1>1. \A i \in DOMAIN s : s[i] \in S
        BY LenProperties, ElementOfSeq
    <1>2. Images(h, s) = Images(k, s)
        BY <1>1 DEF Images
    <1> QED
        BY <1>2 DEF Joined

\* What is made of the images of the members is what is made of the members.
Alike(h, f, k, S) == \A x \in S : h[f[x]] = k[x]

LEMMA JoinedImages ==
    ASSUME NEW S, NEW f, NEW h, NEW k, Alike(h, f, k, S), NEW s \in Seq(S)
    PROVE  Joined(h, Images(f, s)) = Joined(k, s)
    <1>1. \A i \in DOMAIN s : s[i] \in S
        BY LenProperties, ElementOfSeq
    <1>2. DOMAIN Images(f, s) = DOMAIN s /\ \A i \in DOMAIN s : Images(f, s)[i] = f[s[i]]
        BY DEF Images
    <1>3. \A i \in DOMAIN s : h[Images(f, s)[i]] = k[s[i]]
        BY <1>1, <1>2 DEF Alike
    <1>4. Images(h, Images(f, s)) = Images(k, s)
        BY <1>2, <1>3 DEF Images
    <1> QED
        BY <1>4 DEF Joined
=================================================================================
