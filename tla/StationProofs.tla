----------------------------- MODULE StationProofs -----------------------------
(***************************************************************************)
(* Proofs about Station: its types, and that the cache of the settings is  *)
(* what a restart would read.                                              *)
(***************************************************************************)
EXTENDS Station, SequenceTheorems, TLAPS

\* What CacheTrue says of one key; a reload that is under way has yet to put the
\* overrides above its rows.
Sound(k) ==
    \/ copy # Unset /\ over[k] # Unset
    \/ cache[k] = over[k]
    \/ over[k] = Unset /\ cache[k] = row[k]
    \/ over[k] = Unset /\ row[k] = Unset /\ cache[k] = Default[k]

\* An update that has cached k and has yet to commit it.
Written(a, k) == upd[a].pc # "notify" /\ k \in Cached(a)

\* A handler: it runs in a server, and what it has passed was accepted.
HandlerInv ==
    /\ main = "new" => thread = "none"
    /\ \A a \in Admin :
        /\ upd[a] # Idle => thread \in {"serving", "draining"} /\ upd[a].list \in Lists
        /\ upd[a].pc \in {"get", "put"} => ~Through(a) /\ Current(a).value # Bad
        /\ \A i \in 1..upd[a].next - 1 : upd[a].list[i].value # Bad
        /\ upd[a].dirty \subseteq Cached(a)

\* No two updates are at a key that is not marked.
Apart(k) == \A a, b \in Admin : k \in Held(a) /\ k \in Held(b) => a = b

\* What an update has cached is what its commit will store.
Promised(a, k) ==
    upd[a].pc # "notify" =>
        \A i \in 1..upd[a].next - 1 : upd[a].list[i].key = k =>
            /\ over[k] = Unset /\ cache[k] = upd[a].list[i].value
            /\ k \in upd[a].dirty \/ row[k] = upd[a].list[i].value

\* The row an update compares with is the row that is stored.
Compared(a, k) == upd[a].pc = "put" /\ Current(a).key = k => upd[a].had = row[k]

KeyInv ==
    \A k \in Key \ unsaved :
        /\ Apart(k)
        /\ (\A a \in Admin : ~Written(a, k)) => Sound(k)
        /\ \A a \in Admin : Promised(a, k) /\ Compared(a, k)

StationInv == TypeOK /\ HandlerInv /\ KeyInv
-----------------------------------------------------------------------------
(***************************************************************************)
(* What the helpers return.                                                *)
(***************************************************************************)
LEMMA ListTyped ==
    ASSUME NEW l \in Lists
    PROVE  /\ Len(l) \in Nat \ {0} /\ DOMAIN l = 1..Len(l)
           /\ \A i \in 1..Len(l) : l[i].key \in Key /\ l[i].value \in Value \cup {Bad}
           /\ \A i, j \in 1..Len(l) : l[i].key = l[j].key => i = j
    <1> DEFINE S == [key : Key, value : Value \cup {Bad}]
    <1>1. /\ l \in Seq(S) /\ l # <<>>
          /\ \A i, j \in DOMAIN l : l[i].key = l[j].key => i = j
        BY StationAssumption
    <1>2. Len(l) \in Nat \ {0} /\ DOMAIN l = 1..Len(l) /\ \A i \in 1..Len(l) : l[i] \in S
        <2> HIDE DEF S
        <2> QED BY <1>1, EmptySeq, LenProperties, ElementOfSeq
    <1> QED
        BY <1>1, <1>2

LEMMA OverriddenTyped ==
    ASSUME TypeOK, NEW values \in [Key -> Value]
    PROVE  Overridden(values) \in [Key -> Value]
    BY DEF TypeOK, StationTypes, Overridden

LEMMA StoredTyped ==
    ASSUME NEW rows \in [Key -> Value \cup {Unset}], NEW k \in Key
    PROVE  Stored(rows, k) \in Value
    BY StationAssumption DEF Stored

LEMMA LoadedTyped ==
    ASSUME TypeOK, NEW rows \in [Key -> Value \cup {Unset}]
    PROVE  Loaded(rows) \in [Key -> Value]
    <1> DEFINE values == [k \in Key |-> Stored(rows, k)]
    <1>1. values \in [Key -> Value]
        BY StoredTyped
    <1> HIDE DEF values
    <1>2. Overridden(values) \in [Key -> Value]
        BY <1>1, OverriddenTyped
    <1> QED
        BY <1>2 DEF Loaded, values

LEMMA CurrentTyped ==
    ASSUME TypeOK, NEW a \in Admin, ~Through(a)
    PROVE  /\ upd[a].list \in Lists /\ upd[a].next \in 1..Len(upd[a].list)
           /\ Current(a).key \in Key /\ Current(a).value \in Value \cup {Bad}
    <1>1. /\ upd[a].list \in Lists \cup {<<>>} /\ upd[a].next \in 1..Len(upd[a].list) + 1
          /\ ~(upd[a].next > Len(upd[a].list))
        BY DEF TypeOK, StationTypes, Update, Through
    <1>2. upd[a].list # <<>>
        BY <1>1
    <1>3. upd[a].list \in Lists
        BY <1>1, <1>2
    <1> QED
        BY <1>1, <1>3, ListTyped DEF Current

LEMMA IdleTyped == Idle \in Update
    BY DEF Idle, Update
-----------------------------------------------------------------------------
\* What the steps of a handler make of its update.
Others(a) == \A b \in Admin : b # a => upd'[b] = upd[b]

LEMMA OpenShape ==
    ASSUME TypeOK, NEW a \in Admin, NEW l \in Lists, Open(a, l)
    PROVE  /\ upd' \in [Admin -> Update] /\ Others(a)
           /\ upd'[a].pc = "look" /\ upd'[a].list = l /\ upd'[a].next = 1
           /\ upd'[a].dirty = {}
    <1> DEFINE u == [upd[a] EXCEPT !.pc = "look", !.list = l]
    <1>1. upd \in [Admin -> Update] /\ upd[a] = Idle /\ upd' = [upd EXCEPT ![a] = u]
        BY DEF TypeOK, StationTypes, Open
    <1>2. /\ u \in Update /\ u.pc = "look" /\ u.list = l /\ u.next = 1
          /\ u.dirty = {}
        <2>1. upd[a] \in Update /\ upd[a].next = 1 /\ upd[a].dirty = {}
            BY <1>1, IdleTyped DEF Idle
        <2> QED
            BY <2>1 DEF Update
    <1> HIDE DEF u
    <1> QED
        BY <1>1, <1>2 DEF Others

LEMMA LookShape ==
    ASSUME TypeOK, NEW a \in Admin, Look(a)
    PROVE  /\ upd' \in [Admin -> Update] /\ Others(a)
           /\ upd'[a].pc = "get" /\ upd'[a].list = upd[a].list
           /\ upd'[a].next = upd[a].next /\ upd'[a].dirty = upd[a].dirty
    <1> DEFINE k == Current(a).key
               u == [upd[a] EXCEPT !.pc = "get", !.old = cache[k],
                                   !.shadow = over[k] # Unset]
    <1>1. /\ upd \in [Admin -> Update] /\ cache[k] \in Value
          /\ upd' = [upd EXCEPT ![a] = u]
        BY CurrentTyped DEF TypeOK, StationTypes, Look
    <1>2. /\ u \in Update /\ u.pc = "get" /\ u.list = upd[a].list
          /\ u.next = upd[a].next /\ u.dirty = upd[a].dirty
        <2> HIDE DEF k
        <2>1. upd[a] \in Update
            BY <1>1
        <2> QED
            BY <1>1, <2>1 DEF Update
    <1> HIDE DEF u
    <1> QED
        BY <1>1, <1>2 DEF Others

LEMMA GetShape ==
    ASSUME TypeOK, NEW a \in Admin, ~Through(a), Get(a)
    PROVE  /\ upd' \in [Admin -> Update] /\ Others(a)
           /\ upd'[a].pc = "put" /\ upd'[a].list = upd[a].list
           /\ upd'[a].next = upd[a].next /\ upd'[a].dirty = upd[a].dirty
           /\ upd'[a].had = row[Current(a).key]
    <1> DEFINE k == Current(a).key
               u == [upd[a] EXCEPT !.pc = "put", !.had = row[k]]
    <1>1. /\ upd \in [Admin -> Update] /\ row[k] \in Value \cup {Unset}
          /\ upd' = [upd EXCEPT ![a] = u]
        BY CurrentTyped DEF TypeOK, StationTypes, Get
    <1>2. /\ u \in Update /\ u.pc = "put" /\ u.list = upd[a].list
          /\ u.next = upd[a].next /\ u.dirty = upd[a].dirty /\ u.had = row[k]
        <2> HIDE DEF k
        <2>1. upd[a] \in Update
            BY <1>1
        <2> QED
            BY <1>1, <2>1 DEF Update
    <1> HIDE DEF u
    <1> QED
        BY <1>1, <1>2 DEF Others

LEMMA StepShape ==
    ASSUME TypeOK, NEW a \in Admin, ~Through(a), NEW differs, Step(a, differs)
    PROVE  /\ upd' \in [Admin -> Update] /\ Others(a)
           /\ upd'[a].pc = "look" /\ upd'[a].list = upd[a].list
           /\ upd'[a].next = upd[a].next + 1
           /\ upd'[a].dirty = upd[a].dirty
                 \cup {d \in {Current(a).key} : upd[a].had # Current(a).value}
    <1> DEFINE k == Current(a).key
               D == upd[a].dirty \cup {d \in {k} : upd[a].had # Current(a).value}
               C == upd[a].changed \cup {c \in {k} : differs}
               u == [upd[a] EXCEPT !.pc = "look", !.next = upd[a].next + 1, !.old = Unset,
                                   !.shadow = FALSE, !.had = Unset, !.dirty = D,
                                   !.changed = C]
    <1>1. upd \in [Admin -> Update] /\ upd' = [upd EXCEPT ![a] = u] /\ k \in Key
        <2>1. k \in Key
            BY CurrentTyped
        <2>2. upd \in [Admin -> Update]
            BY DEF TypeOK, StationTypes
        <2>3. upd' = [upd EXCEPT ![a] = u]
            BY <2>2 DEF Step
        <2> QED
            BY <2>1, <2>2, <2>3
    <1>2. upd[a] \in Update
        BY <1>1
    <1>3. D \in SUBSET Key /\ C \in SUBSET Key
        BY <1>1, <1>2 DEF Update
    <1>4. /\ u \in Update /\ u.pc = "look" /\ u.list = upd[a].list
          /\ u.next = upd[a].next + 1 /\ u.dirty = D
        <2> HIDE DEF D, C
        <2>1. upd[a].next + 1 \in Nat
            BY <1>2 DEF Update
        <2> QED
            BY <1>2, <1>3, <2>1 DEF Update
    <1> HIDE DEF u
    <1> QED
        BY <1>1, <1>4 DEF Others

LEMMA CommitShape ==
    ASSUME TypeOK, NEW a \in Admin, Commit(a)
    PROVE  /\ upd' \in [Admin -> Update] /\ Others(a)
           /\ upd'[a].pc = "notify" /\ upd'[a].list = upd[a].list
           /\ upd'[a].next = upd[a].next /\ upd'[a].dirty = upd[a].dirty
    <1> DEFINE u == [upd[a] EXCEPT !.pc = "notify"]
    <1>1. upd \in [Admin -> Update] /\ upd' = [upd EXCEPT ![a] = u]
        BY DEF TypeOK, StationTypes, Commit
    <1>2. /\ u \in Update /\ u.pc = "notify" /\ u.list = upd[a].list
          /\ u.next = upd[a].next /\ u.dirty = upd[a].dirty
        BY <1>1 DEF Update
    <1> HIDE DEF u
    <1> QED
        BY <1>1, <1>2 DEF Others

LEMMA EndShape ==
    ASSUME TypeOK, NEW a \in Admin, upd' = [upd EXCEPT ![a] = Idle]
    PROVE  upd' \in [Admin -> Update] /\ Others(a) /\ upd'[a] = Idle
    BY IdleTyped DEF TypeOK, StationTypes, Others
-----------------------------------------------------------------------------
(***************************************************************************)
(* What an update is at.                                                   *)
(***************************************************************************)
LEMMA HeldIsKeys ==
    ASSUME TypeOK, HandlerInv, NEW a \in Admin
    PROVE  /\ Cached(a) \subseteq Key /\ upd[a].next \in Nat \ {0}
           /\ upd[a].pc # "notify" => Cached(a) \subseteq Held(a)
           /\ upd[a].pc \in {"get", "put"} => Current(a).key \in Held(a)
           /\ upd[a] = Idle => Cached(a) = {} /\ Held(a) = {}
    <1>1. /\ upd[a].next \in 1..Len(upd[a].list) + 1
          /\ upd[a] # Idle => upd[a].list \in Lists
          /\ upd[a].pc \in {"get", "put"} => ~Through(a)
        BY DEF TypeOK, StationTypes, HandlerInv
    <1>2. Len(upd[a].list) \in Nat
        BY <1>1, ListTyped, EmptySeq DEF Idle
    <1>3. upd[a] = Idle => Cached(a) = {} /\ Held(a) = {}
        BY DEF Idle, Cached, Held
    <1>4. Cached(a) \subseteq Key
        <2>1. CASE upd[a] = Idle
            BY <2>1, <1>3
        <2>2. CASE upd[a] # Idle
            BY <2>2, <1>1, <1>2, ListTyped DEF Cached
        <2> QED
            BY <2>1, <2>2
    <1>5. upd[a].pc \in {"get", "put"} => Current(a).key \in Key
        BY <1>1, CurrentTyped
    <1> QED
        BY <1>1, <1>2, <1>3, <1>4, <1>5 DEF Held

\* The other updates stay where they are.
LEMMA OthersKeep ==
    ASSUME NEW a \in Admin, NEW b \in Admin, b # a, Others(a), NEW k
    PROVE  /\ Cached(b)' = Cached(b) /\ Held(b)' = Held(b)
           /\ Through(b)' = Through(b) /\ Current(b)' = Current(b)
           /\ Written(b, k)' = Written(b, k)
    BY DEF Others, Cached, Held, Through, Current, Written

\* What of the other updates a step keeps that leaves a key alone.
LEMMA PromiseKept ==
    ASSUME NEW b \in Admin, NEW k \in Key, upd'[b] = upd[b],
           row'[k] = row[k], over'[k] = over[k], cache'[k] = cache[k],
           Promised(b, k), Compared(b, k)
    PROVE  Promised(b, k)' /\ Compared(b, k)'
    BY DEF Promised, Compared, Current

\* Nothing is said of an update that does not hold the key.
LEMMA NotHeldVacuous ==
    ASSUME TypeOK, HandlerInv, NEW b \in Admin, NEW k \in Key, k \notin Held(b)
    PROVE  /\ ~Written(b, k) /\ Promised(b, k) /\ Compared(b, k)
           /\ upd'[b] = upd[b] => Promised(b, k)' /\ Compared(b, k)'
    <1>1. upd[b].pc # "notify" => k \notin Cached(b)
        BY HeldIsKeys
    <1>2. upd[b].pc = "put" => Current(b).key # k
        BY HeldIsKeys
    <1> QED
        BY <1>1, <1>2 DEF Written, Promised, Compared, Cached, Current

\* A step that leaves the stored and the cached values alone, and ends an
\* update or begins one.
LEMMA Quietens ==
    ASSUME StationInv, NEW a \in Admin, Others(a), UNCHANGED <<row, over, cache, copy>>,
           upd'[a].next = 1, upd'[a].pc \in {"idle", "look"},
           unsaved \subseteq unsaved', \A k \in Key \ unsaved' : ~Written(a, k)
    PROVE  KeyInv'
    <1>1. /\ Cached(a)' = {} /\ Held(a)' = {}
        BY DEF Cached, Held
    <1> SUFFICES ASSUME NEW k \in Key, k \notin unsaved'
                 PROVE  /\ Apart(k)'
                        /\ (\A b \in Admin : ~Written(b, k)') => Sound(k)'
                        /\ \A b \in Admin : Promised(b, k)' /\ Compared(b, k)'
        BY DEF KeyInv
    <1>2. k \notin unsaved /\ ~Written(a, k)
        OBVIOUS
    <1>3. /\ Apart(k)
          /\ (\A b \in Admin : ~Written(b, k)) => Sound(k)
          /\ \A b \in Admin : Promised(b, k) /\ Compared(b, k)
        BY <1>2 DEF StationInv, KeyInv
    <1>4. Apart(k)'
        BY <1>1, <1>3, OthersKeep DEF Apart
    <1>5. (\A b \in Admin : ~Written(b, k)') => Sound(k)'
        <2>1. Sound(k)' <=> Sound(k)
            BY DEF Sound
        <2>2. \A b \in Admin \ {a} : Written(b, k)' = Written(b, k)
            BY OthersKeep
        <2> QED
            BY <2>1, <2>2, <1>2, <1>3
    <1>6. Promised(a, k)' /\ Compared(a, k)'
        BY DEF Promised, Compared
    <1>7. ASSUME NEW b \in Admin, b # a
          PROVE  Promised(b, k)' /\ Compared(b, k)'
        BY <1>3, <1>7, PromiseKept DEF Others
    <1> QED
        BY <1>4, <1>5, <1>6, <1>7
-----------------------------------------------------------------------------
(***************************************************************************)
(* KeyInv, action by action.                                               *)
(***************************************************************************)
LEMMA OpenKeys ==
    ASSUME StationInv, NEW a \in Admin, NEW l \in Lists, Open(a, l)
    PROVE  KeyInv'
    <1>1. /\ Others(a) /\ upd'[a].next = 1 /\ upd'[a].pc = "look"
        BY OpenShape DEF StationInv
    <1>2. UNCHANGED <<row, over, cache, copy, unsaved>> /\ upd[a] = Idle
        BY DEF Open
    <1>3. \A k \in Key : ~Written(a, k)
        BY <1>2, HeldIsKeys DEF Written, StationInv
    <1> QED
        BY <1>1, <1>2, <1>3, Quietens

LEMMA AbandonKeys ==
    ASSUME StationInv, NEW a \in Admin, Abandon(a)
    PROVE  KeyInv'
    <1>1. Others(a) /\ upd'[a].next = 1 /\ upd'[a].pc = "idle"
        BY EndShape DEF StationInv, Abandon, Idle
    <1>2. UNCHANGED <<row, over, cache, copy>> /\ unsaved' = unsaved \cup Cached(a)
        BY DEF Abandon
    <1>3. \A k \in Key \ unsaved' : ~Written(a, k)
        BY <1>2 DEF Written
    <1> QED
        BY <1>1, <1>2, <1>3, Quietens

LEMMA NotifyKeys ==
    ASSUME StationInv, NEW a \in Admin, Notify(a)
    PROVE  KeyInv'
    <1>1. Others(a) /\ upd'[a].next = 1 /\ upd'[a].pc = "idle"
        BY EndShape DEF StationInv, Notify, Idle
    <1>2. UNCHANGED <<row, over, cache, copy, unsaved>> /\ upd[a].pc = "notify"
        BY DEF Notify
    <1>3. \A k \in Key \ unsaved' : ~Written(a, k)
        BY <1>2 DEF Written
    <1> QED
        BY <1>1, <1>2, <1>3, Quietens

\* A look at a key that another update holds marks it.
LEMMA LookKeys ==
    ASSUME StationInv, NEW a \in Admin, Look(a)
    PROVE  KeyInv'
    <1> DEFINE k0 == Current(a).key
    <1>1. /\ Others(a) /\ upd'[a].pc = "get" /\ upd'[a].list = upd[a].list
          /\ upd'[a].next = upd[a].next /\ upd'[a].dirty = upd[a].dirty
        BY LookShape DEF StationInv
    <1>2. /\ UNCHANGED <<row, over, cache, copy>> /\ upd[a].pc = "look" /\ unsaved \subseteq unsaved'
          /\ (\E b \in Admin \ {a} : k0 \in Held(b)) => k0 \in unsaved'
        BY DEF Look
    <1>3. /\ Cached(a)' = Cached(a) /\ Held(a)' \subseteq Held(a) \cup {k0}
          /\ \A k : Written(a, k)' = Written(a, k)
        BY <1>1, <1>2 DEF Cached, Held, Written, Current
    <1> SUFFICES ASSUME NEW k \in Key, k \notin unsaved'
                 PROVE  /\ Apart(k)'
                        /\ (\A b \in Admin : ~Written(b, k)') => Sound(k)'
                        /\ \A b \in Admin : Promised(b, k)' /\ Compared(b, k)'
        BY DEF KeyInv
    <1>4. /\ Apart(k)
          /\ (\A b \in Admin : ~Written(b, k)) => Sound(k)
          /\ \A b \in Admin : Promised(b, k) /\ Compared(b, k)
        BY <1>2 DEF StationInv, KeyInv
    <1>5. Apart(k)'
        <2>1. \A b \in Admin \ {a} : Held(b)' = Held(b)
            BY <1>1, OthersKeep
        <2>2. k = k0 => \A b \in Admin \ {a} : k \notin Held(b)
            BY <1>2
        <2> QED
            BY <2>1, <2>2, <1>3, <1>4 DEF Apart
    <1>6. (\A b \in Admin : ~Written(b, k)') => Sound(k)'
        <2>1. Sound(k)' <=> Sound(k)
            BY <1>2 DEF Sound
        <2>2. \A b \in Admin : Written(b, k)' = Written(b, k)
            BY <1>1, <1>3, OthersKeep
        <2> QED
            BY <2>1, <2>2, <1>4
    <1>7. Promised(a, k)' /\ Compared(a, k)'
        BY <1>1, <1>2, <1>4 DEF Promised, Compared
    <1>8. ASSUME NEW b \in Admin, b # a
          PROVE  Promised(b, k)' /\ Compared(b, k)'
        BY <1>1, <1>2, <1>4, <1>8, PromiseKept DEF Others
    <1> QED
        BY <1>5, <1>6, <1>7, <1>8

LEMMA GetKeys ==
    ASSUME StationInv, NEW a \in Admin, Get(a)
    PROVE  KeyInv'
    <1>1. /\ Others(a) /\ upd'[a].pc = "put" /\ upd'[a].list = upd[a].list
          /\ upd'[a].next = upd[a].next /\ upd'[a].dirty = upd[a].dirty
          /\ upd'[a].had = row[Current(a).key]
        <2>1. upd[a].pc = "get" /\ ~Through(a)
            BY DEF Get, StationInv, HandlerInv
        <2> QED
            BY <2>1, GetShape DEF StationInv
    <1>2. /\ UNCHANGED <<row, over, cache, copy, unsaved>> /\ upd[a].pc = "get"
        BY DEF Get
    <1>3. /\ Cached(a)' = Cached(a) /\ Held(a)' = Held(a)
          /\ \A k : Written(a, k)' = Written(a, k)
        BY <1>1, <1>2 DEF Cached, Held, Written, Current
    <1> SUFFICES ASSUME NEW k \in Key, k \notin unsaved
                 PROVE  /\ Apart(k)'
                        /\ (\A b \in Admin : ~Written(b, k)') => Sound(k)'
                        /\ \A b \in Admin : Promised(b, k)' /\ Compared(b, k)'
        BY <1>2 DEF KeyInv
    <1>4. /\ Apart(k)
          /\ (\A b \in Admin : ~Written(b, k)) => Sound(k)
          /\ \A b \in Admin : Promised(b, k) /\ Compared(b, k)
        BY DEF StationInv, KeyInv
    <1>5. Apart(k)'
        BY <1>1, <1>3, <1>4, OthersKeep DEF Apart
    <1>6. (\A b \in Admin : ~Written(b, k)') => Sound(k)'
        <2>1. Sound(k)' <=> Sound(k)
            BY <1>2 DEF Sound
        <2>2. \A b \in Admin : Written(b, k)' = Written(b, k)
            BY <1>1, <1>3, OthersKeep
        <2> QED
            BY <2>1, <2>2, <1>4
    <1>7. Promised(a, k)' /\ Compared(a, k)'
        BY <1>1, <1>2, <1>4 DEF Promised, Compared, Current
    <1>8. ASSUME NEW b \in Admin, b # a
          PROVE  Promised(b, k)' /\ Compared(b, k)'
        BY <1>1, <1>2, <1>4, <1>8, PromiseKept DEF Others
    <1> QED
        BY <1>5, <1>6, <1>7, <1>8
-----------------------------------------------------------------------------
\* The key an update caches is its own from then on, until it commits.
LEMMA PutKeys ==
    ASSUME StationInv, NEW a \in Admin, Put(a)
    PROVE  KeyInv'
    <1> DEFINE k0 == Current(a).key
               v  == Current(a).value
               n  == upd[a].next
    <1>1. /\ upd[a].pc = "put" /\ UNCHANGED <<row, copy, unsaved>>
          /\ cache' = [cache EXCEPT ![k0] = v] /\ over' = [over EXCEPT ![k0] = Unset]
        BY DEF Put
    <1>2. /\ upd[a].list \in Lists /\ n \in 1..Len(upd[a].list) /\ k0 \in Key
          /\ ~Through(a)
        BY <1>1, CurrentTyped DEF StationInv, HandlerInv
    <1>3. /\ Others(a) /\ upd'[a].pc = "look" /\ upd'[a].list = upd[a].list
          /\ upd'[a].next = n + 1
          /\ upd'[a].dirty = upd[a].dirty \cup {d \in {k0} : upd[a].had # v}
        BY <1>2, StepShape DEF StationInv, Put
    <1>4. Len(upd[a].list) \in Nat /\ n \in Nat \ {0}
        BY <1>2, ListTyped
    <1>5. /\ Cached(a)' = Cached(a) \cup {k0} /\ Held(a)' = Held(a) /\ k0 \in Held(a)
        BY <1>1, <1>2, <1>3, <1>4 DEF Cached, Held, Current
    <1>6. cache'[k0] = v /\ over'[k0] = Unset
        BY <1>1, <1>2 DEF StationInv, TypeOK, StationTypes
    <1> SUFFICES ASSUME NEW k \in Key, k \notin unsaved
                 PROVE  /\ Apart(k)'
                        /\ (\A b \in Admin : ~Written(b, k)') => Sound(k)'
                        /\ \A b \in Admin : Promised(b, k)' /\ Compared(b, k)'
        BY <1>1 DEF KeyInv
    <1>7. /\ Apart(k)
          /\ (\A b \in Admin : ~Written(b, k)) => Sound(k)
          /\ \A b \in Admin : Promised(b, k) /\ Compared(b, k)
        BY DEF StationInv, KeyInv
    <1>8. Apart(k)'
        BY <1>3, <1>5, <1>7, OthersKeep DEF Apart
    <1>9. CASE k = k0
        <2>1. Written(a, k)'
            BY <1>3, <1>5, <1>9 DEF Written
        <2>2. Promised(a, k)'
            <3>1. \A i \in 1..n : upd[a].list[i].key = k0 => i = n
                BY <1>2, <1>4, ListTyped DEF Current
            <3>2. k0 \in upd'[a].dirty \/ row'[k0] = v
                BY <1>1, <1>3, <1>7, <1>9 DEF Compared
            <3>3. upd'[a].next - 1 = n /\ upd'[a].list = upd[a].list
                BY <1>3, <1>4
            <3>4. ASSUME NEW i \in 1..n, upd[a].list[i].key = k
                  PROVE  /\ over'[k] = Unset /\ cache'[k] = upd[a].list[i].value
                         /\ k \in upd'[a].dirty \/ row'[k] = upd[a].list[i].value
                <4>1. i = n
                    BY <1>9, <3>1, <3>4
                <4>2. upd[a].list[i].value = v
                    BY <4>1 DEF Current
                <4> QED
                    BY <1>6, <1>9, <3>2, <4>2
            <3> QED
                BY <3>3, <3>4 DEF Promised
        <2>3. Compared(a, k)'
            BY <1>3 DEF Compared
        <2>4. ASSUME NEW b \in Admin, b # a
              PROVE  Promised(b, k)' /\ Compared(b, k)'
            <3>1. k \notin Held(b)
                BY <1>5, <1>7, <1>9, <2>4 DEF Apart
            <3> QED
                BY <1>3, <2>4, <3>1, NotHeldVacuous DEF Others, StationInv
        <2> QED
            BY <1>8, <2>1, <2>2, <2>3, <2>4
    <1>10. CASE k # k0
        <2>1. cache'[k] = cache[k] /\ over'[k] = over[k] /\ row'[k] = row[k]
            BY <1>1, <1>10 DEF StationInv, TypeOK, StationTypes
        <2>2. (\A b \in Admin : ~Written(b, k)') => Sound(k)'
            <3>1. Sound(k)' <=> Sound(k)
                BY <1>1, <2>1 DEF Sound
            <3>2. \A b \in Admin : Written(b, k)' <=> Written(b, k)
                <4>1. Written(a, k)' <=> Written(a, k)
                    BY <1>1, <1>3, <1>5, <1>10 DEF Written
                <4> QED
                    BY <4>1, <1>3, OthersKeep
            <3> QED
                BY <3>1, <3>2, <1>7
        <2>3. Promised(a, k)'
            <3>1. upd[a].list[n].key # k
                BY <1>10 DEF Current
            <3> QED
                BY <1>1, <1>3, <1>4, <1>7, <2>1, <3>1 DEF Promised
        <2>4. Compared(a, k)'
            BY <1>3 DEF Compared
        <2>5. ASSUME NEW b \in Admin, b # a
              PROVE  Promised(b, k)' /\ Compared(b, k)'
            BY <1>3, <1>7, <2>1, <2>5, PromiseKept DEF Others
        <2> QED
            BY <1>8, <2>2, <2>3, <2>4, <2>5
    <1> QED
        BY <1>9, <1>10

\* An override that a reload puts in place speaks of no key an update has cached.
LEMMA CoverKept ==
    ASSUME NEW b \in Admin, NEW k \in Key, upd'[b] = upd[b],
           row'[k] = row[k], over'[k] = over[k],
           cache'[k] = IF over[k] # Unset THEN over[k] ELSE cache[k],
           Promised(b, k), Compared(b, k)
    PROVE  Promised(b, k)' /\ Compared(b, k)'
    BY DEF Promised, Compared, Current

LEMMA PutCoveredKeys ==
    ASSUME StationInv, NEW a \in Admin, PutCovered(a)
    PROVE  KeyInv'
    <1> DEFINE k0 == Current(a).key
               n  == upd[a].next
    <1>1. /\ upd[a].pc = "put" /\ row' = row /\ unsaved' = unsaved \cup {k0}
          /\ cache' = Overridden([cache EXCEPT ![k0] = Current(a).value])
          /\ over' = [over EXCEPT ![k0] = Unset]
        BY DEF PutCovered
    <1>2. /\ upd[a].list \in Lists /\ n \in 1..Len(upd[a].list) /\ k0 \in Key
          /\ ~Through(a)
        BY <1>1, CurrentTyped DEF StationInv, HandlerInv
    <1>3. /\ Others(a) /\ upd'[a].pc = "look" /\ upd'[a].list = upd[a].list
          /\ upd'[a].next = n + 1 /\ upd[a].dirty \subseteq upd'[a].dirty
        BY <1>2, StepShape DEF StationInv, PutCovered
    <1>4. Len(upd[a].list) \in Nat /\ n \in Nat \ {0}
        BY <1>2, ListTyped
    <1>5. /\ Cached(a)' = Cached(a) \cup {k0} /\ Held(a)' = Held(a) /\ k0 \in Held(a)
        <2>1. Cached(a)' = {upd[a].list[i].key : i \in 1..n}
            BY <1>3, <1>4 DEF Cached
        <2>2. Cached(a)' = Cached(a) \cup {k0}
            <3>1. 1..n = (1..n - 1) \cup {n}
                BY <1>4
            <3>2. Cached(a) = {upd[a].list[i].key : i \in 1..n - 1}
                BY DEF Cached
            <3>3. k0 = upd[a].list[n].key
                BY DEF Current
            <3> QED
                BY <2>1, <3>1, <3>2, <3>3
        <2>3. Held(a) = Cached(a) \cup {k0}
            BY <1>1, <1>2 DEF Held
        <2>4. Held(a)' = Cached(a)'
            BY <1>3 DEF Held
        <2> QED
            BY <2>2, <2>3, <2>4
    <1> SUFFICES ASSUME NEW k \in Key, k \notin unsaved, k # k0
                 PROVE  /\ Apart(k)'
                        /\ (\A b \in Admin : ~Written(b, k)') => Sound(k)'
                        /\ \A b \in Admin : Promised(b, k)' /\ Compared(b, k)'
        BY <1>1 DEF KeyInv
    <1>6. /\ Apart(k)
          /\ (\A b \in Admin : ~Written(b, k)) => Sound(k)
          /\ \A b \in Admin : Promised(b, k) /\ Compared(b, k)
        BY DEF StationInv, KeyInv
    <1>7. Apart(k)'
        BY <1>3, <1>5, <1>6, OthersKeep DEF Apart
    <1>8. /\ over'[k] = over[k] /\ row'[k] = row[k]
          /\ cache'[k] = IF over[k] # Unset THEN over[k] ELSE cache[k]
        BY <1>1 DEF Overridden, StationInv, TypeOK, StationTypes
    <1>9. (\A b \in Admin : ~Written(b, k)') => Sound(k)'
        <2>1. Sound(k) => Sound(k)'
            BY <1>8 DEF Sound
        <2>2. \A b \in Admin : Written(b, k)' <=> Written(b, k)
            <3>1. Written(a, k)' <=> Written(a, k)
                BY <1>1, <1>3, <1>5 DEF Written
            <3> QED
                BY <3>1, <1>3, OthersKeep
        <2> QED
            BY <2>1, <2>2, <1>6
    <1>10. Promised(a, k)'
        <2>1. upd[a].list[n].key # k /\ upd'[a].next - 1 = n
            BY <1>3, <1>4 DEF Current
        <2>2. ASSUME NEW i \in 1..n, upd[a].list[i].key = k
              PROVE  /\ over'[k] = Unset /\ cache'[k] = upd[a].list[i].value
                     /\ k \in upd'[a].dirty \/ row'[k] = upd[a].list[i].value
            <3>1. i \in 1..n - 1
                BY <1>4, <2>1, <2>2
            <3>2. /\ over[k] = Unset /\ cache[k] = upd[a].list[i].value
                  /\ k \in upd[a].dirty \/ row[k] = upd[a].list[i].value
                BY <1>1, <1>6, <2>2, <3>1 DEF Promised
            <3> QED
                BY <1>3, <1>8, <3>2
        <2> QED
            BY <1>3, <2>1, <2>2 DEF Promised
    <1>11. Compared(a, k)'
        BY <1>3 DEF Compared
    <1>12. ASSUME NEW b \in Admin, b # a
           PROVE  Promised(b, k)' /\ Compared(b, k)'
        BY <1>3, <1>6, <1>8, <1>12, CoverKept DEF Others
    <1> QED
        BY <1>7, <1>9, <1>10, <1>11, <1>12

\* What the update has cached is stored, unless the row holds it already.
LEMMA CommitKeys ==
    ASSUME StationInv, NEW a \in Admin, Commit(a)
    PROVE  KeyInv'
    <1>1. /\ upd[a].pc = "look" /\ UNCHANGED <<over, cache, copy, unsaved>>
          /\ row' = [k \in Key |->
                      IF k \in upd[a].dirty
                      THEN (CHOOSE c \in Range(upd[a].list) : c.key = k).value
                      ELSE row[k]]
        BY DEF Commit
    <1>2. /\ Others(a) /\ upd'[a].pc = "notify" /\ Held(a)' = {}
        BY CommitShape DEF StationInv, Held
    <1>3. upd[a].list \in Lists
        BY <1>1 DEF StationInv, HandlerInv, Idle
    <1>4. /\ upd[a].dirty \subseteq Cached(a) /\ Cached(a) \subseteq Held(a)
        BY <1>1, HeldIsKeys DEF StationInv, HandlerInv
    <1>5. upd[a].next - 1 \in 0..Len(upd[a].list) /\ Len(upd[a].list) \in Nat
        BY <1>3, ListTyped DEF StationInv, TypeOK, StationTypes
    <1> SUFFICES ASSUME NEW k \in Key, k \notin unsaved
                 PROVE  /\ Apart(k)'
                        /\ (\A b \in Admin : ~Written(b, k)') => Sound(k)'
                        /\ \A b \in Admin : Promised(b, k)' /\ Compared(b, k)'
        BY <1>1 DEF KeyInv
    <1>6. /\ Apart(k)
          /\ (\A b \in Admin : ~Written(b, k)) => Sound(k)
          /\ \A b \in Admin : Promised(b, k) /\ Compared(b, k)
        BY DEF StationInv, KeyInv
    <1>7. Apart(k)'
        BY <1>2, <1>6, OthersKeep DEF Apart
    <1>8. ~Written(a, k)' /\ Promised(a, k)' /\ Compared(a, k)'
        BY <1>2 DEF Written, Promised, Compared
    <1>9. CASE k \in Cached(a)
        <2>1. PICK i \in 1..upd[a].next - 1 : upd[a].list[i].key = k
            BY <1>9 DEF Cached
        <2>2. /\ over[k] = Unset /\ cache[k] = upd[a].list[i].value
              /\ k \in upd[a].dirty \/ row[k] = upd[a].list[i].value
            BY <1>1, <1>6, <2>1 DEF Promised
        <2>3. k \in upd[a].dirty => row'[k] = upd[a].list[i].value
            <3>1. i \in 1..Len(upd[a].list) /\ DOMAIN upd[a].list = 1..Len(upd[a].list)
                BY <1>3, <1>5, <2>1, ListTyped
            <3>2. upd[a].list[i] \in Range(upd[a].list)
                BY <3>1 DEF Range
            <3>3. \A c \in Range(upd[a].list) : c.key = k => c = upd[a].list[i]
                BY <1>3, <2>1, <3>1, ListTyped DEF Range
            <3>4. (CHOOSE c \in Range(upd[a].list) : c.key = k) = upd[a].list[i]
                BY <2>1, <3>2, <3>3
            <3> QED
                BY <1>1, <3>4
        <2>4. Sound(k)'
            BY <1>1, <2>2, <2>3 DEF Sound
        <2>5. ASSUME NEW b \in Admin, b # a
              PROVE  Promised(b, k)' /\ Compared(b, k)'
            <3>1. k \notin Held(b)
                BY <1>4, <1>6, <1>9, <2>5 DEF Apart
            <3> QED
                BY <1>2, <2>5, <3>1, NotHeldVacuous DEF Others, StationInv
        <2> QED
            BY <1>7, <1>8, <2>4, <2>5
    <1>10. CASE k \notin Cached(a)
        <2>1. cache'[k] = cache[k] /\ over'[k] = over[k] /\ row'[k] = row[k]
            BY <1>1, <1>4, <1>10
        <2>2. (\A b \in Admin : ~Written(b, k)') => Sound(k)'
            <3>1. Sound(k)' <=> Sound(k)
                BY <1>1, <2>1 DEF Sound
            <3>2. ~Written(a, k) /\ \A b \in Admin \ {a} : Written(b, k)' = Written(b, k)
                BY <1>2, <1>10, OthersKeep DEF Written
            <3> QED
                BY <3>1, <3>2, <1>6
        <2>3. ASSUME NEW b \in Admin, b # a
              PROVE  Promised(b, k)' /\ Compared(b, k)'
            BY <1>2, <1>6, <2>1, <2>3, PromiseKept DEF Others
        <2> QED
            BY <1>7, <1>8, <2>2, <2>3
    <1> QED
        BY <1>9, <1>10
-----------------------------------------------------------------------------
LEMMA ReloadReadsKeys ==
    ASSUME StationInv, ReloadReads
    PROVE  KeyInv'
    <1>1. UNCHANGED <<row, over, cache, upd, unsaved>> /\ copy = Unset
        BY DEF ReloadReads
    <1> SUFFICES ASSUME NEW k \in Key, k \notin unsaved
                 PROVE  /\ Apart(k)'
                        /\ (\A b \in Admin : ~Written(b, k)') => Sound(k)'
                        /\ \A b \in Admin : Promised(b, k)' /\ Compared(b, k)'
        BY <1>1 DEF KeyInv
    <1>2. /\ Apart(k)
          /\ (\A b \in Admin : ~Written(b, k)) => Sound(k)
          /\ \A b \in Admin : Promised(b, k) /\ Compared(b, k)
        BY DEF StationInv, KeyInv
    <1>3. Sound(k) => Sound(k)'
        BY <1>1 DEF Sound
    <1> QED
        BY <1>1, <1>2, <1>3 DEF Apart, Held, Cached, Current, Written, Promised, Compared

LEMMA ReloadPutsKeys ==
    ASSUME StationInv, NEW k0 \in Key, ReloadPuts(k0)
    PROVE  KeyInv'
    <1> DEFINE behind == copy[k0] # row[k0] \/ \E a \in Admin : k0 \in Held(a)
    <1>1. /\ UNCHANGED <<row, over, upd, copy>> /\ copy # Unset
          /\ cache' = [cache EXCEPT ![k0] = Stored(copy, k0)]
          /\ unsaved' = IF behind THEN unsaved \cup {k0} ELSE unsaved \ {k0}
        BY DEF ReloadPuts
    <1> SUFFICES ASSUME NEW k \in Key, k \notin unsaved'
                 PROVE  /\ Apart(k)'
                        /\ (\A b \in Admin : ~Written(b, k)') => Sound(k)'
                        /\ \A b \in Admin : Promised(b, k)' /\ Compared(b, k)'
        BY DEF KeyInv
    <1>2. CASE k = k0
        <2>1. copy[k] = row[k] /\ \A b \in Admin : k \notin Held(b)
            BY <1>1, <1>2
        <2>2. Apart(k)'
            BY <1>1, <2>1 DEF Apart, Held, Cached, Current
        <2>3. Sound(k)'
            <3>1. cache'[k] = Stored(copy, k)
                BY <1>1, <1>2 DEF StationInv, TypeOK, StationTypes
            <3> QED
                BY <1>1, <2>1, <3>1 DEF Sound, Stored
        <2>4. \A b \in Admin : Promised(b, k)' /\ Compared(b, k)'
            BY <1>1, <2>1, NotHeldVacuous DEF StationInv
        <2> QED
            BY <2>2, <2>3, <2>4
    <1>3. CASE k # k0
        <2>1. k \notin unsaved /\ cache'[k] = cache[k]
            BY <1>1, <1>3 DEF StationInv, TypeOK, StationTypes
        <2>2. /\ Apart(k)
              /\ (\A b \in Admin : ~Written(b, k)) => Sound(k)
              /\ \A b \in Admin : Promised(b, k) /\ Compared(b, k)
            BY <2>1 DEF StationInv, KeyInv
        <2>3. Apart(k)' /\ ((\A b \in Admin : ~Written(b, k)') => Sound(k)')
            BY <1>1, <2>1, <2>2 DEF Apart, Held, Cached, Current, Written, Sound
        <2>4. \A b \in Admin : Promised(b, k)' /\ Compared(b, k)'
            BY <1>1, <2>1, <2>2, PromiseKept
        <2> QED
            BY <2>3, <2>4
    <1> QED
        BY <1>2, <1>3

LEMMA ReloadCoversKeys ==
    ASSUME StationInv, ReloadCovers
    PROVE  KeyInv'
    <1>1. UNCHANGED <<row, over, upd, unsaved>> /\ cache' = Overridden(cache)
        BY DEF ReloadCovers
    <1> SUFFICES ASSUME NEW k \in Key, k \notin unsaved
                 PROVE  /\ Apart(k)'
                        /\ (\A b \in Admin : ~Written(b, k)') => Sound(k)'
                        /\ \A b \in Admin : Promised(b, k)' /\ Compared(b, k)'
        BY <1>1 DEF KeyInv
    <1>2. /\ Apart(k)
          /\ (\A b \in Admin : ~Written(b, k)) => Sound(k)
          /\ \A b \in Admin : Promised(b, k) /\ Compared(b, k)
        BY DEF StationInv, KeyInv
    <1>3. cache'[k] = IF over[k] # Unset THEN over[k] ELSE cache[k]
        BY <1>1 DEF Overridden
    <1>4. Apart(k)' /\ ((\A b \in Admin : ~Written(b, k)') => Sound(k)')
        BY <1>1, <1>2, <1>3 DEF Apart, Held, Cached, Current, Written, Sound
    <1>5. \A b \in Admin : Promised(b, k)' /\ Compared(b, k)'
        BY <1>1, <1>2, <1>3, CoverKept
    <1> QED
        BY <1>4, <1>5

\* A server boots when no update is under way.
LEMMA BootKeys ==
    ASSUME StationInv, thread = "boot", Loads
    PROVE  KeyInv'
    <1>1. cache' = Loaded(row) /\ UNCHANGED <<row, over, upd>> /\ thread = "boot"
        BY DEF Loads
    <1>2. \A a \in Admin : upd[a] = Idle
        BY <1>1 DEF StationInv, HandlerInv
    <1> SUFFICES ASSUME NEW k \in Key
                 PROVE  /\ Apart(k)' /\ Sound(k)'
                        /\ \A b \in Admin : Promised(b, k)' /\ Compared(b, k)'
        BY DEF KeyInv
    <1>3. \A b \in Admin : k \notin Held(b) /\ k \notin Held(b)'
        BY <1>1, <1>2 DEF Idle, Held, Cached
    <1>4. Apart(k)'
        BY <1>3 DEF Apart
    <1>5. Sound(k)'
        BY <1>1 DEF Sound, Loaded, Overridden, Stored
    <1>6. \A b \in Admin : Promised(b, k)' /\ Compared(b, k)'
        BY <1>1, <1>3, NotHeldVacuous DEF StationInv
    <1> QED
        BY <1>4, <1>5, <1>6

\* What the end of a drain cuts off has cached what is marked.
LEMMA DrainKeys ==
    ASSUME StationInv, DrainTimesOut
    PROVE  KeyInv'
    <1>1. /\ UNCHANGED <<row, over, cache, copy>> /\ upd' = [a \in Admin |-> Idle]
          /\ unsaved \subseteq unsaved'
          /\ \A a \in Admin : upd[a] # Idle /\ upd[a].pc # "notify"
                                => Cached(a) \subseteq unsaved'
        BY DEF DrainTimesOut
    <1> SUFFICES ASSUME NEW k \in Key, k \notin unsaved'
                 PROVE  /\ Apart(k)' /\ Sound(k)'
                        /\ \A b \in Admin : Promised(b, k)' /\ Compared(b, k)'
        BY DEF KeyInv
    <1>2. \A b \in Admin : Held(b)' = {} /\ upd'[b].pc = "idle" /\ upd'[b].next = 1
        BY <1>1 DEF Idle, Held, Cached
    <1>3. Apart(k)'
        BY <1>2 DEF Apart
    <1>4. \A b \in Admin : ~Written(b, k)
        BY <1>1, HeldIsKeys DEF Written, StationInv
    <1>5. Sound(k)'
        BY <1>1, <1>4 DEF StationInv, KeyInv, Sound
    <1>6. \A b \in Admin : Promised(b, k)' /\ Compared(b, k)'
        BY <1>2 DEF Promised, Compared
    <1> QED
        BY <1>3, <1>5, <1>6

\* Nothing else touches what KeyInv speaks of.
LEMMA KeysKept ==
    ASSUME KeyInv, UNCHANGED <<row, over, cache, copy, upd, unsaved>>
    PROVE  KeyInv'
    BY DEF KeyInv, Apart, Held, Cached, Current, Sound, Written, Promised, Compared
-----------------------------------------------------------------------------
(***************************************************************************)
(* The types and the handlers, action by action.                           *)
(***************************************************************************)
\* What the types and HandlerInv say of one update.
Fit(a) ==
    /\ upd[a] \in Update /\ upd[a].next \in 1..Len(upd[a].list) + 1
    /\ upd[a].pc = "idle" <=> upd[a] = Idle
    /\ upd[a] # Idle => thread \in {"serving", "draining"} /\ upd[a].list \in Lists
    /\ upd[a].pc \in {"get", "put"} => ~Through(a) /\ Current(a).value # Bad
    /\ \A i \in 1..upd[a].next - 1 : upd[a].list[i].value # Bad
    /\ upd[a].dirty \subseteq Cached(a)

\* What they say of everything else.
Rest ==
    /\ row \in [Key -> Value \cup {Unset}] /\ over \in [Key -> Value \cup {Unset}]
    /\ cache \in [Key -> Value] /\ copy \in [Key -> Value \cup {Unset}] \cup {Unset}
    /\ due \subseteq Key
    /\ DOMAIN upd = Admin /\ upd = [a \in Admin |-> upd[a]]
    /\ bind \in Value /\ at \in Value
    /\ thread \in {"none", "head", "check", "build", "boot", "bind", "failing", "serving",
                   "draining", "closing", "pause", "ended", "failed"}
    /\ {exit, rebind, stop, started, bindError, stream, strayed} \subseteq BOOLEAN
    /\ main \in {"new", "waiting", "up", "looking", "telling", "joining", "gone"}
    /\ taken \subseteq Contested /\ left \in 0..MaxCommands /\ unsaved \subseteq Key
    /\ exit => Server
    /\ main = "new" => thread = "none"

LEMMA Parts == TypeOK /\ HandlerInv <=> Rest /\ \A a \in Admin : Fit(a)
    <1>1. TypeOK /\ HandlerInv => Rest /\ \A a \in Admin : Fit(a)
        BY DEF TypeOK, StationTypes, HandlerInv, Rest, Fit
    <1>2. Rest /\ (\A a \in Admin : Fit(a)) => TypeOK /\ HandlerInv
        <2> SUFFICES ASSUME Rest, \A a \in Admin : Fit(a)
                     PROVE  TypeOK /\ HandlerInv
            OBVIOUS
        <2>1. upd \in [Admin -> Update]
            BY DEF Rest, Fit
        <2> QED
            BY <2>1 DEF TypeOK, StationTypes, HandlerInv, Rest, Fit
    <1> QED
        BY <1>1, <1>2

\* An update that stays where it is fits as long as its server is there.
LEMMA FitKept ==
    ASSUME NEW a \in Admin, Fit(a), upd'[a] = upd[a],
           thread' = thread \/ upd[a] = Idle \/ thread' \in {"serving", "draining"}
    PROVE  Fit(a)'
    BY DEF Fit, Through, Current, Cached

LEMMA IdleFits ==
    ASSUME NEW a \in Admin, upd'[a] = Idle
    PROVE  Fit(a)'
    <1>1. upd'[a] \in Update /\ Len(<<>>) = 0
        BY IdleTyped, EmptySeq
    <1> QED
        BY <1>1 DEF Fit, Idle, Cached
-----------------------------------------------------------------------------
LEMMA OpenFits ==
    ASSUME TypeOK, HandlerInv, NEW a \in Admin, NEW l \in Lists, Open(a, l)
    PROVE  Rest' /\ \A b \in Admin : Fit(b)'
    <1>1. /\ upd' \in [Admin -> Update] /\ Others(a)
          /\ upd'[a].pc = "look" /\ upd'[a].list = l /\ upd'[a].next = 1
          /\ upd'[a].dirty = {}
        BY OpenShape
    <1>2. /\ thread = "serving"
          /\ UNCHANGED <<row, over, cache, copy, due, unsaved, strayed, host, desk, world>>
        BY DEF Open
    <1>3. Rest'
        <2>1. left' \in 0..MaxCommands
            BY StationAssumption DEF Open, TypeOK, StationTypes
        <2> QED
            BY <1>1, <1>2, <2>1, Parts DEF Rest, host, desk, world, Server
    <1>4. Fit(a)'
        BY <1>1, <1>2, ListTyped DEF Fit, Idle, host, Cached
    <1>5. \A b \in Admin \ {a} : Fit(b)'
        BY <1>1, <1>2, Parts, FitKept DEF Others, host
    <1> QED
        BY <1>3, <1>4, <1>5

LEMMA LookFits ==
    ASSUME TypeOK, HandlerInv, NEW a \in Admin, Look(a)
    PROVE  Rest' /\ \A b \in Admin : Fit(b)'
    <1>1. /\ upd' \in [Admin -> Update] /\ Others(a)
          /\ upd'[a].pc = "get" /\ upd'[a].list = upd[a].list
          /\ upd'[a].next = upd[a].next /\ upd'[a].dirty = upd[a].dirty
        BY LookShape
    <1>2. /\ ~Through(a) /\ Current(a).value # Bad /\ upd[a].pc = "look"
          /\ UNCHANGED <<row, over, cache, copy, due, left, host, desk, world>>
        BY DEF Look
    <1>3. Rest'
        <2>1. Current(a).key \in Key
            BY <1>2, CurrentTyped
        <2>2. unsaved' \subseteq Key /\ strayed' \in BOOLEAN
            BY <2>1 DEF Look, TypeOK, StationTypes
        <2> QED
            BY <1>1, <1>2, <2>2, Parts DEF Rest, host, desk, world, Server
    <1>4. Fit(a)'
        <2>1. Fit(a) /\ upd[a] # Idle
            BY <1>2, Parts DEF Idle
        <2> QED
            BY <1>1, <1>2, <2>1 DEF Fit, host, Cached, Through, Current, Idle
    <1>5. \A b \in Admin \ {a} : Fit(b)'
        BY <1>1, <1>2, Parts, FitKept DEF Others, host
    <1> QED
        BY <1>3, <1>4, <1>5

LEMMA GetFits ==
    ASSUME TypeOK, HandlerInv, NEW a \in Admin, Get(a)
    PROVE  Rest' /\ \A b \in Admin : Fit(b)'
    <1>1. /\ ~Through(a) /\ Current(a).value # Bad /\ upd[a].pc = "get"
          /\ UNCHANGED <<row, over, cache, copy, due, left, unsaved, strayed, host, desk, world>>
        BY DEF Get, HandlerInv
    <1>2. /\ upd' \in [Admin -> Update] /\ Others(a)
          /\ upd'[a].pc = "put" /\ upd'[a].list = upd[a].list
          /\ upd'[a].next = upd[a].next /\ upd'[a].dirty = upd[a].dirty
        BY <1>1, GetShape
    <1>3. Rest'
        BY <1>1, <1>2, Parts DEF Rest, host, desk, world, Server
    <1>4. Fit(a)'
        <2>1. Fit(a) /\ upd[a] # Idle
            BY <1>1, Parts DEF Idle
        <2> QED
            BY <1>1, <1>2, <2>1 DEF Fit, host, Cached, Through, Current, Idle
    <1>5. \A b \in Admin \ {a} : Fit(b)'
        BY <1>1, <1>2, Parts, FitKept DEF Others, host
    <1> QED
        BY <1>3, <1>4, <1>5

LEMMA PutFits ==
    ASSUME TypeOK, HandlerInv, NEW a \in Admin, Put(a) \/ PutCovered(a)
    PROVE  Rest' /\ \A b \in Admin : Fit(b)'
    <1> DEFINE n == upd[a].next
               k == Current(a).key
    <1>1. /\ ~Through(a) /\ Current(a).value # Bad /\ upd[a].pc = "put"
          /\ UNCHANGED <<row, left, host, desk, world>>
        BY DEF Put, PutCovered, HandlerInv
    <1>2. /\ upd[a].list \in Lists /\ n \in 1..Len(upd[a].list) /\ k \in Key
          /\ Current(a).value \in Value /\ Len(upd[a].list) \in Nat
        BY <1>1, CurrentTyped, ListTyped
    <1>3. /\ upd' \in [Admin -> Update] /\ Others(a) /\ upd'[a].pc = "look"
          /\ upd'[a].list = upd[a].list /\ upd'[a].next = n + 1
          /\ upd'[a].dirty \subseteq upd[a].dirty \cup {k}
        BY <1>1, StepShape DEF Put, PutCovered
    <1>4. Rest'
        <2>1. over' \in [Key -> Value \cup {Unset}]
            BY <1>2 DEF Put, PutCovered, TypeOK, StationTypes
        <2>2. cache' \in [Key -> Value]
            <3> DEFINE c == [cache EXCEPT ![k] = Current(a).value]
            <3>1. c \in [Key -> Value]
                BY <1>2 DEF TypeOK, StationTypes
            <3>2. cache' = c \/ cache' = Overridden(c)
                BY DEF Put, PutCovered
            <3> HIDE DEF c
            <3> QED
                BY <3>1, <3>2, OverriddenTyped
        <2>3. /\ copy' \in [Key -> Value \cup {Unset}] \cup {Unset} /\ due' \subseteq Key
              /\ unsaved' \subseteq Key /\ strayed' \in BOOLEAN
            BY <1>2 DEF Put, PutCovered, Covers, TypeOK, StationTypes
        <2> QED
            BY <1>1, <1>3, <2>1, <2>2, <2>3, Parts DEF Rest, host, desk, world, Server
    <1>5. Fit(a)'
        <2>1. Fit(a) /\ upd[a] # Idle
            BY <1>1, Parts DEF Idle
        <2>2. Cached(a)' = Cached(a) \cup {k}
            <3>1. n \in Nat \ {0} /\ upd'[a].next - 1 = n
                BY <1>2, <1>3
            <3> QED
                BY <1>3, <3>1 DEF Cached, Current
        <2>3. \A i \in 1..n : upd[a].list[i].value # Bad
            BY <1>1, <1>2, <2>1 DEF Fit, Current
        <2> QED
            BY <1>1, <1>2, <1>3, <2>1, <2>2, <2>3 DEF Fit, host, Idle
    <1>6. \A b \in Admin \ {a} : Fit(b)'
        BY <1>1, <1>3, Parts, FitKept DEF Others, host
    <1> QED
        BY <1>4, <1>5, <1>6

LEMMA CommitFits ==
    ASSUME TypeOK, HandlerInv, NEW a \in Admin, Commit(a)
    PROVE  Rest' /\ \A b \in Admin : Fit(b)'
    <1>1. /\ upd[a].pc = "look"
          /\ UNCHANGED <<over, cache, copy, due, left, unsaved, strayed, host, desk, world>>
        BY DEF Commit
    <1>2. /\ upd' \in [Admin -> Update] /\ Others(a)
          /\ upd'[a].pc = "notify" /\ upd'[a].list = upd[a].list
          /\ upd'[a].next = upd[a].next /\ upd'[a].dirty = upd[a].dirty
        BY CommitShape
    <1>3. Fit(a) /\ upd[a] # Idle /\ upd[a].list \in Lists
        BY <1>1, Parts DEF Idle, Fit
    <1>4. row' \in [Key -> Value \cup {Unset}]
        <2>1. ASSUME NEW k \in upd[a].dirty
              PROVE  (CHOOSE c \in Range(upd[a].list) : c.key = k).value \in Value
            <3>1. PICK i \in 1..upd[a].next - 1 : upd[a].list[i].key = k
                BY <1>3, <2>1 DEF Fit, Cached
            <3>2. /\ i \in DOMAIN upd[a].list /\ DOMAIN upd[a].list = 1..Len(upd[a].list)
                BY <1>3, <3>1, ListTyped DEF Fit
            <3>3. /\ upd[a].list[i].value \in Value \cup {Bad}
                  /\ upd[a].list[i].value # Bad
                BY <1>3, <3>1, <3>2, ListTyped DEF Fit
            <3>4. upd[a].list[i] \in Range(upd[a].list)
                BY <3>2 DEF Range
            <3>5. \A c \in Range(upd[a].list) : c.key = k => c = upd[a].list[i]
                BY <1>3, <3>1, <3>2, ListTyped DEF Range
            <3>6. (CHOOSE c \in Range(upd[a].list) : c.key = k) = upd[a].list[i]
                BY <3>1, <3>4, <3>5
            <3> QED
                BY <3>3, <3>6
        <2>2. \A k \in Key : row[k] \in Value \cup {Unset}
            BY DEF TypeOK, StationTypes
        <2> QED
            BY <2>1, <2>2 DEF Commit
    <1>5. Rest'
        BY <1>1, <1>2, <1>4, Parts DEF Rest, host, desk, world, Server
    <1>6. Fit(a)'
        BY <1>1, <1>2, <1>3 DEF Fit, host, Cached, Idle
    <1>7. \A b \in Admin \ {a} : Fit(b)'
        BY <1>1, <1>2, Parts, FitKept DEF Others, host
    <1> QED
        BY <1>5, <1>6, <1>7
-----------------------------------------------------------------------------
LEMMA AbandonFits ==
    ASSUME TypeOK, HandlerInv, NEW a \in Admin, Abandon(a)
    PROVE  Rest' /\ \A b \in Admin : Fit(b)'
    <1>1. upd' \in [Admin -> Update] /\ Others(a) /\ upd'[a] = Idle
        BY EndShape DEF Abandon
    <1>2. /\ UNCHANGED <<row, over, cache, copy, due, left, host, desk, world>>
          /\ unsaved' \subseteq Key /\ strayed' \in BOOLEAN
        BY HeldIsKeys DEF Abandon, TypeOK, StationTypes
    <1>3. Rest'
        BY <1>1, <1>2, Parts DEF Rest, host, desk, world, Server
    <1>4. \A b \in Admin : Fit(b)'
        BY <1>1, <1>2, Parts, IdleFits, FitKept DEF Others, host
    <1> QED
        BY <1>3, <1>4

\* The host is told within a handler, so there is a server.
LEMMA NotifyFits ==
    ASSUME TypeOK, HandlerInv, NEW a \in Admin, Notify(a)
    PROVE  Rest' /\ \A b \in Admin : Fit(b)'
    <1>1. upd' \in [Admin -> Update] /\ Others(a) /\ upd'[a] = Idle
        BY EndShape DEF Notify
    <1>2. /\ UNCHANGED <<row, over, cache, copy, due, left, unsaved, strayed, desk, world>>
          /\ thread \in {"serving", "draining"}
          /\ UNCHANGED <<at, thread, started, bindError>>
          /\ bind' \in Value /\ rebind' \in BOOLEAN /\ exit' \in BOOLEAN
        BY DEF Notify, Rebinds, host, Key, HandlerInv, Idle, TypeOK, StationTypes
    <1>3. Rest'
        BY <1>1, <1>2, Parts DEF Rest, desk, world, Server
    <1>4. \A b \in Admin : Fit(b)'
        BY <1>1, <1>2, Parts, IdleFits, FitKept DEF Others
    <1> QED
        BY <1>3, <1>4

LEMMA RestartFits ==
    ASSUME TypeOK, HandlerInv, Restart
    PROVE  Rest' /\ \A b \in Admin : Fit(b)'
    <1>1. /\ UNCHANGED <<settings, desk, world>> /\ thread = "serving"
          /\ UNCHANGED <<at, thread, started, bindError>>
          /\ bind' \in Value /\ rebind' \in BOOLEAN /\ exit' \in BOOLEAN
        BY DEF Restart, Rebinds, Key, TypeOK, StationTypes
    <1>2. Rest'
        BY <1>1, Parts DEF Rest, settings, desk, world, Server
    <1>3. \A b \in Admin : Fit(b)'
        BY <1>1, Parts, FitKept DEF settings
    <1> QED
        BY <1>2, <1>3

LEMMA ReloadFits ==
    ASSUME TypeOK, HandlerInv, Reload
    PROVE  Rest' /\ \A b \in Admin : Fit(b)'
    <1>1. UNCHANGED <<row, over, upd, host, desk, world>>
        BY DEF Reload, ReloadReads, ReloadPuts, ReloadCovers
    <1>2. /\ cache' \in [Key -> Value] /\ copy' \in [Key -> Value \cup {Unset}] \cup {Unset}
          /\ due' \subseteq Key /\ left' \in 0..MaxCommands
          /\ unsaved' \subseteq Key /\ strayed' \in BOOLEAN
        <2>1. CASE ReloadReads
            BY <2>1, StationAssumption DEF ReloadReads, TypeOK, StationTypes
        <2>2. ASSUME NEW k \in Key, ReloadPuts(k)
              PROVE  <1>2!:
            <3>1. copy \in [Key -> Value \cup {Unset}]
                BY <2>2 DEF ReloadPuts, TypeOK, StationTypes
            <3>2. Stored(copy, k) \in Value
                BY <3>1, StoredTyped
            <3> QED
                BY <2>2, <3>2 DEF ReloadPuts, TypeOK, StationTypes
        <2>3. CASE ReloadCovers
            <3>1. cache' \in [Key -> Value]
                BY <2>3, OverriddenTyped DEF ReloadCovers, TypeOK, StationTypes
            <3> QED
                BY <2>3, <3>1 DEF ReloadCovers, Covers, TypeOK, StationTypes
        <2> QED
            BY <2>1, <2>2, <2>3 DEF Reload
    <1>3. Rest'
        BY <1>1, <1>2, Parts DEF Rest, host, desk, world, Server
    <1>4. \A b \in Admin : Fit(b)'
        BY <1>1, Parts, FitKept DEF host
    <1> QED
        BY <1>3, <1>4

\* The thread of the host comes and goes only when no update is under way.
LEMMA ThreadFits ==
    ASSUME TypeOK, HandlerInv,
           \/ TurnBegins \/ CheckPort \/ Build \/ BuildFails \/ Bind \/ BindFails
           \/ DrainBegins \/ DrainEnds \/ Closes \/ PauseEnds
    PROVE  Rest' /\ \A b \in Admin : Fit(b)'
    <1> USE DEF TurnBegins, CheckPort, Build, BuildFails, Bind, BindFails, DrainBegins,
                DrainEnds, Closes, PauseEnds
    <1>1. UNCHANGED <<settings, desk, world, bind>>
        OBVIOUS
    <1>2. /\ thread # "none" /\ Rest
        BY Parts
    <1>3. /\ at' \in Value /\ {exit', rebind', started', bindError'} \subseteq BOOLEAN
          /\ thread' \in {"none", "head", "check", "build", "boot", "bind", "failing",
                          "serving", "draining", "closing", "pause", "ended", "failed"}
        BY <1>2 DEF Rest
    <1>4. exit' => thread' \in {"boot", "bind", "failing", "serving", "draining", "closing"}
        BY <1>2 DEF Rest, Server
    <1>5. Rest'
        <2>1. main # "new"
            BY <1>2 DEF Rest
        <2> QED
            BY <1>1, <1>2, <1>3, <1>4, <2>1 DEF Rest, settings, desk, world, Server
    <1>6. ASSUME NEW b \in Admin
          PROVE  Fit(b)'
        <2>1. upd[b] = Idle \/ thread' \in {"serving", "draining"}
            BY DEF Quiet, HandlerInv
        <2> QED
            BY <1>1, <2>1, Parts, FitKept DEF settings
    <1> QED
        BY <1>5, <1>6

LEMMA BootFits ==
    ASSUME TypeOK, HandlerInv, Boot \/ BootFails
    PROVE  Rest' /\ \A b \in Admin : Fit(b)'
    <1>1. /\ thread = "boot" /\ thread' \in {"bind", "failed"}
          /\ exit' \in BOOLEAN /\ (exit' => thread' = "bind")
          /\ UNCHANGED <<row, over, upd, copy, due, left, strayed, bind, at, rebind,
                         started, bindError, desk, world>>
        BY DEF Boot, BootFails, Loads, settings, TypeOK, StationTypes
    <1>2. cache' \in [Key -> Value] /\ unsaved' \subseteq Key
        <2>1. CASE Loads
            BY <2>1, LoadedTyped DEF Loads, TypeOK, StationTypes
        <2>2. CASE UNCHANGED settings
            BY <2>2 DEF settings, TypeOK, StationTypes
        <2> QED
            BY <2>1, <2>2 DEF Boot, BootFails
    <1>3. Rest'
        BY <1>1, <1>2, Parts DEF Rest, desk, world, Server
    <1>4. \A b \in Admin : Fit(b)'
        BY <1>1, Parts, FitKept DEF HandlerInv
    <1> QED
        BY <1>3, <1>4

LEMMA DrainFits ==
    ASSUME TypeOK, HandlerInv, DrainTimesOut
    PROVE  Rest' /\ \A b \in Admin : Fit(b)'
    <1>1. /\ thread = "draining" /\ thread' = "closing" /\ stream' = FALSE
          /\ UNCHANGED <<row, over, cache, copy, due, left, bind, at, exit, rebind, started,
                         bindError, desk, taken>>
          /\ upd' = [a \in Admin |-> Idle] /\ strayed' \in BOOLEAN
        BY DEF DrainTimesOut, TypeOK, StationTypes
    <1>2. unsaved' \subseteq Key
        <2>1. \A a \in Admin : Cached(a) \subseteq Key
            BY HeldIsKeys
        <2>2. unsaved \subseteq Key
            BY DEF TypeOK, StationTypes
        <2> QED
            BY <2>1, <2>2 DEF DrainTimesOut
    <1>3. \A b \in Admin : Fit(b)'
        BY <1>1, IdleFits
    <1>4. Rest'
        BY <1>1, <1>2, Parts DEF Rest, desk, Server
    <1> QED
        BY <1>3, <1>4

LEMMA MainFits ==
    ASSUME TypeOK, HandlerInv, MainSteps \/ StopBegins \/ JoinTimesOut
    PROVE  Rest' /\ \A b \in Admin : Fit(b)'
    <1> USE DEF MainSteps, StopBegins, JoinTimesOut, Start, StartReturns, StopLooks, StopTells,
                StopStumbles, JoinEnds
    <1>1. /\ UNCHANGED <<settings, world, bind, at, started, bindError>>
          /\ Rest
        BY Parts DEF host
    <1>2. \/ Start
          \/ thread' = thread /\ main' # "new"
        BY DEF host
    <1>3. exit' \in BOOLEAN /\ rebind' \in BOOLEAN /\ (exit' => exit \/ Server)
        <2>1. {exit, rebind} \subseteq BOOLEAN
            BY <1>1 DEF Rest
        <2>2. CASE StopTells
            BY <2>1, <2>2
        <2>3. CASE ~StopTells
            <3>1. exit' = exit
                BY <2>3 DEF host
            <3>2. rebind' \in {rebind, FALSE}
                BY DEF host
            <3> QED
                BY <2>1, <3>1, <3>2
        <2> QED
            BY <2>2, <2>3
    <1>4. Rest'
        <2>1. CASE Start
            BY <2>1, <1>1 DEF Rest, settings, world, Server
        <2>2. CASE thread' = thread /\ main' # "new"
            <3>1. /\ main' \in {"new", "waiting", "up", "looking", "telling", "joining", "gone"}
                  /\ stop' \in BOOLEAN
                BY <1>1 DEF Rest
            <3>2. exit' => Server'
                BY <1>1, <1>3, <2>2 DEF Rest, Server
            <3> QED
                BY <2>2, <1>1, <1>3, <3>1, <3>2 DEF Rest, settings, world
        <2> QED
            BY <1>2, <2>1, <2>2
    <1>5. \A b \in Admin : upd[b] = Idle \/ thread' = thread
        BY <1>2 DEF HandlerInv
    <1>6. \A b \in Admin : Fit(b)'
        BY <1>1, <1>5, Parts, FitKept DEF settings
    <1> QED
        BY <1>4, <1>6

LEMMA WorldFits ==
    ASSUME TypeOK, HandlerInv, UNCHANGED <<settings, host, desk>>,
           stream' \in BOOLEAN, taken' \subseteq Contested
    PROVE  Rest' /\ \A b \in Admin : Fit(b)'
    <1>1. Rest'
        BY Parts DEF Rest, settings, host, desk, Server
    <1>2. \A b \in Admin : Fit(b)'
        BY Parts, FitKept DEF settings, host
    <1> QED
        BY <1>1, <1>2
-----------------------------------------------------------------------------
LEMMA PartsNext == (Rest /\ \A a \in Admin : Fit(a))' => (TypeOK /\ HandlerInv)'
    <1>1. Rest /\ (\A a \in Admin : Fit(a)) => TypeOK /\ HandlerInv
        BY Parts
    <1> QED
        BY <1>1, PTL

LEMMA SafeStep ==
    ASSUME TypeOK, HandlerInv, [Next]_vars
    PROVE  TypeOK' /\ HandlerInv'
    <1> SUFFICES Rest' /\ \A b \in Admin : Fit(b)'
        BY PartsNext
    <1>1. ASSUME NEW a \in Admin, HandlerSteps(a) \/ Fault(a) \/ \E l \in Lists : Open(a, l)
          PROVE  Rest' /\ \A b \in Admin : Fit(b)'
        BY <1>1, AbandonFits, LookFits, GetFits, PutFits, CommitFits, NotifyFits, OpenFits
           DEF HandlerSteps, Refuse, Fault
    <1>2. CASE Restart \/ Reload
        BY <1>2, RestartFits, ReloadFits
    <1>3. CASE ThreadSteps
        BY <1>3, ThreadFits, BootFits, DrainFits DEF ThreadSteps
    <1>4. CASE MainSteps \/ StopBegins \/ JoinTimesOut
        BY <1>4, MainFits
    <1>5. CASE \/ StreamBegins \/ StreamEnds \/ Ended \/ UNCHANGED vars
               \/ \E p \in Contested : PortTaken(p) \/ PortFreed(p)
        <2>1. UNCHANGED <<settings, host, desk>>
            BY <1>5 DEF StreamBegins, StreamEnds, Ended, PortTaken, PortFreed, vars
        <2>2. stream' \in BOOLEAN /\ taken' \subseteq Contested
            BY <1>5 DEF StreamBegins, StreamEnds, Ended, PortTaken, PortFreed, vars, world,
                        TypeOK, StationTypes
        <2> QED
            BY <2>1, <2>2, WorldFits
    <1> QED
        BY <1>1, <1>2, <1>3, <1>4, <1>5 DEF Next

LEMMA KeyStep ==
    ASSUME StationInv, [Next]_vars
    PROVE  KeyInv'
    <1>1. ASSUME NEW a \in Admin, HandlerSteps(a) \/ Fault(a) \/ \E l \in Lists : Open(a, l)
          PROVE  KeyInv'
        BY <1>1, AbandonKeys, LookKeys, GetKeys, PutKeys, PutCoveredKeys, CommitKeys,
           NotifyKeys, OpenKeys
           DEF HandlerSteps, Refuse, Fault
    <1>2. CASE Reload
        BY <1>2, ReloadReadsKeys, ReloadPutsKeys, ReloadCoversKeys DEF Reload
    <1>3. CASE Boot \/ BootFails
        <2>1. CASE Loads
            BY <1>3, <2>1, BootKeys DEF Boot, BootFails
        <2>2. CASE UNCHANGED settings
            BY <2>2, KeysKept DEF StationInv, settings
        <2> QED
            BY <1>3, <2>1, <2>2 DEF Boot, BootFails
    <1>4. CASE DrainTimesOut
        BY <1>4, DrainKeys
    <1>5. CASE \/ Restart \/ TurnBegins \/ CheckPort \/ Build \/ BuildFails \/ Bind \/ BindFails
               \/ DrainBegins \/ DrainEnds \/ Closes \/ PauseEnds
        <2>1. UNCHANGED <<row, over, cache, copy, upd, unsaved>>
            BY <1>5 DEF Restart, TurnBegins, CheckPort, Build, BuildFails, Bind, BindFails,
                        DrainBegins, DrainEnds, Closes, PauseEnds, settings
        <2> QED
            BY <2>1, KeysKept DEF StationInv
    <1>6. CASE \/ MainSteps \/ StopBegins \/ JoinTimesOut \/ StreamBegins \/ StreamEnds \/ Ended
               \/ UNCHANGED vars \/ \E p \in Contested : PortTaken(p) \/ PortFreed(p)
        <2>1. UNCHANGED <<row, over, cache, copy, upd, unsaved>>
            BY <1>6 DEF MainSteps, Start, StartReturns, StopLooks, StopTells, StopStumbles,
                        JoinEnds, StopBegins, JoinTimesOut, StreamBegins, StreamEnds, Ended,
                        PortTaken, PortFreed, vars, settings
        <2> QED
            BY <2>1, KeysKept DEF StationInv
    <1> QED
        BY <1>1, <1>2, <1>3, <1>4, <1>5, <1>6 DEF Next, ThreadSteps

LEMMA InitStation == Init => StationInv
    <1> SUFFICES ASSUME Init PROVE StationInv
        OBVIOUS
    <1>1. /\ row \in [Key -> Value \cup {Unset}] /\ over \in [Key -> Value \cup {Unset}]
          /\ cache = Loaded(row) /\ upd = [a \in Admin |-> Idle]
        BY StationAssumption DEF Init
    <1>2. cache \in [Key -> Value]
        BY <1>1, StationAssumption DEF Loaded, Overridden, Stored
    <1>3. \A a \in Admin : Fit(a)
        <2>1. Idle \in Update /\ Len(<<>>) = 0
            BY IdleTyped, EmptySeq
        <2> QED
            BY <1>1, <2>1 DEF Fit, Idle, Cached
    <1>4. Rest
        <2>1. cache["port"] \in Value
            BY <1>2 DEF Key
        <2>2. bind \in Value /\ at \in Value /\ left \in 0..MaxCommands
            BY <2>1, StationAssumption DEF Init
        <2>3. copy \in [Key -> Value \cup {Unset}] \cup {Unset} /\ due \subseteq Key
            BY DEF Init
        <2> QED
            BY <1>1, <1>2, <2>2, <2>3 DEF Init, Rest, Server
    <1>5. KeyInv
        <2>1. \A k \in Key : Sound(k)
            BY <1>1 DEF Sound, Loaded, Overridden, Stored
        <2>2. \A a \in Admin : Held(a) = {} /\ upd[a].pc = "idle" /\ upd[a].next = 1
            BY <1>1 DEF Held, Cached, Idle
        <2> QED
            BY <2>1, <2>2 DEF KeyInv, Apart, Promised, Compared
    <1> QED
        BY <1>3, <1>4, <1>5, Parts DEF StationInv

LEMMA StationInductive == Spec => []StationInv
    <1>1. StationInv /\ [Next]_vars => StationInv'
        BY SafeStep, KeyStep DEF StationInv
    <1> QED
        BY <1>1, InitStation, PTL DEF Spec

(***************************************************************************)
(* Every state has its types, and the server is told to leave only while   *)
(* it exists (AppHost.async_rebind, AppHost.stop).                         *)
(***************************************************************************)
THEOREM TypeCorrect == Spec => []TypeOK
    <1>1. StationInv => TypeOK
        BY DEF StationInv
    <1> QED
        BY <1>1, StationInductive, PTL

(***************************************************************************)
(* Once updates and reloads have come to rest, the cache of the settings holds what a  *)
(* restart would read, for every key that no failed, cut off or crossing   *)
(* update and no overtaken reload has left behind (SettingsService).       *)
(***************************************************************************)
THEOREM CacheCorrect == Spec => []CacheTrue
    <1>1. StationInv => CacheTrue
        <2> SUFFICES ASSUME StationInv, Quiet, copy = Unset, NEW k \in Key \ unsaved
                     PROVE  Sound(k)
            BY DEF CacheTrue, Sound
        <2>1. \A a \in Admin : ~Written(a, k)
            BY HeldIsKeys DEF Quiet, StationInv, Written
        <2> QED
            BY <2>1 DEF StationInv, KeyInv
    <1> QED
        BY <1>1, StationInductive, PTL
=============================================================================
