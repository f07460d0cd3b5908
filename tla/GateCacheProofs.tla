--------------------------- MODULE GateCacheProofs ---------------------------
(***************************************************************************)
(* Proofs about GateCache, for any layers, setters and caps: whatever      *)
(* threads resolve and set at once, the queue names live layers, the cap   *)
(* holds when no call is running, and an eviction takes the layer whose    *)
(* last use is the oldest.                                                 *)
(***************************************************************************)
EXTENDS GateCache, DataLemmas, FiniteSetTheorems

LEMMA PrependFacts ==
    ASSUME NEW S, NEW l \in Seq(S), NEW x \in S
    PROVE  /\ <<x>> \o l \in Seq(S)
           /\ Len(<<x>> \o l) = Len(l) + 1
           /\ (<<x>> \o l)[1] = x
           /\ \A i \in 1 .. Len(l) : (<<x>> \o l)[i + 1] = l[i]
OBVIOUS

\* A list with one of its elements moved to the front, or with a new one there.
LEMMA ToFrontFacts ==
    ASSUME NEW S, NEW q \in Seq(S), NEW x \in S, Injective(q)
    PROVE  LET r == <<x>> \o Without(q, x) IN
           /\ r \in Seq(S)
           /\ Injective(r)
           /\ Len(r) = IF Holds(q, x) THEN Len(q) ELSE Len(q) + 1
           /\ r[1] = x /\ Len(r) > 0
           /\ \A l : Holds(r, l) <=> Holds(q, l) \/ l = x
<1> DEFINE w == Without(q, x)
           r == <<x>> \o w
<1>1. q \in Seq(S) /\ x \in S
  OBVIOUS
<1>2. /\ w \in Seq(S) /\ Injective(w)
      /\ \A l : Holds(w, l) <=> Holds(q, l) /\ l # x
      /\ Len(w) = IF Holds(q, x) THEN Len(q) - 1 ELSE Len(q)
  BY <1>1, WithoutFacts
<1>3. r = <<x>> \o w
  OBVIOUS
<1> HIDE DEF w, r
<1>4. /\ r \in Seq(S) /\ Len(r) = Len(w) + 1 /\ r[1] = x
      /\ \A i \in 1 .. Len(w) : r[i + 1] = w[i]
  BY <1>1, <1>2, <1>3, PrependFacts
<1>5. Len(w) \in Nat /\ Len(q) \in Nat
  BY <1>1, <1>2
<1>6. \A i \in 1 .. Len(r) : i = 1 \/ (i - 1 \in 1 .. Len(w) /\ r[i] = w[i - 1])
  <2>1. ASSUME NEW i \in 1 .. Len(r), i # 1 PROVE i - 1 \in 1 .. Len(w) /\ r[i] = w[i - 1]
    <3>1. i - 1 \in 1 .. Len(w) /\ (i - 1) + 1 = i
      BY <1>4, <1>5, <2>1
    <3>2. QED
      BY <1>4, <3>1
  <2>2. QED
    BY <2>1
<1>7. \A i \in 1 .. Len(w) : w[i] # x
  BY <1>2 DEF Holds
<1>8. ASSUME NEW i \in 1 .. Len(r), NEW j \in 1 .. Len(r), r[i] = r[j] PROVE i = j
  <2>1. CASE i = 1 \/ j = 1
    BY <1>4, <1>6, <1>7, <1>8, <2>1
  <2>2. CASE i # 1 /\ j # 1
    <3>1. i - 1 = j - 1
      BY <1>2, <1>6, <1>8, <2>2 DEF Injective
    <3>2. QED
      BY <3>1
  <2>3. QED
    BY <2>1, <2>2
<1>9. ASSUME NEW l PROVE Holds(r, l) <=> Holds(w, l) \/ l = x
  <2>1. Holds(r, l) => Holds(w, l) \/ l = x
    BY <1>4, <1>6 DEF Holds
  <2>2. ASSUME Holds(w, l) PROVE Holds(r, l)
    <3>1. PICK i \in 1 .. Len(w) : w[i] = l
      BY <2>2 DEF Holds
    <3>2. i + 1 \in 1 .. Len(r) /\ r[i + 1] = l
      BY <1>4, <1>5, <3>1
    <3>3. QED
      BY <3>2 DEF Holds
  <2>3. Holds(r, x)
    BY <1>4, <1>5 DEF Holds
  <2>4. QED
    BY <2>1, <2>2, <2>3
<1>10. QED
  BY <1>2, <1>4, <1>5, <1>8, <1>9 DEF Injective, r, w

LEMMA RenewedFacts ==
    ASSUME TypeOK, resolved # NoLayer, Injective(lru)
    PROVE  /\ Renewed \in Seq(Layers)
           /\ Injective(Renewed)
           /\ Len(Renewed) = IF Holds(lru, resolved) THEN Len(lru) ELSE Len(lru) + 1
           /\ Renewed[1] = resolved /\ Len(Renewed) > 0
           /\ \A l : Holds(Renewed, l) <=> Holds(lru, l) \/ l = resolved
<1>1. lru \in Seq(Layers) /\ resolved \in Layers
  BY DEF TypeOK
<1>2. QED
  BY <1>1, ToFrontFacts DEF Renewed

\* What stays of a queue cut to a cap, and what goes.
LEMMA KeptFacts ==
    ASSUME NEW q \in Seq(Layers), NEW cap \in Nat \ {0}, Injective(q)
    PROVE  /\ Kept(q, cap) \in Seq(Layers)
           /\ Injective(Kept(q, cap))
           /\ Len(Kept(q, cap)) <= cap /\ Len(Kept(q, cap)) <= Len(q)
           /\ \A l : Holds(Kept(q, cap), l) <=> Holds(q, l) /\ l \notin Oldest(q, cap)
           /\ Len(q) > 0 => Holds(Kept(q, cap), q[1])
<1> DEFINE k == Kept(q, cap)
<1>1. Len(q) \in Nat
  OBVIOUS
<1>2. CASE Len(q) <= cap
  <2>1. k = q
    BY <1>1, <1>2 DEF Kept
  <2>2. Oldest(q, cap) = {}
    BY <1>1, <1>2 DEF Oldest
  <2>3. QED
    BY <1>1, <1>2, <2>1, <2>2 DEF Holds
<1>3. CASE Len(q) > cap
  <2>1. k = SubSeq(q, 1, cap)
    BY <1>3 DEF Kept
  <2> HIDE DEF k
  <2>2. /\ k \in Seq(Layers) /\ Len(k) = cap
        /\ \A i \in 1 .. cap : k[i] = q[i]
    BY <1>1, <1>3, <2>1, SubSeqProperties
  <2>3. Injective(k)
    BY <1>1, <1>3, <2>2 DEF Injective
  <2>4. ASSUME NEW l PROVE Holds(k, l) <=> Holds(q, l) /\ l \notin Oldest(q, cap)
    <3>1. Holds(k, l) => Holds(q, l)
      BY <1>1, <1>3, <2>2 DEF Holds
    <3>2. Holds(k, l) => l \notin Oldest(q, cap)
      BY <1>1, <1>3, <2>2 DEF Holds, Injective, Oldest
    <3>3. Holds(q, l) /\ l \notin Oldest(q, cap) => Holds(k, l)
      BY <1>1, <1>3, <2>2 DEF Holds, Oldest
    <3>4. QED
      BY <3>1, <3>2, <3>3
  <2>5. Holds(k, q[1])
    BY <2>2 DEF Holds
  <2>6. QED
    BY <1>1, <1>3, <2>2, <2>3, <2>4, <2>5 DEF k
<1>4. QED
  BY <1>1, <1>2, <1>3

LEMMA KeptIsRetained ==
    ASSUME NEW q \in Seq(Layers), NEW cap \in Nat \ {0}, Injective(q)
    PROVE  Kept(q, cap) = Retained(q, Oldest(q, cap))
<1>1. Len(q) \in Nat /\ Len(q) \in 0 .. Len(q)
  OBVIOUS
<1>2. CASE Len(q) <= cap
  <2>1. Kept(q, cap) = q /\ Oldest(q, cap) = {}
    BY <1>1, <1>2 DEF Kept, Oldest
  <2>2. Retained(q, {q[i] : i \in (Len(q) + 1) .. Len(q)}) = SubSeq(q, 1, Len(q))
    BY <1>1, PrefixRetains
  <2>3. {q[i] : i \in (Len(q) + 1) .. Len(q)} = {} /\ SubSeq(q, 1, Len(q)) = q
    BY <1>1
  <2>4. QED
    BY <2>1, <2>2, <2>3
<1>3. CASE Len(q) > cap
  <2>1. cap \in 0 .. Len(q)
    BY <1>1, <1>3
  <2>2. QED
    BY <1>3, <2>1, PrefixRetains DEF Kept, Oldest
<1>4. QED
  BY <1>1, <1>2, <1>3

LEMMA CapTypes == AllCaps \subseteq Nat /\ Caps \subseteq AllCaps /\ InitialCaps \subseteq AllCaps
BY GateAssumption DEF AllCaps

----------------------------------------------------------------------------

\* The queue is duplicate-free and names live layers; so does the holder of the
\* mutex, whom no setter can rob of its layer.
QueueInv ==
    /\ Injective(lru)
    /\ \A l : Holds(lru, l) => l \in cache
    /\ resolved \in cache \cup {NoLayer}

LEMMA QueueTracked == ASSUME TypeOK PROVE QueueInv => TrackedAreLive
<1> SUFFICES ASSUME QueueInv PROVE ToSet(lru) \subseteq cache
  BY DEF QueueInv, TrackedAreLive, Injective
<1>1. QED
  BY DEF ToSet, QueueInv, Holds, TypeOK

LEMMA TypeStep == TypeOK /\ QueueInv /\ [Next]_vars => TypeOK' /\ QueueInv'
<1> SUFFICES ASSUME TypeOK, QueueInv, [Next]_vars PROVE TypeOK' /\ QueueInv'
  OBVIOUS
<1>1. ASSUME NEW l \in Layers, Lookup(l) PROVE TypeOK' /\ QueueInv'
  <2>1. recent' \in Seq(Layers)
    <3>1. Without(recent, l) \in Seq(Layers)
      BY WithoutType DEF TypeOK
    <3>2. QED
      BY <1>1, <3>1, PrependFacts DEF Lookup
  <2>2. TypeOK'
    BY <1>1, <2>1, GateAssumption DEF Lookup, TypeOK
  <2>3. QueueInv'
    BY <1>1 DEF Lookup, QueueInv
  <2>4. QED
    BY <2>2, <2>3
<1>2. CASE LoadCap
  BY <1>2, CapTypes DEF LoadCap, TypeOK, QueueInv
<1>3. CASE UseUncapped
  BY <1>3, GateAssumption DEF UseUncapped, Unlock, TypeOK, QueueInv
<1>4. CASE UseCapped
  <2>1. loaded \in Nat \ {0} /\ resolved # NoLayer /\ resolved \in Layers
    BY <1>4, CapTypes DEF UseCapped, TypeOK
  <2>2. /\ Renewed \in Seq(Layers) /\ Injective(Renewed) /\ Len(Renewed) > 0
        /\ Renewed[1] = resolved
        /\ \A l : Holds(Renewed, l) => l \in cache
    BY <2>1, RenewedFacts DEF QueueInv
  <2>3. /\ lru' \in Seq(Layers) /\ Injective(lru') /\ cache' \subseteq cache
        /\ \A l : Holds(lru', l) => l \in cache'
    <3>1. CASE miss
      <4>1. /\ lru' = Kept(Renewed, loaded)
            /\ cache' = cache \ (Oldest(Renewed, loaded) \ {resolved})
        BY <1>4, <3>1 DEF UseCapped
      <4>2. QED
        BY <2>1, <2>2, <4>1, KeptFacts
    <3>2. CASE ~miss
      BY <1>4, <2>2, <3>2 DEF UseCapped
    <3>3. QED
      BY <3>1, <3>2
  <2>4. TypeOK'
    BY <1>4, <2>3 DEF UseCapped, Unlock, TypeOK
  <2>5. QED
    BY <1>4, <2>3, <2>4 DEF UseCapped, Unlock, QueueInv
<1>5. ASSUME NEW s \in Setters, Shrink(s) PROVE TypeOK' /\ QueueInv'
  <2>1. shrink[s] \in Nat \ {0} /\ lru \in Seq(Layers)
    <3>1. shrink[s] \in Caps \cup {0} /\ lru \in Seq(Layers)
      BY DEF TypeOK
    <3>2. \A n \in Caps \cup {0} : n \in Nat
      BY GateAssumption
    <3>3. shrink[s] > 0
      BY <1>5 DEF Shrink
    <3>4. QED
      BY <3>1, <3>2, <3>3
  <2>2. lru' = Kept(lru, shrink[s]) /\ cache' = cache \ Oldest(lru, shrink[s])
    BY <1>5 DEF Shrink
  <2>3. /\ lru' \in Seq(Layers) /\ Injective(lru') /\ cache' \subseteq cache
        /\ \A l : Holds(lru', l) => l \in cache'
    BY <2>1, <2>2, KeptFacts DEF QueueInv
  <2>4. shrink' \in [Setters -> Caps \cup {0}]
    BY <1>5 DEF Shrink, TypeOK
  <2>5. TypeOK'
    BY <1>5, <2>3, <2>4 DEF Shrink, TypeOK
  <2>6. QED
    BY <1>5, <2>3, <2>5 DEF Shrink, QueueInv
<1>6. ASSUME NEW s \in Setters, NEW cap \in Caps, StoreCap(s, cap) PROVE TypeOK' /\ QueueInv'
  BY <1>6, CapTypes DEF StoreCap, TypeOK, QueueInv
<1>7. CASE UNCHANGED vars
  BY <1>7 DEF vars, TypeOK, QueueInv
<1>8. QED
  BY <1>1, <1>2, <1>3, <1>4, <1>5, <1>6, <1>7 DEF Next

LEMMA TypeInit == Init => TypeOK /\ QueueInv
<1> SUFFICES ASSUME Init PROVE TypeOK /\ QueueInv
  OBVIOUS
<1>1. <<>> \in Seq(Layers) /\ Len(<<>>) = 0
  OBVIOUS
<1>2. lru = <<>> /\ recent = <<>> /\ cache = {} /\ resolved = NoLayer
  BY DEF Init
<1>3. max \in AllCaps /\ loaded = -1 /\ shrink \in [Setters -> Caps \cup {0}]
  BY CapTypes DEF Init
<1>4. TypeOK
  BY <1>1, <1>2, <1>3 DEF Init, TypeOK
<1>5. QueueInv
  BY <1>1, <1>2 DEF QueueInv, Injective, Holds
<1>6. QED
  BY <1>4, <1>5

LEMMA QueueCorrect == Spec => [](TypeOK /\ QueueInv)
BY TypeInit, TypeStep, PTL DEF Spec

\* The cache, its queue and the calls that use them have their types.
THEOREM TypeCorrect == Spec => []TypeOK
BY QueueCorrect, PTL

\* The queue names each layer once, and live layers only, however the calls that
\* set the cap and those that resolve layers overlap.
THEOREM TrackedAreLiveAlways == Spec => []TrackedAreLive
BY QueueCorrect, QueueTracked, PTL

\* A layer in use is not evicted, neither by its own touch nor by a setter.
THEOREM ResolvedIsLiveAlways == Spec => ResolvedIsLive
<1>1. TypeOK /\ QueueInv /\ [Next]_vars => [resolved' # resolved => resolved \in cache' \cup {NoLayer}]_vars
  <2> SUFFICES ASSUME TypeOK, QueueInv, [Next]_vars, resolved' # resolved
               PROVE  resolved \in cache' \cup {NoLayer}
    OBVIOUS
  <2>1. CASE resolved = NoLayer
    BY <2>1
  <2>2. CASE UseUncapped
    BY <2>2 DEF UseUncapped, QueueInv
  <2>3. CASE UseCapped
    BY <2>3 DEF UseCapped, QueueInv
  <2>4. QED
    BY <2>1, <2>2, <2>3 DEF Next, Lookup, LoadCap, Shrink, StoreCap, vars
<1>2. QED
  BY <1>1, QueueCorrect, PTL DEF Spec, ResolvedIsLive

----------------------------------------------------------------------------

\* No cap, or a setter that has stored it and has yet to enforce it.
CapPending == max = 0 \/ \E s \in Setters : shrink[s] = max

\* If no layer escaped the queue, the live layers are those of the queue and the
\* one just decoded; the queue is within the cap or somebody will cut it, and
\* nobody cuts it while a call that has read an older cap holds the mutex.
CapInv ==
    /\ ~uncapped =>
         /\ \A l \in Layers : l \in cache <=> Holds(lru, l) \/ (l = resolved /\ miss)
         /\ resolved # NoLayer => (miss <=> ~Holds(lru, resolved))
         /\ CapPending \/ Len(lru) <= max
    /\ loaded > 0 => CapPending \/ loaded = max

LEMMA CapStep == TypeOK /\ QueueInv /\ CapInv /\ [Next]_vars => CapInv'
<1> SUFFICES ASSUME TypeOK, QueueInv, CapInv, [Next]_vars PROVE CapInv'
  OBVIOUS
<1>0. UNCHANGED <<max, shrink>> => (CapPending' <=> CapPending)
  BY DEF CapPending
<1>1. ASSUME NEW l \in Layers, Lookup(l) PROVE CapInv'
  <2>1. /\ resolved = NoLayer /\ resolved' = l /\ miss' = (l \notin cache)
        /\ cache' = cache \cup {l} /\ UNCHANGED <<lru, max, loaded, shrink, uncapped>>
    BY <1>1 DEF Lookup
  <2>2. NoLayer \notin Layers
    BY GateAssumption
  <2>3. QED
    BY <1>0, <2>1, <2>2 DEF CapInv, Holds
<1>2. CASE LoadCap
  BY <1>0, <1>2 DEF LoadCap, CapInv, Holds
<1>3. CASE UseUncapped
  BY <1>3 DEF UseUncapped, Unlock, CapInv
<1>4. CASE UseCapped
  <2>1. /\ loaded \in Nat \ {0} /\ resolved \in Layers /\ resolved # NoLayer
        /\ resolved' = NoLayer /\ loaded' = -1
        /\ UNCHANGED <<max, miss, shrink, uncapped>>
    BY <1>4, CapTypes, GateAssumption DEF UseCapped, Unlock, TypeOK
  <2>2. NoLayer \notin Layers
    BY GateAssumption
  <2>3. CASE uncapped
    BY <2>1, <2>3 DEF CapInv
  <2>4. CASE ~uncapped
    <3>1. /\ Renewed \in Seq(Layers) /\ Injective(Renewed) /\ Len(Renewed) > 0
          /\ Renewed[1] = resolved
          /\ Len(Renewed) = IF Holds(lru, resolved) THEN Len(lru) ELSE Len(lru) + 1
          /\ \A l : Holds(Renewed, l) <=> Holds(lru, l) \/ l = resolved
      BY <2>1, RenewedFacts DEF QueueInv
    <3>2. /\ \A l \in Layers : l \in cache <=> Holds(lru, l) \/ (l = resolved /\ miss)
          /\ miss <=> ~Holds(lru, resolved)
          /\ CapPending \/ Len(lru) <= max
          /\ CapPending \/ loaded = max
      BY <2>1, <2>4 DEF CapInv
    <3>3. \A l \in Layers : l \in cache <=> Holds(Renewed, l)
      BY <2>1, <3>1, <3>2
    <3>4. CASE miss
      <4>1. /\ lru' = Kept(Renewed, loaded)
            /\ cache' = cache \ (Oldest(Renewed, loaded) \ {resolved})
        BY <1>4, <3>4 DEF UseCapped
      <4>2. /\ Len(Kept(Renewed, loaded)) <= loaded
            /\ Kept(Renewed, loaded) \in Seq(Layers)
            /\ \A l : Holds(Kept(Renewed, loaded), l)
                        <=> Holds(Renewed, l) /\ l \notin Oldest(Renewed, loaded)
            /\ Holds(Kept(Renewed, loaded), resolved)
        BY <2>1, <3>1, KeptFacts
      <4>3. \A l \in Layers : l \in cache' <=> Holds(lru', l)
        BY <3>3, <4>1, <4>2
      <4>4. CapPending \/ Len(lru') <= max
        BY <3>2, <4>1, <4>2
      <4>5. QED
        BY <1>0, <2>1, <2>2, <4>3, <4>4 DEF CapInv, Holds
    <3>5. CASE ~miss
      <4>1. lru' = Renewed /\ cache' = cache /\ Len(Renewed) = Len(lru)
        BY <1>4, <3>1, <3>2, <3>5 DEF UseCapped
      <4>2. QED
        BY <1>0, <2>1, <2>2, <3>2, <3>3, <4>1 DEF CapInv, Holds
    <3>6. QED
      BY <3>4, <3>5
  <2>5. QED
    BY <2>3, <2>4
<1>5. ASSUME NEW s \in Setters, Shrink(s) PROVE CapInv'
  <2>1. shrink[s] \in Nat \ {0} /\ lru \in Seq(Layers)
    <3>1. shrink[s] \in Caps \cup {0} /\ lru \in Seq(Layers)
      BY DEF TypeOK
    <3>2. \A n \in Caps \cup {0} : n \in Nat
      BY GateAssumption
    <3>3. shrink[s] > 0
      BY <1>5 DEF Shrink
    <3>4. QED
      BY <3>1, <3>2, <3>3
  <2>2. /\ lru' = Kept(lru, shrink[s]) /\ cache' = cache \ Oldest(lru, shrink[s])
        /\ resolved = NoLayer /\ UNCHANGED <<max, resolved, miss, loaded, uncapped>>
        /\ shrink' = [shrink EXCEPT ![s] = 0]
    BY <1>5 DEF Shrink
  <2>3. /\ Len(lru') <= shrink[s] /\ Len(lru') <= Len(lru) /\ lru' \in Seq(Layers)
        /\ \A l : Holds(lru', l) <=> Holds(lru, l) /\ l \notin Oldest(lru, shrink[s])
    BY <2>1, <2>2, KeptFacts DEF QueueInv
  <2>4. NoLayer \notin Layers /\ loaded = -1
    BY <2>2, GateAssumption DEF TypeOK
  <2>5. CapPending => CapPending' \/ shrink[s] = max
    <3>1. \A t \in Setters : t # s => shrink'[t] = shrink[t]
      BY <2>2 DEF TypeOK
    <3>2. QED
      BY <2>2, <3>1 DEF CapPending
  <2>6. ~uncapped => CapPending' \/ Len(lru') <= max'
    <3>1. CASE CapPending
      BY <2>2, <2>3, <2>5, <3>1
    <3>2. CASE ~CapPending /\ ~uncapped
      <4>1. Len(lru) <= max /\ max \in Nat
        BY <3>2, CapTypes DEF CapInv, TypeOK
      <4>2. QED
        BY <2>1, <2>2, <2>3, <4>1
    <3>3. QED
      BY <3>1, <3>2
  <2>7. ~uncapped => \A l \in Layers : l \in cache' <=> Holds(lru', l)
    BY <2>2, <2>3, <2>4 DEF CapInv
  <2>8. QED
    BY <2>2, <2>4, <2>6, <2>7 DEF CapInv, Holds
<1>6. ASSUME NEW s \in Setters, NEW cap \in Caps, StoreCap(s, cap) PROVE CapInv'
  <2>1. /\ max' = cap /\ shrink' = [shrink EXCEPT ![s] = cap]
        /\ UNCHANGED <<cache, lru, resolved, miss, loaded, uncapped>>
    BY <1>6 DEF StoreCap
  <2>2. shrink'[s] = max'
    BY <2>1 DEF TypeOK
  <2>3. CapPending'
    BY <2>2 DEF CapPending
  <2>4. QED
    BY <2>1, <2>3 DEF CapInv, Holds
<1>7. CASE UNCHANGED vars
  BY <1>0, <1>7 DEF vars, CapInv, Holds
<1>8. QED
  BY <1>1, <1>2, <1>3, <1>4, <1>5, <1>6, <1>7 DEF Next

LEMMA CapEnough == ASSUME TypeOK, CapInv PROVE CapHolds
<1> SUFFICES ASSUME resolved = NoLayer, \A s \in Setters : shrink[s] = 0, ~uncapped, max # 0
             PROVE  Cardinality(cache) <= max
  BY DEF CapHolds, Quiet
<1> DEFINE n == Len(lru)
           f == [i \in 1 .. n |-> lru[i]]
<1>1. n <= max /\ n \in Nat /\ max \in Nat
  BY CapTypes DEF CapInv, CapPending, TypeOK
<1>2. NoLayer \notin Layers /\ cache \subseteq Layers /\ \A i \in 1 .. n : lru[i] \in Layers
  BY GateAssumption DEF TypeOK
<1>3. \A l \in Layers : l \in cache <=> Holds(lru, l)
  BY <1>2 DEF CapInv
<1>4. f \in Surjection(1 .. n, cache)
  BY <1>2, <1>3 DEF Holds, Surjection
<1>5. Cardinality(cache) <= n
  BY <1>1, <1>4, FS_SurjCardinalityBound DEF ExistsSurjection
<1>6. IsFiniteSet(cache) /\ Cardinality(cache) \in Nat
  BY <1>1, <1>4, FS_Interval, FS_Surjection, FS_CardinalityType
<1>7. QED
  BY <1>1, <1>5, <1>6

\* Whenever no call is running, the live layers are within the cap, provided no
\* layer was ever resolved without one: the case the GateUncapped run refutes.
THEOREM CapHoldsAlways == Spec => []CapHolds
<1>1. Init => CapInv
  <2>1. Len(<<>>) = 0
    OBVIOUS
  <2>2. Init => max \in Nat /\ lru = <<>> /\ cache = {} /\ resolved = NoLayer /\ loaded = -1
    BY CapTypes DEF Init
  <2>3. QED
    BY <2>1, <2>2, GateAssumption DEF CapInv, Holds
<1>2. QED
  BY <1>1, CapStep, CapEnough, QueueCorrect, PTL DEF Spec

----------------------------------------------------------------------------

\* If no layer was ever resolved without a cap, the queue is what the order of
\* the last uses retains of the live layers.  From the lookup of a layer, which is
\* its latest use, to its touch the queue lags behind: it is the queue with the
\* layer renewed that is in this order, whether the layer was in it or not.
RecencyInv ==
    /\ Injective(recent)
    /\ ~uncapped =>
         /\ resolved = NoLayer => lru = Retained(recent, Layers \ cache)
         /\ resolved # NoLayer => Renewed = Retained(recent, Layers \ cache)

\* Cutting a queue that is in the order of the last uses leaves it so.
LEMMA CutRetains ==
    ASSUME NEW q, NEW cap \in Nat \ {0}, NEW live \in SUBSET Layers,
           recent \in Seq(Layers), q \in Seq(Layers), Injective(q),
           q = Retained(recent, Layers \ live)
    PROVE  Kept(q, cap) = Retained(recent, Layers \ (live \ Oldest(q, cap)))
<1>1. Kept(q, cap) = Retained(q, Oldest(q, cap))
  BY KeptIsRetained
<1>2. Retained(q, Oldest(q, cap)) = Retained(recent, (Layers \ live) \cup Oldest(q, cap))
  <2>1. \A o : Retained(Retained(recent, Layers \ live), o) = Retained(recent, (Layers \ live) \cup o)
    BY RetainedTwice
  <2>2. QED
    BY <2>1
<1>3. \A i \in 1 .. Len(recent) : recent[i] \in Layers
  OBVIOUS
<1>4. Retained(recent, (Layers \ live) \cup Oldest(q, cap))
        = Retained(recent, Layers \ (live \ Oldest(q, cap)))
  BY <1>3, RetainedAgree
<1>5. QED
  BY <1>1, <1>2, <1>4

LEMMA RecencyStep == TypeOK /\ QueueInv /\ RecencyInv /\ [Next]_vars => RecencyInv'
<1> SUFFICES ASSUME TypeOK, QueueInv, RecencyInv, [Next]_vars PROVE RecencyInv'
  OBVIOUS
<1>0. recent \in Seq(Layers) /\ lru \in Seq(Layers) /\ Injective(lru) /\ Injective(recent)
      /\ cache \in SUBSET Layers /\ NoLayer \notin Layers
  BY GateAssumption DEF TypeOK, QueueInv, RecencyInv
<1>1. ASSUME NEW l \in Layers, Lookup(l) PROVE RecencyInv'
  <2>1. /\ resolved = NoLayer /\ resolved' = l /\ cache' = cache \cup {l}
        /\ recent' = <<l>> \o Without(recent, l) /\ UNCHANGED <<lru, uncapped>>
    BY <1>1 DEF Lookup
  <2>2. Injective(recent')
    BY <1>0, <2>1, ToFrontFacts
  <2>3. ASSUME ~uncapped PROVE Renewed' = Retained(recent', Layers \ cache')
    <3> DEFINE gone == Layers \ cache'
    <3>1. lru = Retained(recent, Layers \ cache)
      BY <2>1, <2>3 DEF RecencyInv
    <3>2. Without(lru, l) = Retained(recent, (Layers \ cache) \cup {l})
      <4>1. Without(lru, l) = Retained(lru, {l})
        BY <1>0, WithoutRetains
      <4>2. QED
        BY <1>0, <3>1, <4>1, RetainedTwice
    <3>3. Without(recent, l) = Retained(recent, {l}) /\ Without(recent, l) \in Seq(Layers)
      BY <1>0, WithoutRetains, WithoutType
    <3>4. Retained(Without(recent, l), gone) = Retained(recent, {l} \cup gone)
      BY <1>0, <3>3, RetainedTwice
    <3>5. {l} \cup gone = (Layers \ cache) \cup {l}
      BY <2>1
    <3>6. l \notin gone
      BY <2>1
    <3> HIDE DEF gone
    <3>7. Retained(recent', gone) = <<l>> \o Retained(Without(recent, l), gone)
      <4>1. recent' = <<l>> \o Without(recent, l) /\ l \in Layers
        BY <2>1
      <4>2. Retained(<<l>> \o Without(recent, l), gone) = <<l>> \o Retained(Without(recent, l), gone)
        BY <3>3, <3>6, <4>1, PrependRetains
      <4>3. QED
        BY <4>1, <4>2, Zenon
    <3>8. Renewed' = <<l>> \o Without(lru, l)
      BY <2>1 DEF Renewed
    <3>9. QED
      BY <3>2, <3>4, <3>5, <3>7, <3>8 DEF gone
  <2>4. QED
    BY <1>0, <2>1, <2>2, <2>3 DEF RecencyInv
<1>2. CASE LoadCap
  BY <1>2 DEF LoadCap, RecencyInv, Renewed
<1>3. CASE UseUncapped
  BY <1>3 DEF UseUncapped, Unlock, RecencyInv
<1>4. CASE UseCapped
  <2>1. /\ loaded \in Nat \ {0} /\ resolved # NoLayer /\ resolved' = NoLayer
        /\ UNCHANGED <<recent, uncapped>>
    BY <1>4, CapTypes, GateAssumption DEF UseCapped, Unlock, TypeOK
  <2>2. Renewed \in Seq(Layers) /\ Injective(Renewed) /\ Renewed[1] = resolved
    BY <1>0, <2>1, RenewedFacts
  <2>3. ASSUME ~uncapped PROVE lru' = Retained(recent, Layers \ cache')
    <3>1. Renewed = Retained(recent, Layers \ cache)
      BY <2>1, <2>3 DEF RecencyInv
    <3>2. CASE miss
      <4>1. /\ lru' = Kept(Renewed, loaded)
            /\ cache' = cache \ (Oldest(Renewed, loaded) \ {resolved})
        BY <1>4, <3>2 DEF UseCapped
      <4>2. resolved \notin Oldest(Renewed, loaded)
        BY <2>1, <2>2 DEF Oldest, Injective
      <4>3. cache' = cache \ Oldest(Renewed, loaded)
        BY <4>1, <4>2
      <4>4. cache \in SUBSET Layers /\ recent \in Seq(Layers)
        BY <1>0
      <4>5. Kept(Renewed, loaded) = Retained(recent, Layers \ (cache \ Oldest(Renewed, loaded)))
        BY <2>1, <2>2, <3>1, <4>4, CutRetains
      <4>6. QED
        BY <4>1, <4>3, <4>5, Zenon
    <3>3. CASE ~miss
      BY <1>4, <3>1, <3>3 DEF UseCapped
    <3>4. QED
      BY <3>2, <3>3
  <2>4. QED
    BY <1>0, <2>1, <2>3 DEF RecencyInv
<1>5. ASSUME NEW s \in Setters, Shrink(s) PROVE RecencyInv'
  <2>1. shrink[s] \in Nat \ {0}
    <3>1. shrink[s] \in Caps \cup {0}
      BY DEF TypeOK
    <3>2. \A n \in Caps \cup {0} : n \in Nat
      BY GateAssumption
    <3>3. shrink[s] > 0
      BY <1>5 DEF Shrink
    <3>4. QED
      BY <3>1, <3>2, <3>3
  <2>2. /\ lru' = Kept(lru, shrink[s]) /\ cache' = cache \ Oldest(lru, shrink[s])
        /\ resolved = NoLayer /\ UNCHANGED <<resolved, recent, uncapped>>
    BY <1>5 DEF Shrink
  <2>3. ASSUME ~uncapped PROVE lru' = Retained(recent, Layers \ cache')
    <3>1. lru = Retained(recent, Layers \ cache)
      BY <2>2, <2>3 DEF RecencyInv
    <3>2. QED
      BY <1>0, <2>1, <2>2, <3>1, CutRetains
  <2>4. QED
    BY <1>0, <2>2, <2>3 DEF RecencyInv
<1>6. ASSUME NEW s \in Setters, NEW cap \in Caps, StoreCap(s, cap) PROVE RecencyInv'
  BY <1>6 DEF StoreCap, RecencyInv, Renewed
<1>7. CASE UNCHANGED vars
  BY <1>7 DEF vars, RecencyInv, Renewed
<1>8. QED
  BY <1>1, <1>2, <1>3, <1>4, <1>5, <1>6, <1>7 DEF Next

\* If no layer was ever resolved without a cap, the queue is the order of the last
\* uses of the live layers, whatever caps were set while layers were resolved: an
\* eviction takes the layer whose last use is the oldest.
THEOREM QueueIsRecencyAlways == Spec => []QueueIsRecency
<1>1. Init => RecencyInv
  <2> SUFFICES ASSUME Init PROVE RecencyInv
    OBVIOUS
  <2>1. recent = <<>> /\ lru = <<>> /\ resolved = NoLayer
    BY DEF Init
  <2>2. Picked(<<>>, <<>>, Layers \ cache, [i \in 1 .. 0 |-> i])
    BY DEF Picked
  <2>3. <<>> = Retained(<<>>, Layers \ cache)
    <3>1. <<>> \in Seq(Layers)
      OBVIOUS
    <3>2. QED
      BY <2>2, <3>1, PickedIsRetained
  <2>4. QED
    BY <2>1, <2>3 DEF RecencyInv, Injective
<1>2. RecencyInv => QueueIsRecency
  BY DEF RecencyInv, QueueIsRecency
<1>3. QED
  BY <1>1, <1>2, RecencyStep, QueueCorrect, PTL DEF Spec
=============================================================================
