--------------------------- MODULE RendererProofs ---------------------------
(***************************************************************************)
(* Invariants of Renderer, for any interfaces, services and losses.        *)
(***************************************************************************)
EXTENDS Renderer, Loops, SequenceTheorems

----------------------------------------------------------------------------
(***************************************************************************)
(* The array of contexts and the preferred one.                            *)
(***************************************************************************)

\* Where rsu_device_get_context finds the preferred context.
LEMMA PreferredAt ==
    ASSUME NEW cs \in Seq(Ips), cs # <<>>
    PROVE  \E n \in 1..Len(cs) :
              /\ Preferred(cs) = cs[n]
              /\ \/ /\ LoopbackAt(cs) = {} /\ n = 1
                 \/ /\ n \in LoopbackAt(cs)
                    /\ \A k \in LoopbackAt(cs) : n <= k
<1>1. Len(cs) \in Nat /\ Len(cs) >= 1 /\ DOMAIN cs = 1..Len(cs)
  OBVIOUS
<1>2. CASE LoopbackAt(cs) = {}
  BY <1>1, <1>2 DEF Preferred
<1>3. CASE LoopbackAt(cs) # {}
  <2>1. LoopbackAt(cs) \in SUBSET Nat /\ LoopbackAt(cs) \subseteq 1..Len(cs)
    BY <1>1 DEF LoopbackAt
  <2>2. \E n \in LoopbackAt(cs) : \A k \in LoopbackAt(cs) : n <= k
    BY <1>3, <2>1, LeastExists
  <2>. DEFINE least == CHOOSE n \in LoopbackAt(cs) :
                          \A k \in LoopbackAt(cs) : n <= k
  <2>3. least \in LoopbackAt(cs) /\ \A k \in LoopbackAt(cs) : least <= k
    BY <2>2
  <2>4. Preferred(cs) = cs[least]
    BY <1>3 DEF Preferred
  <2>. QED
    BY <2>1, <2>3, <2>4
<1>. QED
  BY <1>2, <1>3

\* The context that is found that way is the preferred one.
LEMMA PreferredIs ==
    ASSUME NEW cs \in Seq(Ips), NEW n \in 1..Len(cs),
           \/ LoopbackAt(cs) = {} /\ n = 1
           \/ n \in LoopbackAt(cs) /\ \A k \in LoopbackAt(cs) : n <= k
    PROVE  Preferred(cs) = cs[n]
<1>1. cs # <<>>
  OBVIOUS
<1>2. PICK m \in 1..Len(cs) :
              /\ Preferred(cs) = cs[m]
              /\ \/ /\ LoopbackAt(cs) = {} /\ m = 1
                 \/ /\ m \in LoopbackAt(cs)
                    /\ \A k \in LoopbackAt(cs) : m <= k
  BY <1>1, PreferredAt
<1>3. m = n
  BY <1>2
<1>. QED
  BY <1>2, <1>3

\* No context is in the array twice.
Distinct(cs) == \A m, n \in DOMAIN cs : cs[m] = cs[n] => m = n

\* What is left of a sequence after its n-th element.
LEMMA Remainder ==
    ASSUME NEW cs \in Seq(Ips), NEW n \in 1..Len(cs)
    PROVE  /\ SubSeq(cs, n + 1, Len(cs)) \in Seq(Ips)
           /\ Len(SubSeq(cs, n + 1, Len(cs))) = Len(cs) - n
           /\ \A k \in 1..(Len(cs) - n) :
                 SubSeq(cs, n + 1, Len(cs))[k] = cs[n + k]
<1>1. /\ n + 1 \in Int /\ Len(cs) \in Int
      /\ \A k \in (n + 1)..Len(cs) : cs[k] \in Ips
  OBVIOUS
<1>2. /\ SubSeq(cs, n + 1, Len(cs)) \in Seq(Ips)
      /\ Len(SubSeq(cs, n + 1, Len(cs)))
            = IF n + 1 <= Len(cs) THEN Len(cs) - (n + 1) + 1 ELSE 0
      /\ \A k \in 1..(Len(cs) - (n + 1) + 1) :
            SubSeq(cs, n + 1, Len(cs))[k] = cs[(n + 1) + k - 1]
  BY <1>1, SubSeqProperties
<1>3. /\ Len(cs) - (n + 1) + 1 = Len(cs) - n
      /\ ~(n + 1 <= Len(cs)) => Len(cs) - n = 0
  BY <1>1
<1>4. \A k \in 1..(Len(cs) - n) : (n + 1) + k - 1 = n + k
  BY <1>1
<1>. QED
  BY <1>2, <1>3, <1>4

\* What removing a context leaves of the array.
LEMMA WithoutIs ==
    ASSUME NEW cs \in Seq(Ips), Distinct(cs), NEW i \in Range(cs)
    PROVE  \E n \in 1..Len(cs) :
              /\ cs[n] = i
              /\ Without(cs, i) \in Seq(Ips)
              /\ Len(Without(cs, i)) = Len(cs) - 1
              /\ \A k \in 1..(Len(cs) - 1) :
                    Without(cs, i)[k] = IF k < n THEN cs[k] ELSE cs[k + 1]
<1>1. Len(cs) \in Nat /\ DOMAIN cs = 1..Len(cs)
  OBVIOUS
<1>2. \E n \in DOMAIN cs : cs[n] = i
  BY DEF Range
<1>. DEFINE n == CHOOSE n \in DOMAIN cs : cs[n] = i
<1>3. n \in 1..Len(cs) /\ cs[n] = i
  BY <1>1, <1>2
<1>4. Without(cs, i) = SubSeq(cs, 1, n - 1) \o SubSeq(cs, n + 1, Len(cs))
  BY DEF Without, RemoveAt
<1>. HIDE DEF n
<1>. DEFINE s == SubSeq(cs, 1, n - 1)
            t == SubSeq(cs, n + 1, Len(cs))
<1>5. /\ s \in Seq(Ips) /\ Len(s) = n - 1
      /\ \A k \in 1..(n - 1) : s[k] = cs[k]
  BY <1>1, <1>3, SubSeqProperties
<1>6. /\ t \in Seq(Ips) /\ Len(t) = Len(cs) - n
      /\ \A k \in 1..(Len(cs) - n) : t[k] = cs[n + k]
  BY <1>3, Remainder
<1>. HIDE DEF s, t
<1>7. /\ s \o t \in Seq(Ips) /\ Len(s \o t) = Len(cs) - 1
      /\ \A k \in 1..(Len(cs) - 1) :
            (s \o t)[k] = IF k < n THEN s[k] ELSE t[k - (n - 1)]
  <2>1. /\ s \o t \in Seq(Ips)
        /\ Len(s \o t) = Len(s) + Len(t)
        /\ \A k \in 1..(Len(s) + Len(t)) :
              (s \o t)[k] = IF k <= Len(s) THEN s[k] ELSE t[k - Len(s)]
    BY <1>5, <1>6, ConcatProperties, Zenon
  <2>2. Len(s) + Len(t) = Len(cs) - 1 /\ Len(s) = n - 1
    BY <1>1, <1>3, <1>5, <1>6
  <2>3. \A k \in 1..(Len(cs) - 1) : k <= n - 1 <=> k < n
    BY <1>1, <1>3
  <2>. QED
    BY <2>1, <2>2, <2>3
<1>8. \A k \in 1..(Len(cs) - 1) :
            (s \o t)[k] = IF k < n THEN cs[k] ELSE cs[k + 1]
  <2>. SUFFICES ASSUME NEW k \in 1..(Len(cs) - 1)
                PROVE  (s \o t)[k] = IF k < n THEN cs[k] ELSE cs[k + 1]
    OBVIOUS
  <2>1. CASE k < n
    BY <1>1, <1>3, <1>5, <1>7, <2>1
  <2>2. CASE ~(k < n)
    <3>1. k - (n - 1) \in 1..(Len(cs) - n) /\ n + (k - (n - 1)) = k + 1
      BY <1>1, <1>3, <2>2
    <3>. QED
      BY <1>6, <1>7, <2>2, <3>1
  <2>. QED
    BY <2>1, <2>2
<1>. QED
  BY <1>3, <1>4, <1>7, <1>8 DEF s, t

\* Removing a context neither duplicates one nor moves the preferred one.
LEMMA WithoutKeeps ==
    ASSUME NEW cs \in Seq(Ips), Distinct(cs), NEW i \in Range(cs)
    PROVE  /\ Without(cs, i) \in Seq(Ips)
           /\ Distinct(Without(cs, i))
           /\ Range(Without(cs, i)) = Range(cs) \ {i}
           /\ Without(cs, i) # <<>> /\ i # Preferred(cs)
                 => Preferred(Without(cs, i)) = Preferred(cs)
<1>. DEFINE w == Without(cs, i)
<1>1. PICK n \in 1..Len(cs) :
              /\ cs[n] = i
              /\ w \in Seq(Ips)
              /\ Len(w) = Len(cs) - 1
              /\ \A k \in 1..(Len(cs) - 1) :
                    w[k] = IF k < n THEN cs[k] ELSE cs[k + 1]
  BY WithoutIs
<1>. HIDE DEF w
<1>2. /\ Len(cs) \in Nat /\ DOMAIN cs = 1..Len(cs)
      /\ DOMAIN w = 1..(Len(cs) - 1)
  BY <1>1
<1>3. \A k, l \in DOMAIN cs : cs[k] = cs[l] => k = l
  BY DEF Distinct
<1>4. Distinct(w)
  <2>. SUFFICES ASSUME NEW k \in 1..(Len(cs) - 1), NEW l \in 1..(Len(cs) - 1),
                       w[k] = w[l]
                PROVE  k = l
    BY <1>2 DEF Distinct
  <2>. DEFINE at(x) == IF x < n THEN x ELSE x + 1
  <2>1. at(k) \in DOMAIN cs /\ at(l) \in DOMAIN cs
    BY <1>2
  <2>2. w[k] = cs[at(k)] /\ w[l] = cs[at(l)]
    BY <1>1
  <2>3. at(k) = at(l)
    BY <1>3, <2>1, <2>2
  <2>. QED
    BY <1>2, <2>3
<1>5. Range(w) = Range(cs) \ {i}
  <2>1. Range(w) \subseteq Range(cs) \ {i}
    BY <1>1, <1>2, <1>3 DEF Range
  <2>2. ASSUME NEW j \in Range(cs) \ {i} PROVE j \in Range(w)
    <3>1. PICK k \in DOMAIN cs : cs[k] = j
      BY DEF Range
    <3>2. CASE k < n
      <4>1. k \in DOMAIN w /\ w[k] = j
        BY <1>1, <1>2, <3>1, <3>2
      <4>. QED
        BY <4>1 DEF Range
    <3>3. CASE ~(k < n)
      <4>1. k # n
        BY <1>1, <2>2, <3>1
      <4>2. k - 1 \in DOMAIN w /\ w[k - 1] = j
        BY <1>1, <1>2, <3>1, <3>3, <4>1
      <4>. QED
        BY <4>2 DEF Range
    <3>. QED
      BY <3>2, <3>3
  <2>. QED
    BY <2>1, <2>2
<1>6. ASSUME w # <<>>, i # Preferred(cs)
      PROVE  Preferred(w) = Preferred(cs)
  <2>1. cs # <<>> /\ 1 \in 1..Len(w)
    BY <1>1, <1>2, <1>6
  <2>2. PICK m \in 1..Len(cs) :
              /\ Preferred(cs) = cs[m]
              /\ \/ /\ LoopbackAt(cs) = {} /\ m = 1
                 \/ /\ m \in LoopbackAt(cs)
                    /\ \A k \in LoopbackAt(cs) : m <= k
    BY <2>1, PreferredAt
  <2>3. m # n
    BY <1>1, <1>6, <2>2
  <2>4. \A k \in DOMAIN cs : k \in LoopbackAt(cs) <=> cs[k] \in Loopback
    BY DEF LoopbackAt
  <2>5. \A k \in DOMAIN w : k \in LoopbackAt(w) <=> w[k] \in Loopback
    BY DEF LoopbackAt
  <2>6. LoopbackAt(w) \subseteq DOMAIN w
    BY DEF LoopbackAt
  <2>7. CASE LoopbackAt(cs) = {} /\ m = 1
    <3>1. LoopbackAt(w) = {}
      BY <1>1, <1>2, <2>4, <2>5, <2>6, <2>7
    <3>2. w[1] = cs[1]
      BY <1>1, <1>2, <2>1, <2>3, <2>7
    <3>. QED
      BY <1>1, <2>1, <2>2, <2>7, <3>1, <3>2, PreferredIs
  <2>8. CASE m \in LoopbackAt(cs) /\ \A k \in LoopbackAt(cs) : m <= k
    <3>. DEFINE q == IF m < n THEN m ELSE m - 1
    <3>1. q \in 1..Len(w) /\ w[q] = cs[m]
      BY <1>1, <1>2, <2>3
    <3>2. q \in LoopbackAt(w)
      BY <1>1, <1>2, <2>4, <2>5, <2>8, <3>1
    <3>3. \A k \in LoopbackAt(w) : q <= k
      <4>. TAKE k \in LoopbackAt(w)
      <4>1. k \in 1..(Len(cs) - 1) /\ w[k] \in Loopback
        BY <1>2, <2>5, <2>6
      <4>2. IF k < n THEN k \in LoopbackAt(cs) ELSE k + 1 \in LoopbackAt(cs)
        BY <1>1, <1>2, <2>4, <4>1
      <4>. QED
        BY <2>3, <2>8, <4>1, <4>2
    <3>. HIDE DEF q
    <3>. QED
      BY <1>1, <2>2, <3>1, <3>2, <3>3, PreferredIs
  <2>. QED
    BY <2>2, <2>7, <2>8
<1>. QED
  BY <1>1, <1>4, <1>5, <1>6 DEF w

\* The preferred context is one of the array, and the only one of <<i>>.
LEMMA PreferredIn ==
    ASSUME NEW cs \in Seq(Ips), cs # <<>>
    PROVE  Preferred(cs) \in Ips /\ Preferred(cs) \in Range(cs)
<1>1. PICK n \in 1..Len(cs) : Preferred(cs) = cs[n]
  BY PreferredAt
<1>. QED
  BY <1>1 DEF Range

\* What a sequence gains when a context is appended.
LEMMA AppendIs ==
    ASSUME NEW cs \in Seq(Ips), NEW i \in Ips \ Range(cs), Distinct(cs)
    PROVE  /\ Append(cs, i) \in Seq(Ips) /\ Append(cs, i) # <<>>
           /\ Distinct(Append(cs, i))
           /\ Range(Append(cs, i)) = Range(cs) \cup {i}
<1>1. /\ Append(cs, i) \in Seq(Ips) /\ Len(Append(cs, i)) = Len(cs) + 1
      /\ DOMAIN Append(cs, i) = 1..(Len(cs) + 1) /\ Len(cs) \in Nat
      /\ Append(cs, i)[Len(cs) + 1] = i
      /\ \A k \in DOMAIN cs : Append(cs, i)[k] = cs[k]
      /\ DOMAIN cs = 1..Len(cs)
  OBVIOUS
<1>2. Append(cs, i) # <<>>
  BY <1>1
<1>3. \A k \in DOMAIN cs : cs[k] # i
  BY DEF Range
<1>. DEFINE a == Append(cs, i)
<1>. HIDE DEF a
<1>4. \A k \in DOMAIN a : k \in DOMAIN cs \/ k = Len(cs) + 1
  BY <1>1 DEF a
<1>5. Distinct(a)
  BY <1>1, <1>3, <1>4 DEF Distinct, a
<1>6. Range(a) = Range(cs) \cup {i}
  <2>1. \A k \in DOMAIN cs : k \in DOMAIN a /\ a[k] = cs[k]
    BY <1>1 DEF a
  <2>2. Len(cs) + 1 \in DOMAIN a /\ a[Len(cs) + 1] = i
    BY <1>1 DEF a
  <2>. QED
    BY <1>4, <2>1, <2>2, Zenon DEF Range
<1>. QED
  BY <1>1, <1>2, <1>5, <1>6 DEF a

----------------------------------------------------------------------------
(***************************************************************************)
(* The invariant.  A flag that is set also has a callback registered, and  *)
(* its context a handler connected: without that, removing a callback or   *)
(* counting the handlers of a loss says nothing.  That the contexts are    *)
(* gone while the renderer is unknown, and there while it is constructed   *)
(* and known, is what keeps an earlier life's subscriptions out of a later *)
(* one.                                                                    *)
(***************************************************************************)
Registered ==
    \A p \in subscribed : notify[p] >= 1 /\ handlers[p[1]] >= 1

UnknownHasNone == phase = "unknown" => contexts = <<>>

ConstructedHasSome ==
    phase \in {"info", "calling", "lost", "subscribe", "declare", "ending",
               "known"}
        => contexts # <<>>

ListenTypeOK ==
    /\ subscribed \subseteq Proxies /\ retry \subseteq Proxies
    /\ live \subseteq Proxies
    /\ notify \in [Proxies -> Nat]
    /\ handlers \in [Ips -> Nat]

\* What the flags say of the subscriptions, wherever they are.
Listening == ListenTypeOK /\ Registered /\ SubscribedIsHeard

IndInv ==
    /\ TypeOK
    /\ ContextsArePresent /\ UnknownHasNone /\ ConstructedHasSome
    /\ SubscribedIsPreferred /\ SubscribedIsHeard /\ Registered

LEMMA IndInvListening == IndInv => Listening
  BY DEF IndInv, Listening, ListenTypeOK, TypeOK

\* Switching from the contexts off to those in on: what is subscribed
\* afterwards is heard.
LEMMA SwitchListens ==
    ASSUME Listening, NEW off, NEW on \in SUBSET Ips, Switch(off, on)
    PROVE  /\ Listening'
           /\ \A p \in subscribed' : p[1] \in on \/ (p \in subscribed /\ p[1] \notin off)
<1>. DEFINE added == on \X Services
<1>1. added \subseteq Proxies /\ \A p \in added : p[1] \in on
  BY DEF Proxies
<1>. HIDE DEF added
<1>2. /\ subscribed' = (subscribed \ Dropped(off)) \cup added
      /\ live' = (live \ Dropped(off)) \cup added
      /\ notify' = [p \in Proxies |->
                      (notify[p] + IF p \in added THEN 1 ELSE 0)
                      - IF p \in Dropped(off) THEN 1 ELSE 0]
      /\ handlers' = [i \in Ips |-> handlers[i] + IF i \in on THEN 1 ELSE 0]
      /\ retry' = {p \in retry : p[1] \notin off}
  BY DEF Switch, added
<1>3. \A p \in Dropped(off) : p \in subscribed /\ p[1] \in off
  BY DEF Dropped
<1>4. \A p \in subscribed : p[1] \in off => p \in Dropped(off)
  BY DEF Dropped
<1>5. \A p \in Proxies : p[1] \in Ips
  BY DEF Proxies
<1>6. /\ subscribed \subseteq Proxies /\ retry \subseteq Proxies
      /\ live \subseteq Proxies
      /\ notify \in [Proxies -> Nat] /\ handlers \in [Ips -> Nat]
      /\ \A p \in subscribed : notify[p] >= 1 /\ handlers[p[1]] >= 1
      /\ \A p \in subscribed : p[2] # "rc" => p \in live
  BY DEF Listening, ListenTypeOK, Registered, SubscribedIsHeard
<1>7. \A p \in Proxies :
        /\ notify'[p] \in Nat
        /\ p \in added => notify'[p] >= 1
        /\ p \notin Dropped(off) => notify'[p] >= notify[p]
  <2>. SUFFICES ASSUME NEW p \in Proxies
                PROVE  /\ notify'[p] \in Nat
                       /\ p \in added => notify'[p] >= 1
                       /\ p \notin Dropped(off) => notify'[p] >= notify[p]
    OBVIOUS
  <2>1. notify[p] \in Nat /\ (p \in Dropped(off) => notify[p] >= 1)
    BY <1>3, <1>6
  <2>2. notify'[p] = (notify[p] + IF p \in added THEN 1 ELSE 0)
                     - IF p \in Dropped(off) THEN 1 ELSE 0
    BY <1>2
  <2>. QED
    BY <2>1, <2>2
<1>8. \A i \in Ips : /\ handlers'[i] \in Nat
                     /\ handlers'[i] >= handlers[i]
                     /\ i \in on => handlers'[i] >= 1
  BY <1>2, <1>6
<1>9. ListenTypeOK'
  <2>1. /\ subscribed' \subseteq Proxies /\ retry' \subseteq Proxies
        /\ live' \subseteq Proxies
    BY <1>1, <1>2, <1>6
  <2>2. notify' \in [Proxies -> Nat]
    BY <1>2, <1>7
  <2>3. handlers' \in [Ips -> Nat]
    BY <1>2, <1>8
  <2>. QED
    BY <2>1, <2>2, <2>3 DEF ListenTypeOK
<1>10. \A p \in subscribed' : p \in added \/ (p \in subscribed /\ p \notin Dropped(off))
  BY <1>2
<1>11. Registered'
  <2>. SUFFICES ASSUME NEW p \in subscribed'
                PROVE  notify'[p] >= 1 /\ handlers'[p[1]] >= 1
    BY DEF Registered
  <2>1. CASE p \in added
    BY <1>1, <1>5, <1>7, <1>8, <2>1
  <2>2. CASE p \in subscribed /\ p \notin Dropped(off)
    <3>1. p \in Proxies /\ p[1] \in Ips
      BY <1>5, <1>6, <2>2
    <3>2. /\ notify[p] \in Nat /\ notify[p] >= 1
          /\ handlers[p[1]] \in Nat /\ handlers[p[1]] >= 1
      BY <1>6, <2>2, <3>1
    <3>. QED
      BY <1>7, <1>8, <2>2, <3>1, <3>2
  <2>. QED
    BY <1>10, <2>1, <2>2
<1>12. SubscribedIsHeard'
  <2>1. \A p \in subscribed' : p[2] # "rc" => p \in live'
    BY <1>2, <1>6, <1>10
  <2>. QED
    BY <1>11, <2>1 DEF Registered, SubscribedIsHeard
<1>. QED
  BY <1>1, <1>4, <1>9, <1>10, <1>11, <1>12 DEF Listening

\* When all that is subscribed is on context c, c is the subscribed context.
LEMMA SubscribedContextIs ==
    ASSUME subscribed \subseteq Proxies, NEW cs \in Seq(Ips), NEW c \in Range(cs),
           \A p \in subscribed : p[1] = c
    PROVE  SubscribedContext(cs) = IF subscribed = {} THEN {} ELSE {c}
<1>. DEFINE at == {n \in DOMAIN cs :
                     \E s \in Services : <<cs[n], s>> \in subscribed}
            first == {m \in at : \A k \in at : m <= k}
<1>1. SubscribedContext(cs) = {cs[n] : n \in first}
  BY DEF SubscribedContext
<1>2. \A n \in at : cs[n] = c
  <2>. SUFFICES ASSUME NEW n \in at PROVE cs[n] = c
    OBVIOUS
  <2>1. PICK s \in Services : <<cs[n], s>> \in subscribed
    OBVIOUS
  <2>2. <<cs[n], s>>[1] = c
    BY <2>1
  <2>. QED
    BY <2>2
<1>3. CASE subscribed = {}
  BY <1>1, <1>3
<1>4. CASE subscribed # {}
  <2>1. PICK p \in subscribed : TRUE
    BY <1>4
  <2>2. PICK n \in DOMAIN cs : cs[n] = c
    BY DEF Range
  <2>3. p[2] \in Services /\ p = <<c, p[2]>>
    BY <2>1 DEF Proxies
  <2>4. n \in at
    BY <2>1, <2>2, <2>3
  <2>5. at \in SUBSET Nat /\ at # {}
    BY <2>4
  <2>6. \E m \in at : \A k \in at : m <= k
    BY <2>5, LeastExists
  <2>7. PICK m \in first : TRUE
    BY <2>6
  <2>8. \A k \in first : cs[k] = c
    BY <1>2
  <2>. QED
    BY <1>1, <1>4, <2>7, <2>8
<1>. QED
  BY <1>3, <1>4

\* prv_device_subscribe_context leaves the preferred context the only one
\* that is subscribed to.
LEMMA SubscribeContextListens ==
    ASSUME Listening, NEW cs \in Seq(Ips), cs # <<>>, NEW c \in Range(cs),
           \A p \in subscribed : p[1] = c,
           SubscribeContext(cs)
    PROVE  Listening' /\ \A p \in subscribed' : p[1] = Preferred(cs)
<1>1. subscribed \subseteq Proxies
  BY DEF Listening, ListenTypeOK
<1>2. SubscribedContext(cs) = IF subscribed = {} THEN {} ELSE {c}
  BY <1>1, SubscribedContextIs
<1>3. Preferred(cs) \in Ips
  BY PreferredIn
<1>4. CASE SubscribedContext(cs) = {Preferred(cs)} /\ UNCHANGED listenVars
  <2>1. c = Preferred(cs)
    BY <1>2, <1>4
  <2>2. UNCHANGED <<subscribed, retry, live, notify, handlers>>
    BY <1>4 DEF listenVars
  <2>3. Listening'
    BY <2>2 DEF Listening, ListenTypeOK, Registered, SubscribedIsHeard
  <2>. QED
    BY <2>1, <2>2, <2>3
<1>5. CASE Switch(SubscribedContext(cs), {Preferred(cs)})
  <2>1. /\ Listening'
        /\ \A p \in subscribed' :
              p[1] \in {Preferred(cs)}
                 \/ (p \in subscribed /\ p[1] \notin SubscribedContext(cs))
    BY <1>3, <1>5, SwitchListens
  <2>. QED
    BY <1>2, <2>1
<1>. QED
  BY <1>4, <1>5 DEF SubscribeContext

\* Contexts that go take their subscriptions with them.
LEMMA DeleteListens ==
    ASSUME Listening, NEW I, DeleteContexts(I)
    PROVE  /\ Listening'
           /\ subscribed' = {p \in subscribed : p[1] \notin I}
<1>1. /\ subscribed' = {p \in subscribed : p[1] \notin I}
      /\ retry' = {p \in retry : p[1] \notin I}
      /\ live' = {p \in live : p[1] \notin I}
      /\ notify' = [p \in Proxies |-> IF p[1] \in I THEN 0 ELSE notify[p]]
      /\ handlers' = [i \in Ips |-> IF i \in I THEN 0 ELSE handlers[i]]
  BY DEF DeleteContexts
<1>2. ListenTypeOK
  BY DEF Listening
<1>3. ListenTypeOK'
  BY <1>1, <1>2 DEF ListenTypeOK
<1>4. \A p \in subscribed' : /\ p \in subscribed /\ p \in Proxies /\ p[1] \in Ips
                             /\ notify'[p] = notify[p]
                             /\ handlers'[p[1]] = handlers[p[1]]
                             /\ p \in live => p \in live'
  <2>1. \A p \in Proxies : p[1] \in Ips
    BY DEF Proxies
  <2>. QED
    BY <1>1, <1>2, <2>1 DEF ListenTypeOK
<1>. QED
  BY <1>1, <1>3, <1>4 DEF Listening, Registered, SubscribedIsHeard

\* The handlers of a lost subscription: what they leave subscribed they have
\* subscribed again.
LEMMA HandledListens ==
    ASSUME Listening, NEW lost \in Proxies,
           Handled(HandledBy(lost), handlers[lost[1]], {lost})
    PROVE  Listening' /\ subscribed' \subseteq subscribed
<1>. DEFINE P == HandledBy(lost)
            n == handlers[lost[1]]
<1>1. /\ ListenTypeOK
      /\ \A p \in subscribed : notify[p] >= 1 /\ handlers[p[1]] >= 1
      /\ \A p \in subscribed : p[2] # "rc" => p \in live
  BY DEF Listening, Registered, SubscribedIsHeard
<1>2. lost[1] \in Ips /\ lost[2] \in Services /\ lost = <<lost[1], lost[2]>>
  BY DEF Proxies
<1>3. /\ P \subseteq Proxies /\ \A p \in P : p[1] = lost[1]
      /\ lost[2] # "rc" => lost \in P
  <2>1. lost[2] \in {"cm", "av", "rc"}
    BY <1>2, RendererAssumption DEF RendererAssumption
  <2>2. CASE lost[2] = "cm"
    BY <2>2 DEF HandledBy
  <2>3. CASE lost[2] = "av"
    BY <1>2, <2>3 DEF HandledBy, Proxies
  <2>4. CASE lost[2] = "rc"
    BY <2>4 DEF HandledBy
  <2>. QED
    BY <2>1, <2>2, <2>3, <2>4
<1>4. n \in Nat
  BY <1>1, <1>2 DEF ListenTypeOK
<1>. HIDE DEF P, n
<1>5. /\ subscribed' = subscribed \ {p \in P : GiveUps(p, n) > 0}
      /\ retry' = {p \in Proxies : IF p \in P THEN Armed(p, n) ELSE p \in retry}
      /\ live' = (live \ {lost}) \cup {p \in P : n > GiveUps(p, n)}
      /\ notify' = [p \in Proxies |->
                      notify[p] - IF p \in P
                                  THEN AtMost(GiveUps(p, n), notify[p]) ELSE 0]
      /\ handlers' = handlers
  BY DEF Handled, P, n
<1>6. \A p \in P : GiveUps(p, n) \in Nat
  BY <1>4 DEF GiveUps
<1>7. \A p \in Proxies : /\ notify'[p] \in Nat
                         /\ p \in subscribed' => notify'[p] = notify[p]
  <2>. SUFFICES ASSUME NEW p \in Proxies
                PROVE  /\ notify'[p] \in Nat
                       /\ p \in subscribed' => notify'[p] = notify[p]
    OBVIOUS
  <2>1. notify[p] \in Nat
    BY <1>1 DEF ListenTypeOK
  <2>2. notify'[p] = notify[p] - IF p \in P
                                 THEN AtMost(GiveUps(p, n), notify[p]) ELSE 0
    BY <1>5
  <2>3. CASE p \notin P
    BY <2>1, <2>2, <2>3
  <2>4. CASE p \in P
    <3>1. GiveUps(p, n) \in Nat
      BY <1>6, <2>4
    <3>2. /\ AtMost(GiveUps(p, n), notify[p]) \in 0..notify[p]
          /\ GiveUps(p, n) = 0 => AtMost(GiveUps(p, n), notify[p]) = 0
      BY <2>1, <3>1 DEF AtMost
    <3>3. p \in subscribed' => GiveUps(p, n) = 0
      BY <1>5, <2>4, <3>1
    <3>. QED
      BY <2>1, <2>2, <2>4, <3>2, <3>3
  <2>. QED
    BY <2>3, <2>4
<1>8. ListenTypeOK'
  <2>1. /\ subscribed' \subseteq Proxies /\ retry' \subseteq Proxies
        /\ live' \subseteq Proxies
    BY <1>1, <1>3, <1>5 DEF ListenTypeOK
  <2>2. notify' \in [Proxies -> Nat]
    BY <1>5, <1>7
  <2>. QED
    BY <1>1, <1>5, <2>1, <2>2 DEF ListenTypeOK
<1>9. \A p \in subscribed' : /\ notify'[p] >= 1 /\ handlers'[p[1]] >= 1
                             /\ p[2] # "rc" => p \in live'
  <2>. SUFFICES ASSUME NEW p \in subscribed'
                PROVE  /\ notify'[p] >= 1 /\ handlers'[p[1]] >= 1
                       /\ p[2] # "rc" => p \in live'
    OBVIOUS
  <2>1. p \in subscribed /\ p \in Proxies
    BY <1>1, <1>5 DEF ListenTypeOK
  <2>2. notify'[p] >= 1 /\ handlers'[p[1]] >= 1
    BY <1>1, <1>5, <1>7, <2>1
  <2>3. ASSUME p[2] # "rc" PROVE p \in live'
    <3>1. CASE p \in P
      <4>1. GiveUps(p, n) \in Nat /\ ~(GiveUps(p, n) > 0)
        BY <1>5, <1>6, <3>1
      <4>2. n >= 1
        BY <1>1, <1>3, <2>1, <3>1 DEF n
      <4>3. n > GiveUps(p, n)
        BY <1>4, <4>1, <4>2
      <4>. QED
        BY <1>5, <3>1, <4>3
    <3>2. CASE p \notin P
      <4>1. p # lost
        BY <1>3, <2>3, <3>2
      <4>. QED
        BY <1>1, <1>5, <2>1, <2>3, <4>1
    <3>. QED
      BY <3>1, <3>2
  <2>. QED
    BY <2>2, <2>3
<1>. QED
  BY <1>5, <1>8, <1>9 DEF Listening, Registered, SubscribedIsHeard

----------------------------------------------------------------------------
(***************************************************************************)
(* The steps.                                                              *)
(***************************************************************************)
LEMMA InitIndInv == Init => IndInv
<1>. SUFFICES ASSUME Init PROVE IndInv
  OBVIOUS
<1>1. TypeOK
  <2>1. phase \in Phases
    BY DEF Init, Phases
  <2>2. notify \in [Proxies -> Nat] /\ handlers \in [Ips -> Nat]
    BY DEF Init
  <2>3. timer \in BOOLEAN
    BY Zenon DEF Init
  <2>. QED
    BY <2>1, <2>2, <2>3 DEF Init, TypeOK
<1>2. ContextsArePresent
  BY DEF Init, ContextsArePresent, Range
<1>. QED
  BY <1>1, <1>2 DEF Init, IndInv, UnknownHasNone, ConstructedHasSome,
                    SubscribedIsPreferred, SubscribedIsHeard, Registered

\* The parts of the invariant, put together again.
LEMMA IndInvFromParts ==
    ASSUME Listening',
           /\ present' \subseteq Ips /\ phase' \in Phases
           /\ via' \in Ips \cup {NoIp} /\ contexts' \in Seq(Ips)
           /\ timer' \in BOOLEAN
           /\ shutdown' \in {"no", "quitting", "unsubscribed"},
           Distinct(contexts'), Range(contexts') \subseteq present',
           UnknownHasNone', ConstructedHasSome', SubscribedIsPreferred'
    PROVE  IndInv'
  BY DEF IndInv, TypeOK, Listening, ListenTypeOK, ContextsArePresent, Distinct

\* Every subscribed proxy is one of the preferred context.
LEMMA SubscribedSomewhere ==
    ASSUME IndInv, contexts # <<>>
    PROVE  /\ \A p \in subscribed : p[1] = Preferred(contexts)
           /\ Preferred(contexts) \in Range(contexts)
           /\ Preferred(contexts) \in Ips
  BY PreferredIn DEF IndInv, SubscribedIsPreferred, TypeOK

\* rsu_device_append_new_context
LEMMA AppendContextListens ==
    ASSUME IndInv, NEW i \in Ips \ Range(contexts), AppendContext(i)
    PROVE  /\ Listening' /\ SubscribedIsPreferred'
           /\ contexts' \in Seq(Ips) /\ contexts' # <<>>
           /\ Distinct(contexts')
           /\ Range(contexts') = Range(contexts) \cup {i}
<1>1. contexts \in Seq(Ips) /\ Distinct(contexts) /\ Listening
  BY IndInvListening DEF IndInv, TypeOK, ContextsArePresent, Distinct
<1>2. contexts' = Append(contexts, i) /\ SubscribeContext(contexts')
  BY DEF AppendContext
<1>3. /\ contexts' \in Seq(Ips) /\ contexts' # <<>>
      /\ Distinct(contexts')
      /\ Range(contexts') = Range(contexts) \cup {i}
  BY <1>1, <1>2, AppendIs
<1>4. \E c \in Range(contexts') : \A p \in subscribed : p[1] = c
  <2>1. CASE contexts = <<>>
    BY <1>3, <2>1 DEF IndInv, SubscribedIsPreferred
  <2>2. CASE contexts # <<>>
    BY <1>3, <2>2, SubscribedSomewhere
  <2>. QED
    BY <2>1, <2>2
<1>5. PICK c \in Range(contexts') : \A p \in subscribed : p[1] = c
  BY <1>4
<1>6. Listening' /\ \A p \in subscribed' : p[1] = Preferred(contexts')
  BY <1>1, <1>2, <1>3, <1>5, SubscribeContextListens
<1>. QED
  BY <1>3, <1>6 DEF SubscribedIsPreferred

\* What a step that leaves the contexts and their subscriptions alone owes.
LEMMA PhaseStep ==
    ASSUME IndInv,
           UNCHANGED <<present, via, contexts, listenVars>>,
           phase' \in Phases, timer' \in BOOLEAN,
           shutdown' \in {"no", "quitting", "unsubscribed"},
           phase' = "unknown" => contexts = <<>>,
           phase' \in {"info", "calling", "lost", "subscribe", "declare",
                       "ending", "known"} => contexts # <<>>
    PROVE  IndInv'
<1>1. UNCHANGED <<subscribed, retry, live, notify, handlers, present, via, contexts>>
  BY DEF listenVars
<1>2. TypeOK'
  BY <1>1 DEF IndInv, TypeOK
<1>3. ContextsArePresent'
  BY <1>1 DEF IndInv, ContextsArePresent
<1>4. SubscribedIsPreferred' /\ SubscribedIsHeard' /\ Registered'
  BY <1>1 DEF IndInv, SubscribedIsPreferred, SubscribedIsHeard, Registered
<1>5. UnknownHasNone' /\ ConstructedHasSome'
  BY <1>1 DEF UnknownHasNone, ConstructedHasSome
<1>. QED
  BY <1>2, <1>3, <1>4, <1>5 DEF IndInv

LEMMA AvailablePreserves ==
    ASSUME IndInv, NEW i \in Ips, Available(i)
    PROVE  IndInv'
<1>1. TypeOK /\ Listening
  BY IndInvListening DEF IndInv
<1>2. present' = present \cup {i} /\ UNCHANGED <<timer, shutdown>>
  BY DEF Available
<1>3. CASE /\ phase = "unknown" /\ phase' = "info" /\ via' = i
           /\ contexts' = <<i>> /\ UNCHANGED listenVars
  <2>1. contexts = <<>> /\ subscribed = {}
    BY <1>3 DEF IndInv, UnknownHasNone, SubscribedIsPreferred
  <2>2. /\ contexts' \in Seq(Ips) /\ contexts' # <<>>
        /\ Distinct(contexts') /\ Range(contexts') = {i}
    BY <1>3 DEF Distinct, Range
  <2>3. UNCHANGED <<subscribed, retry, live, notify, handlers>>
    BY <1>3 DEF listenVars
  <2>4. Listening' /\ SubscribedIsPreferred'
    BY <1>1, <2>1, <2>3
       DEF Listening, ListenTypeOK, Registered, SubscribedIsHeard,
           SubscribedIsPreferred
  <2>5. UnknownHasNone' /\ ConstructedHasSome'
    BY <1>3, <2>2 DEF UnknownHasNone, ConstructedHasSome
  <2>6. phase' \in Phases
    BY <1>3 DEF Phases, Queued
  <2>. QED
    BY <1>1, <1>2, <1>3, <2>2, <2>4, <2>5, <2>6, IndInvFromParts DEF TypeOK
<1>4. CASE /\ phase # "unknown" /\ i \notin Range(contexts)
           /\ AppendContext(i) /\ UNCHANGED <<phase, via>>
  <2>1. /\ Listening' /\ SubscribedIsPreferred'
        /\ contexts' \in Seq(Ips) /\ contexts' # <<>>
        /\ Distinct(contexts')
        /\ Range(contexts') = Range(contexts) \cup {i}
    BY <1>4, AppendContextListens
  <2>2. Range(contexts) \subseteq present
    BY DEF IndInv, ContextsArePresent
  <2>3. UnknownHasNone' /\ ConstructedHasSome'
    BY <1>4, <2>1 DEF UnknownHasNone, ConstructedHasSome
  <2>. QED
    BY <1>1, <1>2, <1>4, <2>1, <2>2, <2>3, IndInvFromParts DEF TypeOK
<1>. QED
  BY <1>3, <1>4 DEF Available

\* Every way a queue can end leaves a phase that asks for no context.
LEMMA CancelledIs ==
    ASSUME phase \in Phases \ ({"known", "unknown"} \cup Stopped)
    PROVE  Cancelled \subseteq {"stuck", "cancelled", "halted", "crashed"}
<1>1. Completed("cancelled") \subseteq {"cancelled", "halted"}
  BY DEF Completed
<1>2. phase \in Queued \/ phase \in ChainEnding
  BY DEF Phases
<1>3. CASE phase = "stuck"
  BY <1>3 DEF Cancelled
<1>4. CASE phase \in {"calling", "lost"}
  BY <1>1, <1>4 DEF Cancelled
<1>5. CASE phase \in Queued \ {"stuck", "calling", "lost"}
  BY <1>5 DEF Cancelled
<1>6. CASE phase \in ChainEnding
  BY <1>6 DEF Cancelled, ChainEnding, Queued
<1>. QED
  BY <1>2, <1>3, <1>4, <1>5, <1>6

LEMMA LoseContextPreserves ==
    ASSUME IndInv, NEW i \in Range(contexts), LoseContext(i), phase # "unknown",
           present' = present \ {i}, via' = IF via = i THEN NoIp ELSE via,
           UNCHANGED shutdown
    PROVE  IndInv'
<1>1. /\ TypeOK /\ Listening /\ Distinct(contexts)
      /\ Range(contexts) \subseteq present
  BY IndInvListening DEF IndInv, ContextsArePresent, Distinct
<1>2. /\ contexts' = Without(contexts, i) /\ contexts' # <<>>
      /\ phase' = IF phase = "calling" /\ via = i THEN "lost" ELSE phase
      /\ timer' = (timer \/ Resubscribe(i))
      /\ DeleteContexts({i})
  BY DEF LoseContext
<1>3. /\ contexts' \in Seq(Ips) /\ Distinct(contexts')
      /\ Range(contexts') = Range(contexts) \ {i}
      /\ i # Preferred(contexts) => Preferred(contexts') = Preferred(contexts)
  BY <1>1, <1>2, WithoutKeeps DEF TypeOK
<1>4. Listening' /\ subscribed' = {p \in subscribed : p[1] \notin {i}}
  BY <1>1, <1>2, DeleteListens
<1>5. SubscribedIsPreferred'
  BY <1>2, <1>3, <1>4 DEF IndInv, SubscribedIsPreferred
<1>6. UnknownHasNone' /\ ConstructedHasSome'
  BY <1>2 DEF UnknownHasNone, ConstructedHasSome
<1>7. phase' \in Phases
  BY <1>1, <1>2 DEF TypeOK, Phases, Queued
<1>8. timer' \in BOOLEAN
  BY <1>2, Zenon
<1>. QED
  BY <1>1, <1>3, <1>4, <1>5, <1>6, <1>7, <1>8, IndInvFromParts DEF TypeOK

\* rsu_device_delete: nothing is left to listen on.
LEMMA DeleteDeviceEmpties ==
    ASSUME IndInv, DeleteDevice
    PROVE  /\ Listening' /\ SubscribedIsPreferred'
           /\ contexts' = <<>> /\ contexts' \in Seq(Ips)
           /\ Distinct(contexts') /\ Range(contexts') = {}
           /\ timer' \in BOOLEAN
<1>1. contexts' = <<>> /\ DeleteContexts(Ips) /\ timer' = FALSE
  BY DEF DeleteDevice
<1>2. Listening /\ subscribed \subseteq Ips \X Services
  BY IndInvListening DEF IndInv, TypeOK, Proxies
<1>3. Listening' /\ subscribed' = {p \in subscribed : p[1] \notin Ips}
  BY <1>1, <1>2, DeleteListens
<1>4. subscribed' = {}
  BY <1>2, <1>3
<1>5. timer' \in BOOLEAN
  BY <1>1, Zenon
<1>6. SubscribedIsPreferred'
  BY <1>4 DEF SubscribedIsPreferred
<1>7. contexts' \in Seq(Ips) /\ Distinct(contexts') /\ Range(contexts') = {}
  BY <1>1 DEF Distinct, Range
<1>. QED
  BY <1>1, <1>3, <1>5, <1>6, <1>7

LEMMA LoseLastContextPreserves ==
    ASSUME IndInv, NEW i \in Range(contexts), LoseLastContext(i),
           phase # "unknown", Running,
           present' = present \ {i}, via' = IF via = i THEN NoIp ELSE via,
           UNCHANGED shutdown
    PROVE  IndInv'
<1>1. TypeOK /\ Listening /\ contexts = <<i>>
  BY IndInvListening DEF IndInv, LoseLastContext
<1>2. CASE phase = "known" /\ phase' = "unknown" /\ DeleteDevice
  <2>1. /\ Listening' /\ SubscribedIsPreferred'
        /\ contexts' = <<>> /\ contexts' \in Seq(Ips)
        /\ Distinct(contexts') /\ Range(contexts') = {}
        /\ timer' \in BOOLEAN
    BY <1>2, DeleteDeviceEmpties
  <2>2. UnknownHasNone' /\ ConstructedHasSome' /\ phase' \in Phases
    BY <1>2, <2>1 DEF UnknownHasNone, ConstructedHasSome, Phases
  <2>. QED
    BY <1>1, <2>1, <2>2, IndInvFromParts DEF TypeOK
<1>3. CASE /\ phase # "known" /\ phase' \in Cancelled /\ contexts' = <<>>
           /\ DeleteContexts({i}) /\ UNCHANGED timer
  <2>1. phase' \in {"stuck", "cancelled", "halted", "crashed"}
    BY <1>1, <1>3, CancelledIs DEF TypeOK, Running
  <2>2. Listening' /\ subscribed' = {p \in subscribed : p[1] \notin {i}}
    BY <1>1, <1>3, DeleteListens
  <2>3. \A p \in subscribed : p[1] = i
    <3>1. Preferred(contexts) \in Range(contexts) /\ Range(contexts) = {i}
      BY <1>1, SubscribedSomewhere DEF Range
    <3>. QED
      BY <1>1, <3>1, SubscribedSomewhere
  <2>4. subscribed' = {}
    BY <2>2, <2>3
  <2>5. /\ SubscribedIsPreferred' /\ UnknownHasNone' /\ ConstructedHasSome'
        /\ phase' \in Phases
    BY <2>1, <2>4 DEF SubscribedIsPreferred, UnknownHasNone,
                      ConstructedHasSome, Phases, Queued, ChainEnding, Stopped
  <2>6. /\ contexts' \in Seq(Ips) /\ Distinct(contexts')
        /\ Range(contexts') = {}
    BY <1>3 DEF Distinct, Range
  <2>. QED
    BY <1>1, <1>3, <2>2, <2>5, <2>6, IndInvFromParts DEF TypeOK
<1>. QED
  BY <1>1, <1>2, <1>3 DEF LoseLastContext

LEMMA UnavailablePreserves ==
    ASSUME IndInv, NEW i \in Ips, Unavailable(i)
    PROVE  IndInv'
<1>1. Running /\ present' = present \ {i} /\ UNCHANGED shutdown
  BY DEF Unavailable
<1>2. CASE /\ phase # "unknown" /\ i \in Range(contexts)
           /\ LoseContext(i) \/ LoseLastContext(i)
           /\ via' = IF via = i THEN NoIp ELSE via
  BY <1>1, <1>2, LoseContextPreserves, LoseLastContextPreserves
<1>3. CASE /\ phase = "unknown" \/ i \notin Range(contexts)
           /\ UNCHANGED <<phase, via, contexts, listenVars, timer>>
  <2>1. UNCHANGED <<phase, via, contexts, timer,
                    subscribed, retry, live, notify, handlers>>
    BY <1>3 DEF listenVars
  <2>2. Listening' /\ SubscribedIsPreferred'
    BY <2>1, IndInvListening
       DEF IndInv, Listening, ListenTypeOK, Registered, SubscribedIsHeard,
           SubscribedIsPreferred
  <2>3. UnknownHasNone' /\ ConstructedHasSome'
    BY <2>1 DEF IndInv, UnknownHasNone, ConstructedHasSome
  <2>4. Distinct(contexts') /\ Range(contexts') \subseteq present'
    <3>1. phase = "unknown" => Range(contexts) = {}
      BY DEF IndInv, UnknownHasNone, Range
    <3>. QED
      BY <1>1, <1>3, <2>1, <3>1 DEF IndInv, ContextsArePresent, Distinct
  <2>5. present' \subseteq Ips /\ TypeOK
    BY <1>1 DEF IndInv, TypeOK
  <2>. QED
    BY <1>1, <2>1, <2>2, <2>3, <2>4, <2>5, IndInvFromParts DEF TypeOK
<1>. QED
  BY <1>2, <1>3 DEF Unavailable

LEMMA ConstructPreserves == IndInv /\ Construct => IndInv'
<1>. SUFFICES ASSUME IndInv, Construct PROVE IndInv'
  OBVIOUS
<1>1. TypeOK /\ ConstructedHasSome /\ UnknownHasNone
  BY DEF IndInv
<1>2. \A to : Completed(to) \subseteq {to, "halted"}
  BY DEF Completed
<1>3. "halted" \in Phases /\ "calling" \in Phases /\ "subscribe" \in Phases
      /\ "declare" \in Phases /\ "ending" \in Phases /\ "stuck" \in Phases
      /\ "known" \in Phases /\ "unknown" \in Phases
  BY DEF Phases, Queued, ChainEnding
<1>4. CASE BeginProtocolInfo
  <2>1. /\ phase = "info" /\ phase' \in {"calling", "subscribe", "halted"}
        /\ UNCHANGED <<present, via, timer, shutdown, contexts, listenVars>>
    BY <1>2, <1>4 DEF BeginProtocolInfo, Step
  <2>. QED
    BY <1>1, <1>3, <2>1, PhaseStep DEF TypeOK, ConstructedHasSome
<1>5. CASE GetProtocolInfoCallback
  <2>1. /\ phase = "calling" /\ phase' \in {"subscribe", "halted"}
        /\ UNCHANGED <<present, via, timer, shutdown, contexts, listenVars>>
    BY <1>2, <1>5 DEF GetProtocolInfoCallback, Step
  <2>. QED
    BY <1>1, <1>3, <2>1, PhaseStep DEF TypeOK, ConstructedHasSome
<1>6. CASE Subscribe
  <2>1. /\ phase = "subscribe" /\ phase' \in {"declare", "halted"}
        /\ UNCHANGED <<present, via, timer, shutdown, contexts>>
        /\ SubscribeContext(contexts)
    BY <1>2, <1>6 DEF Subscribe, Step
  <2>2. contexts # <<>> /\ contexts \in Seq(Ips)
    BY <1>1, <2>1 DEF ConstructedHasSome, TypeOK
  <2>3. Listening' /\ \A p \in subscribed' : p[1] = Preferred(contexts)
    BY <2>1, <2>2, SubscribedSomewhere, SubscribeContextListens,
       IndInvListening
  <2>4. SubscribedIsPreferred' /\ UnknownHasNone' /\ ConstructedHasSome'
    BY <2>1, <2>2, <2>3
       DEF SubscribedIsPreferred, UnknownHasNone, ConstructedHasSome
  <2>5. Distinct(contexts') /\ Range(contexts') \subseteq present'
    BY <2>1 DEF IndInv, ContextsArePresent, Distinct
  <2>. QED
    BY <1>1, <1>3, <2>1, <2>3, <2>4, <2>5, IndInvFromParts DEF TypeOK
<1>7. CASE Declare
  <2>1. /\ phase = "declare" /\ phase' \in {"ending", "halted", "stuck"}
        /\ UNCHANGED <<present, via, timer, shutdown, contexts, listenVars>>
    BY <1>2, <1>7 DEF Declare, Step
  <2>. QED
    BY <1>1, <1>3, <2>1, PhaseStep DEF TypeOK, ConstructedHasSome
<1>8. CASE ChainEnd
  <2>1. CASE Step("ending", {"known"}) /\ UNCHANGED <<contexts, listenVars>>
    <3>1. /\ phase = "ending" /\ phase' = "known"
          /\ UNCHANGED <<present, via, timer, shutdown, contexts, listenVars>>
      BY <2>1 DEF Step
    <3>. QED
      BY <1>1, <1>3, <3>1, PhaseStep DEF TypeOK, ConstructedHasSome
  <2>2. CASE /\ phase = "cancelled" /\ phase' = "unknown" /\ DeleteDevice
             /\ UNCHANGED <<present, via, shutdown>>
    <3>1. /\ Listening' /\ SubscribedIsPreferred'
          /\ contexts' = <<>> /\ contexts' \in Seq(Ips)
          /\ Distinct(contexts') /\ Range(contexts') = {}
          /\ timer' \in BOOLEAN
      BY <2>2, DeleteDeviceEmpties
    <3>2. UnknownHasNone' /\ ConstructedHasSome'
      BY <2>2, <3>1 DEF UnknownHasNone, ConstructedHasSome
    <3>. QED
      BY <1>1, <1>3, <2>2, <3>1, <3>2, IndInvFromParts DEF TypeOK
  <2>. QED
    BY <1>8, <2>1, <2>2 DEF ChainEnd
<1>. QED
  BY <1>4, <1>5, <1>6, <1>7, <1>8 DEF Construct

LEMMA ResubscribeTimerPreserves == IndInv /\ ResubscribeTimer => IndInv'
<1>. SUFFICES ASSUME IndInv, ResubscribeTimer PROVE IndInv'
  OBVIOUS
<1>1. TypeOK /\ ConstructedHasSome /\ UnknownHasNone
  BY DEF IndInv
<1>2. /\ timer' \in BOOLEAN
      /\ UNCHANGED <<present, via, contexts, shutdown>>
  BY Zenon DEF ResubscribeTimer
<1>3. CASE /\ contexts # <<>> /\ Switch({}, {Preferred(contexts)})
           /\ UNCHANGED phase
  <2>1. /\ \A p \in subscribed : p[1] = Preferred(contexts)
        /\ Preferred(contexts) \in Ips
    BY <1>3, SubscribedSomewhere
  <2>2. /\ Listening'
        /\ \A p \in subscribed' : p[1] \in {Preferred(contexts)}
                                     \/ (p \in subscribed /\ p[1] \notin {})
    BY <1>3, <2>1, SwitchListens, IndInvListening
  <2>3. SubscribedIsPreferred' /\ UnknownHasNone' /\ ConstructedHasSome'
    BY <1>1, <1>2, <1>3, <2>1, <2>2
       DEF SubscribedIsPreferred, UnknownHasNone, ConstructedHasSome
  <2>4. Distinct(contexts') /\ Range(contexts') \subseteq present'
    BY <1>2 DEF IndInv, ContextsArePresent, Distinct
  <2>. QED
    BY <1>1, <1>2, <1>3, <2>2, <2>3, <2>4, IndInvFromParts DEF TypeOK
<1>4. CASE /\ contexts = <<>> /\ phase' \in {phase, "crashed"}
           /\ UNCHANGED listenVars
  <2>1. phase' \in Phases
    BY <1>1, <1>4 DEF TypeOK, Phases, Stopped
  <2>. QED
    BY <1>1, <1>2, <1>4, <2>1, PhaseStep
       DEF TypeOK, ConstructedHasSome
<1>. QED
  BY <1>3, <1>4 DEF ResubscribeTimer

\* Handlers and retry timers touch the subscriptions only.
LEMMA ListenStep ==
    ASSUME IndInv, Listening', subscribed' \subseteq subscribed,
           UNCHANGED <<present, phase, via, contexts, timer, shutdown>>
    PROVE  IndInv'
<1>1. TypeOK /\ Distinct(contexts) /\ Range(contexts) \subseteq present
  BY DEF IndInv, ContextsArePresent, Distinct
<1>2. SubscribedIsPreferred' /\ UnknownHasNone' /\ ConstructedHasSome'
  BY DEF IndInv, SubscribedIsPreferred, UnknownHasNone, ConstructedHasSome
<1>3. Distinct(contexts')
  BY <1>1 DEF Distinct
<1>. QED
  BY <1>1, <1>2, <1>3, IndInvFromParts DEF TypeOK

LEMMA LossPreserves ==
    ASSUME IndInv, NEW p \in Proxies, SubscriptionLost(p) \/ RetryExpires(p)
    PROVE  IndInv'
<1>1. CASE SubscriptionLost(p)
  <2>1. /\ Handled(HandledBy(p), handlers[p[1]], {p})
        /\ UNCHANGED <<present, phase, via, contexts, timer, shutdown>>
    BY <1>1 DEF SubscriptionLost
  <2>2. Listening' /\ subscribed' \subseteq subscribed
    BY <2>1, HandledListens, IndInvListening
  <2>. QED
    BY <2>1, <2>2, ListenStep
<1>2. CASE RetryExpires(p)
  <2>1. /\ retry' = retry \ {p}
        /\ UNCHANGED <<present, phase, via, contexts, subscribed, live, notify,
                       handlers, timer, shutdown>>
    BY <1>2 DEF RetryExpires
  <2>2. Listening' /\ subscribed' \subseteq subscribed
    BY <2>1, IndInvListening
       DEF Listening, ListenTypeOK, Registered, SubscribedIsHeard
  <2>. QED
    BY <2>1, <2>2, ListenStep
<1>. QED
  BY <1>1, <1>2

LEMMA SetQuittingPreserves == IndInv /\ SetQuitting => IndInv'
<1>. SUFFICES ASSUME IndInv, SetQuitting PROVE IndInv'
  OBVIOUS
<1>1. TypeOK /\ ConstructedHasSome /\ UnknownHasNone
  BY DEF IndInv
<1>2. /\ shutdown' = "quitting"
      /\ UNCHANGED <<present, via, contexts, listenVars, timer>>
      /\ phase' \in {phase} \cup
            CASE phase \in {"calling", "lost"} -> {"cancelled", "halted"}
              [] phase \in Queued \ {"calling", "lost"} -> Cancelled
              [] OTHER -> {}
  BY DEF SetQuitting
<1>3. phase' \in {phase, "stuck", "cancelled", "halted", "crashed"}
  <2>1. CASE phase \in {"calling", "lost"}
    BY <1>2, <2>1
  <2>2. CASE phase \in Queued \ {"calling", "lost"}
    <3>1. phase \in Phases \ ({"known", "unknown"} \cup Stopped)
      BY <1>1, <2>2 DEF TypeOK, Queued, Stopped
    <3>2. Cancelled \subseteq {"stuck", "cancelled", "halted", "crashed"}
      BY <3>1, CancelledIs
    <3>. QED
      BY <1>2, <2>2, <3>2
  <2>3. CASE phase \notin Queued
    BY <1>2, <2>3 DEF Queued
  <2>. QED
    BY <2>1, <2>2, <2>3
<1>4. phase' \in Phases
  BY <1>1, <1>3 DEF TypeOK, Phases, Queued, ChainEnding, Stopped
<1>. QED
  BY <1>1, <1>2, <1>3, <1>4, PhaseStep
     DEF TypeOK, ConstructedHasSome, UnknownHasNone

LEMMA UnsubscribePreserves == IndInv /\ Unsubscribe => IndInv'
<1>. SUFFICES ASSUME IndInv, Unsubscribe PROVE IndInv'
  OBVIOUS
<1>1. /\ TypeOK /\ ConstructedHasSome /\ UnknownHasNone
      /\ SubscribedIsPreferred
  BY DEF IndInv
<1>2. /\ shutdown' = "unsubscribed"
      /\ UNCHANGED <<present, phase, via, contexts, timer>>
  BY DEF Unsubscribe
<1>3. CASE Switch(Range(contexts), {})
  <2>1. /\ Listening'
        /\ \A p \in subscribed' : p[1] \in {} \/ p \in subscribed
    BY <1>3, SwitchListens, IndInvListening
  <2>2. SubscribedIsPreferred' /\ UnknownHasNone' /\ ConstructedHasSome'
    BY <1>1, <1>2, <2>1
       DEF SubscribedIsPreferred, UnknownHasNone, ConstructedHasSome
  <2>3. Distinct(contexts') /\ Range(contexts') \subseteq present'
    BY <1>2 DEF IndInv, ContextsArePresent, Distinct
  <2>. QED
    BY <1>1, <1>2, <2>1, <2>2, <2>3, IndInvFromParts DEF TypeOK
<1>4. CASE UNCHANGED listenVars
  BY <1>1, <1>2, <1>4, PhaseStep
     DEF TypeOK, ConstructedHasSome, UnknownHasNone
<1>. QED
  BY <1>3, <1>4 DEF Unsubscribe

LEMMA DeletePreserves == IndInv /\ Delete => IndInv'
<1>. SUFFICES ASSUME IndInv, Delete PROVE IndInv'
  OBVIOUS
<1>1. /\ phase' = "deleted" /\ DeleteDevice
      /\ UNCHANGED <<present, via, shutdown>>
  BY DEF Delete
<1>2. /\ Listening' /\ SubscribedIsPreferred'
      /\ contexts' = <<>> /\ contexts' \in Seq(Ips)
      /\ Distinct(contexts') /\ Range(contexts') = {}
      /\ timer' \in BOOLEAN
  BY <1>1, DeleteDeviceEmpties
<1>3. UnknownHasNone' /\ ConstructedHasSome' /\ phase' \in Phases
  BY <1>1, <1>2 DEF UnknownHasNone, ConstructedHasSome, Phases, Stopped
<1>4. TypeOK
  BY DEF IndInv
<1>. QED
  BY <1>1, <1>2, <1>3, <1>4, IndInvFromParts DEF TypeOK

----------------------------------------------------------------------------
(***************************************************************************)
(* The theorems.                                                           *)
(***************************************************************************)
\* IndInv is an invariant of upnp.c and device.c: of every order in which
\* interfaces come and go, construction steps, timers and losses run.
THEOREM SpecIndInv == Spec => []IndInv
<1>1. IndInv /\ [Next]_vars => IndInv'
  <2>. SUFFICES ASSUME IndInv, [Next]_vars PROVE IndInv'
    OBVIOUS
  <2>1. CASE UNCHANGED vars
    <3>1. UNCHANGED <<present, phase, via, contexts, listenVars, timer, shutdown>>
      BY <2>1 DEF vars
    <3>2. TypeOK /\ UnknownHasNone /\ ConstructedHasSome
      BY DEF IndInv
    <3>. QED
      BY <3>1, <3>2, PhaseStep DEF TypeOK, UnknownHasNone, ConstructedHasSome
  <2>2. CASE \E i \in Ips : Available(i) \/ Unavailable(i)
    BY <2>2, AvailablePreserves, UnavailablePreserves
  <2>3. CASE \E p \in Proxies : SubscriptionLost(p) \/ RetryExpires(p)
    BY <2>3, LossPreserves
  <2>4. CASE Exited
    BY <2>1, <2>4 DEF Exited
  <2>. QED
    BY <2>1, <2>2, <2>3, <2>4, ConstructPreserves, ResubscribeTimerPreserves,
       SetQuittingPreserves, UnsubscribePreserves, DeletePreserves DEF Next
<1>. QED
  BY <1>1, InitIndInv, PTL DEF Spec

\* The variables keep their types.
THEOREM SpecTypeOK == Spec => []TypeOK
<1>1. IndInv => TypeOK
  BY DEF IndInv
<1>. QED
  BY <1>1, SpecIndInv, PTL

\* Requests are sent to interfaces the renderer is present on, once each:
\* prv_server_unavailable_cb finds the context of every interface that goes.
THEOREM SpecContextsArePresent == Spec => []ContextsArePresent
<1>1. IndInv => ContextsArePresent
  BY DEF IndInv
<1>. QED
  BY <1>1, SpecIndInv, PTL

\* prv_device_subscribe_context, prv_subscribe_to_service_changes and
\* prv_rsu_context_delete together leave no context but the preferred one
\* subscribed.
THEOREM SpecSubscribedIsPreferred == Spec => []SubscribedIsPreferred
<1>1. IndInv => SubscribedIsPreferred
  BY DEF IndInv
<1>. QED
  BY <1>1, SpecIndInv, PTL

\* For ConnectionManager and AVTransport, a flag that is set means that GUPnP
\* is subscribed and a callback registered, whatever was lost and renewed.
THEOREM SpecSubscribedIsHeard == Spec => []SubscribedIsHeard
<1>1. IndInv => SubscribedIsHeard
  BY DEF IndInv
<1>. QED
  BY <1>1, SpecIndInv, PTL

----------------------------------------------------------------------------
(***************************************************************************)
(* What the service knows is what the network shows.  Until the process    *)
(* quits the contexts are the interfaces the renderer is present on, and a *)
(* cancelled construction has none: its chain-end idle, which deletes the  *)
(* device, may not forget an interface that was found in between, and that *)
(* is what PromptIdles rules out (the run that exposes the opposite is     *)
(* described with Renderer's runs).                                        *)
(***************************************************************************)
SeenAsPresent ==
    Running /\ shutdown = "no" =>
        /\ Range(contexts) = present
        /\ phase = "cancelled" => contexts = <<>>

\* A step that changes neither contexts nor presence, nor cancels.
LEMMA SeenStep ==
    ASSUME SeenAsPresent, UNCHANGED <<present, contexts>>,
           Running' /\ shutdown' = "no" => Running /\ shutdown = "no",
           shutdown' = "no" /\ phase' = "cancelled" => phase = "cancelled"
    PROVE  SeenAsPresent'
  BY DEF SeenAsPresent

LEMMA AvailableSeen ==
    ASSUME PromptIdles, IndInv, SeenAsPresent, NEW i \in Ips, Available(i)
    PROVE  SeenAsPresent'
<1>1. /\ Running /\ phase # "cancelled"
      /\ present' = present \cup {i} /\ shutdown' = shutdown
  BY DEF Available, Quiet, ChainEnding
<1>2. CASE phase = "unknown" /\ phase' = "info" /\ contexts' = <<i>>
  <2>1. Range(contexts) = {} /\ Range(contexts') = {i}
    BY <1>2 DEF IndInv, UnknownHasNone, Range
  <2>. QED
    BY <1>1, <1>2, <2>1 DEF SeenAsPresent
<1>3. CASE /\ i \notin Range(contexts) /\ AppendContext(i)
           /\ UNCHANGED <<phase, via>>
  <2>1. Range(contexts') = Range(contexts) \cup {i}
    BY <1>3, AppendContextListens
  <2>. QED
    BY <1>1, <1>3, <2>1 DEF SeenAsPresent
<1>. QED
  BY <1>2, <1>3 DEF Available

LEMMA UnavailableSeen ==
    ASSUME IndInv, SeenAsPresent, NEW i \in Ips, Unavailable(i)
    PROVE  SeenAsPresent'
<1>1. Running /\ present' = present \ {i} /\ shutdown' = shutdown
  BY DEF Unavailable
<1>2. CASE i \in Range(contexts) /\ LoseContext(i)
  <2>1. /\ contexts' = Without(contexts, i)
        /\ phase' = "cancelled" => phase = "cancelled"
        /\ contexts' # <<>>
    BY <1>2 DEF LoseContext
  <2>2. contexts \in Seq(Ips) /\ Distinct(contexts)
    BY DEF IndInv, TypeOK, ContextsArePresent, Distinct
  <2>3. Range(contexts') = Range(contexts) \ {i}
    BY <1>2, <2>1, <2>2, WithoutKeeps
  <2>4. phase = "cancelled" => shutdown # "no"
    <3>1. Range(<<>>) = {}
      BY DEF Range
    <3>. QED
      BY <1>1, <1>2, <3>1 DEF SeenAsPresent
  <2>. QED
    BY <1>1, <2>1, <2>3, <2>4 DEF SeenAsPresent
<1>3. CASE i \in Range(contexts) /\ LoseLastContext(i)
  <2>1. contexts = <<i>> /\ contexts' = <<>>
    BY <1>3 DEF LoseLastContext, DeleteDevice
  <2>2. Range(contexts) = {i} /\ Range(contexts') = {}
    BY <2>1 DEF Range
  <2>. QED
    BY <1>1, <2>1, <2>2 DEF SeenAsPresent
<1>4. CASE /\ phase = "unknown" \/ i \notin Range(contexts)
           /\ UNCHANGED <<phase, via, contexts, listenVars, timer>>
  <2>1. phase = "unknown" => Range(contexts) = {}
    BY DEF IndInv, UnknownHasNone, Range
  <2>2. i \in present
    BY DEF Unavailable
  <2>. QED
    BY <1>1, <1>4, <2>1, <2>2 DEF SeenAsPresent
<1>. QED
  BY <1>2, <1>3, <1>4 DEF Unavailable

\* ChainEnd forgets a renderer that is present nowhere.
LEMMA ConstructSeen ==
    ASSUME IndInv, SeenAsPresent, Construct
    PROVE  SeenAsPresent'
<1>1. \A to : Completed(to) \subseteq {to, "halted"}
  BY DEF Completed
<1>2. CASE \/ BeginProtocolInfo \/ GetProtocolInfoCallback \/ Subscribe
           \/ Declare
  <2>1. /\ phase' \in {"calling", "subscribe", "declare", "ending", "halted",
                       "stuck"}
        /\ phase \in {"info", "calling", "subscribe", "declare"}
        /\ UNCHANGED <<present, contexts, shutdown>>
    BY <1>1, <1>2 DEF BeginProtocolInfo, GetProtocolInfoCallback, Subscribe,
                      Declare, Step
  <2>. QED
    BY <2>1, SeenStep DEF Running, Stopped
<1>3. CASE ChainEnd
  <2>1. CASE Step("ending", {"known"}) /\ UNCHANGED <<contexts, listenVars>>
    BY <2>1, SeenStep DEF Step, Running, Stopped
  <2>2. CASE /\ phase = "cancelled" /\ phase' = "unknown" /\ DeleteDevice
             /\ UNCHANGED <<present, via, shutdown>>
    <3>1. Range(contexts') = {} /\ Range(<<>>) = {}
      BY <2>2 DEF DeleteDevice, Range
    <3>. QED
      BY <2>2, <3>1 DEF SeenAsPresent, Running, Stopped
  <2>. QED
    BY <1>3, <2>1, <2>2 DEF ChainEnd
<1>. QED
  BY <1>2, <1>3 DEF Construct

\* prv_server_available_cb, prv_server_unavailable_cb and
\* prv_device_chain_end keep the maps of upnp.c in step with the network, as
\* long as a chain-end idle runs before the next event.
THEOREM SpecKnownIsPresent ==
    ASSUME PromptIdles
    PROVE  Spec => []KnownIsPresent
<1>1. Init => SeenAsPresent
  BY DEF Init, SeenAsPresent, Range
<1>2. IndInv /\ SeenAsPresent /\ [Next]_vars => SeenAsPresent'
  <2>. SUFFICES ASSUME IndInv, SeenAsPresent, [Next]_vars PROVE SeenAsPresent'
    OBVIOUS
  <2>1. CASE UNCHANGED vars
    BY <2>1, SeenStep DEF vars, Running
  <2>2. CASE ResubscribeTimer
    BY <2>2, SeenStep DEF ResubscribeTimer, Running, Stopped
  <2>3. CASE \E p \in Proxies : SubscriptionLost(p) \/ RetryExpires(p)
    BY <2>3, SeenStep DEF SubscriptionLost, RetryExpires, Running
  <2>4. CASE SetQuitting \/ Unsubscribe \/ Delete
    <3>1. shutdown' # "no"
      BY <2>4 DEF SetQuitting, Unsubscribe, Delete
    <3>. QED
      BY <3>1 DEF SeenAsPresent
  <2>. QED
    BY <2>1, <2>2, <2>3, <2>4, AvailableSeen, UnavailableSeen, ConstructSeen
       DEF Next, Exited
<1>3. IndInv /\ SeenAsPresent => KnownIsPresent
  <2>. SUFFICES ASSUME IndInv, SeenAsPresent, Running, shutdown = "no"
                PROVE  /\ Range(contexts) = present
                       /\ phase = "unknown" => present = {}
                       /\ phase = "known" => present # {}
    BY DEF KnownIsPresent
  <2>1. phase = "unknown" => Range(contexts) = {}
    BY DEF IndInv, UnknownHasNone, Range
  <2>2. phase = "known" => Range(contexts) # {}
    BY PreferredIn DEF IndInv, ConstructedHasSome, TypeOK
  <2>. QED
    BY <2>1, <2>2 DEF SeenAsPresent
<1>. QED
  BY <1>1, <1>2, <1>3, SpecIndInv, PTL DEF Spec

----------------------------------------------------------------------------
(***************************************************************************)
(* A known renderer is listened to, or will be.  As long as GUPnP reports  *)
(* no loss, a context is subscribed to as a whole: the one that goes is    *)
(* then seen to have been subscribed to by the flags of AVTransport or     *)
(* ConnectionManager, which are the two that arm the timer.                *)
(***************************************************************************)
Whole == \A p \in subscribed, s \in Services : <<p[1], s>> \in subscribed

Followed ==
    phase \in {"declare", "ending", "known"} /\ shutdown # "unsubscribed"
        => subscribed # {} \/ timer

ServesTransport == Services \cap {"av", "cm"} # {}

\* Contexts are subscribed to and unsubscribed as a whole.
LEMMA SwitchWhole ==
    ASSUME Whole, NEW off, NEW on \in SUBSET Ips, Switch(off, on)
    PROVE  /\ Whole'
           /\ \A i \in on, s \in Services : <<i, s>> \in subscribed'
<1>1. subscribed' = (subscribed \ Dropped(off)) \cup (on \X Services)
  BY DEF Switch
<1>2. ASSUME NEW p \in subscribed', NEW s \in Services
      PROVE  <<p[1], s>> \in subscribed'
  <2>1. CASE p \in on \X Services
    BY <1>1, <2>1
  <2>2. CASE p \in subscribed \ Dropped(off)
    <3>1. <<p[1], s>> \in subscribed /\ <<p[1], s>>[1] = p[1]
      BY <2>2 DEF Whole
    <3>2. p[1] \notin off
      BY <2>2 DEF Dropped
    <3>. QED
      BY <1>1, <3>1, <3>2 DEF Dropped
  <2>. QED
    BY <1>1, <2>1, <2>2
<1>. QED
  BY <1>1, <1>2 DEF Whole

LEMMA DeleteWhole ==
    ASSUME Whole, NEW I, DeleteContexts(I)
    PROVE  Whole'
<1>1. subscribed' = {p \in subscribed : p[1] \notin I}
  BY DEF DeleteContexts
<1>. SUFFICES ASSUME NEW p \in subscribed', NEW s \in Services
              PROVE  <<p[1], s>> \in subscribed'
  BY DEF Whole
<1>2. <<p[1], s>> \in subscribed /\ <<p[1], s>>[1] = p[1]
  BY <1>1 DEF Whole
<1>. QED
  BY <1>1, <1>2

\* prv_device_subscribe_context leaves something subscribed.
LEMMA SubscribeContextFollows ==
    ASSUME ServesTransport, IndInv, Whole,
           NEW cs \in Seq(Ips), cs # <<>>, NEW c \in Range(cs),
           \A p \in subscribed : p[1] = c,
           SubscribeContext(cs)
    PROVE  Whole' /\ subscribed' # {}
<1>1. CASE SubscribedContext(cs) = {Preferred(cs)} /\ UNCHANGED listenVars
  <2>1. SubscribedContext(cs) = IF subscribed = {} THEN {} ELSE {c}
    BY SubscribedContextIs DEF IndInv, TypeOK
  <2>. QED
    BY <1>1, <2>1 DEF listenVars, Whole
<1>2. CASE Switch(SubscribedContext(cs), {Preferred(cs)})
  <2>1. {Preferred(cs)} \in SUBSET Ips
    BY PreferredIn
  <2>. QED
    BY <1>2, <2>1, SwitchWhole DEF ServesTransport
<1>. QED
  BY <1>1, <1>2 DEF SubscribeContext

\* A step that leaves the subscriptions alone and reaches no phase that is
\* followed.
LEMMA FollowedStep ==
    ASSUME Whole, Followed, UNCHANGED <<subscribed, timer>>,
           phase' \in {"declare", "ending", "known"}
              => phase \in {"declare", "ending", "known"},
           shutdown' # "unsubscribed" => shutdown # "unsubscribed"
    PROVE  Whole' /\ Followed'
  BY DEF Whole, Followed

LEMMA AvailableFollows ==
    ASSUME ServesTransport, IndInv, Whole, Followed, NEW i \in Ips,
           Available(i)
    PROVE  Whole' /\ Followed'
<1>1. UNCHANGED <<timer, shutdown>>
  BY DEF Available
<1>2. CASE phase' = "info" /\ UNCHANGED listenVars
  BY <1>1, <1>2, FollowedStep DEF listenVars
<1>3. CASE i \notin Range(contexts) /\ AppendContext(i)
  <2>1. contexts' = Append(contexts, i) /\ SubscribeContext(contexts')
    BY <1>3 DEF AppendContext
  <2>2. /\ contexts' \in Seq(Ips) /\ contexts' # <<>>
        /\ Range(contexts') = Range(contexts) \cup {i}
    BY <1>3, AppendContextListens
  <2>3. \E c \in Range(contexts') : \A p \in subscribed : p[1] = c
    <3>1. CASE contexts = <<>>
      BY <2>2, <3>1 DEF IndInv, SubscribedIsPreferred
    <3>2. CASE contexts # <<>>
      BY <2>2, <3>2, SubscribedSomewhere
    <3>. QED
      BY <3>1, <3>2
  <2>4. PICK c \in Range(contexts') : \A p \in subscribed : p[1] = c
    BY <2>3
  <2>. QED
    BY <2>1, <2>2, <2>4, SubscribeContextFollows DEF Followed
<1>. QED
  BY <1>2, <1>3 DEF Available

\* The context listened to is not lost without the timer being armed.
LEMMA UnavailableFollows ==
    ASSUME ServesTransport, IndInv, Whole, Followed, NEW i \in Ips,
           Unavailable(i)
    PROVE  Whole' /\ Followed'
<1>1. Running /\ UNCHANGED shutdown
  BY DEF Unavailable
<1>2. CASE i \in Range(contexts) /\ LoseContext(i)
  <2>1. /\ phase' = IF phase = "calling" /\ via = i THEN "lost" ELSE phase
        /\ timer' = (timer \/ Resubscribe(i))
        /\ DeleteContexts({i})
        /\ contexts # <<>>
    BY <1>2 DEF LoseContext, Range
  <2>2. Whole' /\ subscribed' = {p \in subscribed : p[1] \notin {i}}
    BY <2>1, DeleteWhole DEF DeleteContexts
  <2>3. ASSUME subscribed # {}, subscribed' = {} PROVE Resubscribe(i)
    <3>1. PICK p \in subscribed : p[1] = i
      BY <2>2, <2>3
    <3>2. PICK s \in Services : s \in {"av", "cm"}
      BY DEF ServesTransport
    <3>3. <<i, s>> \in subscribed
      BY <3>1, <3>2 DEF Whole
    <3>. QED
      BY <3>2, <3>3 DEF Resubscribe
  <2>4. subscribed # {} \/ timer => subscribed' # {} \/ timer'
    BY <2>1, <2>3
  <2>. QED
    BY <1>1, <2>1, <2>2, <2>4, Zenon DEF Followed
<1>3. CASE /\ phase # "unknown" /\ i \in Range(contexts)
           /\ LoseLastContext(i)
  <2>1. CASE phase = "known" /\ phase' = "unknown" /\ DeleteDevice
    BY <2>1, DeleteWhole DEF DeleteDevice, Followed
  <2>2. CASE /\ phase # "known" /\ phase' \in Cancelled
             /\ DeleteContexts({i})
    <3>1. phase' \in {"stuck", "cancelled", "halted", "crashed"}
      BY <1>1, <1>3, <2>2, CancelledIs DEF IndInv, TypeOK, Running
    <3>. QED
      BY <2>2, <3>1, DeleteWhole DEF Followed
  <2>. QED
    BY <1>3, <2>1, <2>2 DEF LoseLastContext
<1>4. CASE UNCHANGED <<phase, via, contexts, listenVars, timer>>
  BY <1>1, <1>4, FollowedStep DEF listenVars
<1>. QED
  BY <1>2, <1>3, <1>4 DEF Unavailable

LEMMA ConstructFollows ==
    ASSUME ServesTransport, IndInv, Whole, Followed, Construct
    PROVE  Whole' /\ Followed'
<1>1. \A to : Completed(to) \subseteq {to, "halted"}
  BY DEF Completed
<1>2. CASE BeginProtocolInfo \/ GetProtocolInfoCallback \/ Declare
  <2>1. /\ phase' \in {"declare", "ending", "known"} => phase = "declare"
        /\ UNCHANGED <<timer, shutdown, listenVars>>
    BY <1>1, <1>2
       DEF BeginProtocolInfo, GetProtocolInfoCallback, Declare, Step
  <2>. QED
    BY <2>1, FollowedStep DEF listenVars
<1>3. CASE Subscribe
  <2>1. contexts # <<>> /\ contexts \in Seq(Ips) /\ SubscribeContext(contexts)
    BY <1>3 DEF IndInv, ConstructedHasSome, TypeOK, Subscribe, Step
  <2>2. Whole' /\ subscribed' # {}
    BY <2>1, SubscribedSomewhere, SubscribeContextFollows
  <2>. QED
    BY <2>2 DEF Followed
<1>4. CASE ChainEnd
  <2>1. CASE Step("ending", {"known"}) /\ UNCHANGED <<contexts, listenVars>>
    BY <2>1, FollowedStep DEF Step, listenVars
  <2>2. CASE phase' = "unknown" /\ DeleteDevice
    BY <2>2, DeleteWhole DEF DeleteDevice, Followed
  <2>. QED
    BY <1>4, <2>1, <2>2 DEF ChainEnd
<1>. QED
  BY <1>2, <1>3, <1>4 DEF Construct

LEMMA ResubscribeTimerFollows ==
    ASSUME ServesTransport, IndInv, Whole, Followed, ResubscribeTimer
    PROVE  Whole' /\ Followed'
<1>1. CASE contexts # <<>> /\ Switch({}, {Preferred(contexts)})
  <2>1. {Preferred(contexts)} \in SUBSET Ips
    BY <1>1, PreferredIn DEF IndInv, TypeOK
  <2>. QED
    BY <1>1, <2>1, SwitchWhole DEF ServesTransport, Followed
<1>2. CASE contexts = <<>> /\ phase' \in {phase, "crashed"}
           /\ UNCHANGED listenVars
  BY <1>2 DEF IndInv, ConstructedHasSome, Whole, Followed, listenVars
<1>. QED
  BY <1>1, <1>2 DEF ResubscribeTimer

LEMMA ShutdownFollows ==
    ASSUME IndInv, Whole, Followed, SetQuitting \/ Unsubscribe \/ Delete
    PROVE  Whole' /\ Followed'
<1>1. CASE SetQuitting
  <2>1. phase' = phase \/ phase' \in {"stuck", "cancelled", "halted", "crashed"}
    <3>1. CASE phase \in {"calling", "lost"}
      BY <1>1, <3>1 DEF SetQuitting
    <3>2. CASE phase \in Queued \ {"calling", "lost"}
      <4>1. Cancelled \subseteq {"stuck", "cancelled", "halted", "crashed"}
        BY <3>2, CancelledIs DEF IndInv, TypeOK, Queued, Stopped
      <4>. QED
        BY <1>1, <3>2, <4>1 DEF SetQuitting
    <3>3. CASE phase \notin Queued
      BY <1>1, <3>3 DEF SetQuitting, Queued
    <3>. QED
      BY <3>1, <3>2, <3>3
  <2>2. UNCHANGED <<subscribed, timer>> /\ shutdown # "unsubscribed"
    BY <1>1 DEF SetQuitting, listenVars
  <2>. QED
    BY <2>1, <2>2, FollowedStep
<1>2. CASE Unsubscribe
  <2>1. Whole'
    BY <1>2, SwitchWhole DEF Unsubscribe, Whole, listenVars
  <2>. QED
    BY <1>2, <2>1 DEF Unsubscribe, Followed
<1>3. CASE Delete
  BY <1>3, DeleteWhole DEF Delete, DeleteDevice, Followed
<1>. QED
  BY <1>1, <1>2, <1>3

\* rsu_device_lose_context arms the resubscription timer whenever it takes
\* the context that the service listened on from a known renderer that has
\* another one, and no construction ends without a subscription; so clients
\* of a renderer they can see are told of its changes, sooner or later.  A
\* renderer must have one of the services whose flags are looked at, and
\* GUPnP report no loss: after a handler has given up, nothing subscribes
\* again.
THEOREM SpecSubscribedOrPending ==
    ASSUME ServesTransport, ~LossesHappen
    PROVE  Spec => []SubscribedOrPending
<1>1. Init => Whole /\ Followed
  BY DEF Init, Whole, Followed
<1>2. IndInv /\ (Whole /\ Followed) /\ [Next]_vars => (Whole /\ Followed)'
  <2>. SUFFICES ASSUME IndInv, Whole, Followed, [Next]_vars
                PROVE  Whole' /\ Followed'
    OBVIOUS
  <2>1. CASE UNCHANGED vars
    BY <2>1, FollowedStep DEF vars, listenVars
  <2>2. CASE \E p \in Proxies : SubscriptionLost(p) \/ RetryExpires(p)
    BY <2>2, FollowedStep DEF SubscriptionLost, RetryExpires
  <2>. QED
    BY <2>1, <2>2, AvailableFollows, UnavailableFollows, ConstructFollows,
       ResubscribeTimerFollows, ShutdownFollows DEF Next, Exited
<1>3. Followed => SubscribedOrPending
  BY DEF Followed, SubscribedOrPending
<1>. QED
  BY <1>1, <1>2, <1>3, SpecIndInv, PTL DEF Spec

----------------------------------------------------------------------------
(***************************************************************************)
(* The resubscription timer finds a context.  The timer is armed when a    *)
(* context goes and others remain; the last one goes with the timer        *)
(* removed, or with the construction given up, which nothing resumes.      *)
(***************************************************************************)
GivenUp == {"cancelled", "stuck", "halted", "crashed"}

\* A construction that is given up stays so, and a step that arms the timer
\* leaves a context, as does one that takes contexts away.
LEMMA TimerStep ==
    ASSUME TimerFindsContext,
           phase \in GivenUp => phase' \in GivenUp,
           timer' => timer \/ contexts' # <<>>,
           contexts' # contexts => contexts' # <<>>
    PROVE  TimerFindsContext'
BY DEF TimerFindsContext, GivenUp

LEMMA NetworkTimer ==
    ASSUME IndInv, TimerFindsContext, NEW i \in Ips,
           Available(i) \/ Unavailable(i)
    PROVE  TimerFindsContext'
<1>1. Running /\ phase \in Phases \ Stopped
  BY DEF Available, Unavailable, Running, IndInv, TypeOK
<1>2. CASE Available(i)
  <2>1. CASE contexts' = <<i>>
    BY <1>2, <2>1 DEF TimerFindsContext
  <2>2. CASE AppendContext(i)
    <3>1. contexts' # <<>>
      BY <1>2, <2>2, AppendContextListens DEF Available
    <3>. QED
      BY <3>1 DEF TimerFindsContext
  <2>. QED
    BY <1>2, <2>1, <2>2 DEF Available
<1>3. CASE LoseContext(i)
  BY <1>3 DEF LoseContext, TimerFindsContext
<1>4. CASE LoseLastContext(i) /\ phase # "unknown"
  <2>1. CASE phase' = "unknown" /\ DeleteDevice
    BY <2>1 DEF DeleteDevice, TimerFindsContext
  <2>2. CASE phase # "known" /\ phase' \in Cancelled
    <3>1. phase \in Queued \cup ChainEnding
      BY <1>1, <1>4, <2>2 DEF Phases
    <3>2. Cancelled \subseteq GivenUp
      BY <3>1 DEF Cancelled, Completed, GivenUp
    <3>. QED
      BY <2>2, <3>2 DEF TimerFindsContext, GivenUp
  <2>. QED
    BY <1>4, <2>1, <2>2 DEF LoseLastContext
<1>5. CASE UNCHANGED <<phase, via, contexts, listenVars, timer>>
  BY <1>5, TimerStep
<1>. QED
  BY <1>2, <1>3, <1>4, <1>5 DEF Unavailable

LEMMA ConstructTimer ==
    ASSUME TimerFindsContext, Construct
    PROVE  TimerFindsContext'
<1>1. CASE \/ BeginProtocolInfo \/ GetProtocolInfoCallback \/ Subscribe
           \/ Declare
  <2>1. phase \notin GivenUp /\ UNCHANGED <<contexts, timer>>
    BY <1>1 DEF BeginProtocolInfo, GetProtocolInfoCallback, Subscribe,
                Declare, Step, GivenUp
  <2>. QED
    BY <2>1, TimerStep
<1>2. CASE ChainEnd
  <2>1. CASE Step("ending", {"known"}) /\ UNCHANGED <<contexts, listenVars>>
    BY <2>1, TimerStep DEF Step, GivenUp
  <2>2. CASE DeleteDevice
    BY <2>2 DEF DeleteDevice, TimerFindsContext
  <2>. QED
    BY <1>2, <2>1, <2>2 DEF ChainEnd
<1>. QED
  BY <1>1, <1>2 DEF Construct

LEMMA QuittingTimer ==
    ASSUME TimerFindsContext, SetQuitting
    PROVE  TimerFindsContext'
<1>1. /\ UNCHANGED <<contexts, timer>>
      /\ phase' \in {phase} \cup
            CASE phase \in {"calling", "lost"} -> {"cancelled", "halted"}
              [] phase \in Queued \ {"calling", "lost"} -> Cancelled
              [] OTHER -> {}
  BY DEF SetQuitting
<1>2. phase \in Queued => Cancelled \subseteq GivenUp
  BY DEF Cancelled, Completed, GivenUp, Queued
<1>3. phase' = phase \/ phase' \in GivenUp
  <2>1. CASE phase \in {"calling", "lost"}
    BY <1>1, <2>1 DEF GivenUp
  <2>2. CASE phase \in Queued \ {"calling", "lost"}
    BY <1>1, <1>2, <2>2
  <2>3. CASE phase \notin Queued
    BY <1>1, <2>3 DEF Queued
  <2>. QED
    BY <2>1, <2>2, <2>3
<1>. QED
  BY <1>1, <1>3, TimerStep

\* Whenever the resubscription timer is armed there is a context for it, unless
\* the renderer's construction was given up, whatever contexts come and go.
THEOREM SpecTimerFindsContext == Spec => []TimerFindsContext
<1>1. Init => TimerFindsContext
  BY DEF Init, TimerFindsContext
<1>2. IndInv /\ TimerFindsContext /\ [Next]_vars => TimerFindsContext'
  <2>. SUFFICES ASSUME IndInv, TimerFindsContext, [Next]_vars
                PROVE  TimerFindsContext'
    OBVIOUS
  <2>1. CASE UNCHANGED vars
    BY <2>1 DEF vars, TimerFindsContext
  <2>2. CASE \E p \in Proxies : SubscriptionLost(p) \/ RetryExpires(p)
    BY <2>2 DEF SubscriptionLost, RetryExpires, TimerFindsContext
  <2>3. CASE ResubscribeTimer
    BY <2>3 DEF ResubscribeTimer, TimerFindsContext
  <2>4. CASE Unsubscribe \/ Delete
    BY <2>4 DEF Unsubscribe, Delete, DeleteDevice, TimerFindsContext
  <2>. QED
    BY <2>1, <2>2, <2>3, <2>4, NetworkTimer, ConstructTimer, QuittingTimer
       DEF Next, Exited
<1>. QED
  BY <1>1, <1>2, SpecIndInv, PTL DEF Spec

============================================================================
