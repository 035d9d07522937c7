--------------------------- MODULE RateLimitProofs ---------------------------
(***************************************************************************)
(* Proofs about RateLimit: the window bound for every number of requests,  *)
(* keys, limits, windows and clock delays, that no write passes uncounted, *)
(* and that Retry-After is kept (at the end).  The argument: the sorted    *)
(* set never holds more than Limit events (Fits); one that has left it was *)
(* admitted at least Window - MaxDelay ago, or its member is a later one's *)
(* (Gone); so that what is younger and has a member is in the set.         *)
(***************************************************************************)
EXTENDS RateLimit, TLAPS, FiniteSetTheorems, WellFoundedInduction

-----------------------------------------------------------------------------
(* The inductive invariant. *)
ReqType ==
    [pc : {"idle", "rule", "script", "passed", "limited", "unavailable"},
     get : BOOLEAN, rules : Seq(Key), known : SUBSET Key, counted : SUBSET Key,
     reading : Nat,
     denial : [key : Key \cup {<<>>}, seen : Nat, until : Int]]

Types ==
    /\ now \in Nat
    /\ log \in [Key -> Seq(Event)]
    /\ zset \in [Key -> SUBSET Nat]
    /\ \A k \in Key : zset[k] \subseteq DOMAIN log[k]
    /\ merged \in [Key -> SUBSET Nat]
    /\ expiry \in [Key -> Int]
    /\ req \in [Request -> ReqType]

\* Events are logged as they happen, with a score of the recent past.
Times ==
    \A k \in Key : \A i \in DOMAIN log[k] :
        /\ log[k][i].at <= now
        /\ log[k][i].score <= log[k][i].at
        /\ log[k][i].at - MaxDelay <= log[k][i].score
        /\ \A j \in DOMAIN log[k] : i <= j => log[k][i].at <= log[k][j].at

\* What has left the sorted set is old, or a later event has its member.
Gone ==
    \A k \in Key : \A i \in DOMAIN log[k] :
        i \notin zset[k] /\ i \notin merged[k] => log[k][i].at + Window[k] - MaxDelay <= now

\* What is in it does not outlive its key.
Outlives == \A k \in Key : \A i \in zset[k] : log[k][i].at + Window[k] <= expiry[k]

\* A script runs with a reading of the recent past.
Readings ==
    \A r \in Request : req[r].pc = "script" =>
        req[r].rules # <<>> /\ req[r].reading <= now /\ now - req[r].reading <= MaxDelay

\* Every rule with a subject has been counted or is still to be asked.
Asked ==
    \A r \in Request : req[r].pc \in {"rule", "script"} =>
        req[r].known \subseteq req[r].counted \cup Keys(req[r].rules)

\* No sorted set holds more than the limit.
Fits == \A k \in Key : Cardinality(zset[k]) <= Limit[k]

Script == Times /\ Gone /\ Outlives /\ Fits /\ WindowLimit
IInv == Types /\ Readings /\ Asked /\ Script /\ WritesAreCounted

-----------------------------------------------------------------------------
(* What a purge removes is old: by its score, or because its key has expired. *)
LEMMA PurgedIsOld ==
    ASSUME Types, Times, Gone, Outlives, NEW k \in Key, NEW c \in Nat, c <= now,
           NEW i \in DOMAIN log[k], i \notin LeftAt(k, c), i \notin merged[k]
    PROVE  log[k][i].at + Window[k] - MaxDelay <= now
<1>1. log[k][i].at \in Int /\ log[k][i].score \in Int
  <2>1. log[k] \in Seq(Event) /\ log[k][i] \in Event
    BY DEF Types
  <2> QED BY <2>1 DEF Event
<1>2. Window[k] \in Nat /\ MaxDelay \in Nat /\ now \in Nat /\ expiry[k] \in Int
  BY RateLimitAssumption DEF Types
<1>3. CASE i \notin zset[k]
  BY <1>3 DEF Gone
<1>4. CASE i \in zset[k] /\ ~(now <= expiry[k])
  <2>1. log[k][i].at + Window[k] <= expiry[k]
    BY <1>4 DEF Outlives
  <2> QED BY <1>1, <1>2, <1>4, <2>1
<1>5. CASE i \in zset[k] /\ now <= expiry[k]
  <2>1. log[k][i].score <= c - Window[k]
    BY <1>1, <1>2, <1>5 DEF LeftAt, Visible
  <2>2. log[k][i].at - MaxDelay <= log[k][i].score
    BY DEF Times
  <2> QED BY <1>1, <1>2, <2>1, <2>2
<1> QED BY <1>3, <1>4, <1>5

\* The events a window has left were in its sorted set.
LEMMA LeftIsInZset ==
    ASSUME Types, NEW k \in Key, NEW c \in Nat
    PROVE  /\ LeftAt(k, c) \subseteq zset[k]
           /\ LeftAt(k, c) \subseteq 1..Len(log[k])
           /\ IsFiniteSet(LeftAt(k, c)) /\ Cardinality(LeftAt(k, c)) \in Nat
<1>1. log[k] \in Seq(Event) /\ zset[k] \subseteq 1..Len(log[k]) /\ Len(log[k]) \in Nat
  BY DEF Types
<1>2. LeftAt(k, c) \subseteq zset[k]
  BY DEF LeftAt, Visible
<1>3. IsFiniteSet(1..Len(log[k]))
  BY <1>1, FS_Interval
<1> QED BY <1>1, <1>2, <1>3, FS_Subset, FS_CardinalityType

(* What is no younger than now has expired before the key does. *)
LEMMA ExpiresAfter ==
    ASSUME NEW at \in Int, NEW t \in Nat, NEW w \in Nat, NEW s \in Nat, at <= t
    PROVE  at + w <= t + w + s
OBVIOUS

(* The events up to i that WindowLimit counts. *)
Younger(events, shared, i, span) ==
    {j \in (1..i) \ shared : events[i].at - events[j].at < span}

LEMMA YoungerIsFinite ==
    ASSUME NEW events, NEW shared, NEW i \in Nat, NEW span
    PROVE  IsFiniteSet(Younger(events, shared, i, span))
<1>1. IsFiniteSet(1..i) /\ Younger(events, shared, i, span) \subseteq 1..i
  BY FS_Interval DEF Younger
<1> QED BY <1>1, FS_Subset

(* A set with room still fits with one more, in the place of others or not. *)
LEMMA OneMoreFits ==
    ASSUME NEW left, NEW same, NEW i, NEW limit \in Nat,
           IsFiniteSet(left), Cardinality(left) < limit
    PROVE  Cardinality((left \ same) \cup {i}) <= limit
<1> DEFINE rest == left \ same
<1>1. /\ IsFiniteSet(rest) /\ Cardinality(rest) \in Nat /\ Cardinality(left) \in Nat
      /\ Cardinality(rest) <= Cardinality(left)
  BY FS_Subset, FS_CardinalityType
<1> HIDE DEF rest
<1>2. Cardinality(rest \cup {i}) \in {Cardinality(rest), Cardinality(rest) + 1}
  BY <1>1, FS_AddElement
<1>3. Cardinality(rest \cup {i}) <= limit
  BY <1>1, <1>2
<1> QED BY <1>3 DEF rest

(* The sets that are counted are finite. *)
LEMMA WindowsAreFinite ==
    ASSUME Types, NEW k \in Key
    PROVE  /\ IsFiniteSet(zset[k]) /\ Cardinality(zset[k]) \in Nat
           /\ Len(log[k]) \in Nat
<1>1. log[k] \in Seq(Event) /\ zset[k] \subseteq 1..Len(log[k]) /\ Len(log[k]) \in Nat
  BY DEF Types
<1>2. IsFiniteSet(1..Len(log[k]))
  BY <1>1, FS_Interval
<1>3. IsFiniteSet(zset[k])
  BY <1>1, <1>2, FS_Subset
<1> QED BY <1>1, <1>3, FS_CardinalityType

(* A smaller set of the same events holds no more of them. *)
LEMMA StillFits ==
    ASSUME Types, NEW k \in Key, NEW S \in SUBSET zset[k]
    PROVE  Cardinality(S) \in Nat /\ Cardinality(S) <= Cardinality(zset[k])
BY WindowsAreFinite, FS_Subset, FS_CardinalityType

-----------------------------------------------------------------------------
(* A script that admits keeps the invariant of the logs. *)
LEMMA AdmittedKeeps ==
    ASSUME Types, Script, NEW k \in Key, NEW c \in Nat, c <= now, now - c <= MaxDelay,
           Admitted(k, c), now' = now
    PROVE  /\ log' \in [Key -> Seq(Event)] /\ zset' \in [Key -> SUBSET Nat]
           /\ \A l \in Key : zset'[l] \subseteq DOMAIN log'[l]
           /\ merged' \in [Key -> SUBSET Nat] /\ expiry' \in [Key -> Int]
           /\ Script'
<1> DEFINE n == Len(log[k])
           e == [at |-> now, score |-> c]
<1>1. now \in Nat /\ Window[k] \in Nat /\ MaxDelay \in Nat /\ Second \in Nat
      /\ Limit[k] \in Nat /\ Limit[k] > 0
  BY RateLimitAssumption DEF Types
<1>2. log[k] \in Seq(Event) /\ n \in Nat /\ DOMAIN log[k] = 1..n /\ e \in Event
  BY <1>1 DEF Types, Event
<1>3. /\ log' = [log EXCEPT ![k] = Append(log[k], e)]
      /\ expiry' = [expiry EXCEPT ![k] = now + Window[k] + Second]
      /\ Cardinality(LeftAt(k, c)) < Limit[k]
      /\ \E same \in SameMember(k, LeftAt(k, c)) :
            /\ zset' = [zset EXCEPT ![k] = (LeftAt(k, c) \ same) \cup {n + 1}]
            /\ merged' = [merged EXCEPT ![k] = merged[k] \cup same]
  BY DEF Admitted
<1>30. PICK same \in SameMember(k, LeftAt(k, c)) :
            /\ zset' = [zset EXCEPT ![k] = (LeftAt(k, c) \ same) \cup {n + 1}]
            /\ merged' = [merged EXCEPT ![k] = merged[k] \cup same]
  BY <1>3
<1>31. same \subseteq LeftAt(k, c) /\ same \subseteq 1..n
  BY <1>2, LeftIsInZset DEF SameMember
<1>4. /\ log'[k] = Append(log[k], e) /\ log'[k] \in Seq(Event) /\ DOMAIN log'[k] = 1..(n + 1)
      /\ log'[k][n + 1] = e
      /\ \A i \in 1..n : log'[k][i] = log[k][i] /\ log[k][i] \in Event
  BY <1>2, <1>3 DEF Types
<1>5. /\ zset'[k] = (LeftAt(k, c) \ same) \cup {n + 1}
      /\ merged'[k] = merged[k] \cup same
      /\ LeftAt(k, c) \subseteq zset[k] /\ LeftAt(k, c) \subseteq 1..n
      /\ expiry'[k] = now + Window[k] + Second
  BY <1>3, <1>30, LeftIsInZset DEF Types
<1>6. \A l \in Key : l # k => /\ log'[l] = log[l] /\ zset'[l] = zset[l]
                             /\ merged'[l] = merged[l] /\ expiry'[l] = expiry[l]
  BY <1>3, <1>30 DEF Types
<1>7. /\ log' \in [Key -> Seq(Event)] /\ zset' \in [Key -> SUBSET Nat]
      /\ merged' \in [Key -> SUBSET Nat] /\ expiry' \in [Key -> Int]
  <2>1. (LeftAt(k, c) \ same) \cup {n + 1} \in SUBSET Nat /\ merged[k] \cup same \in SUBSET Nat
    BY <1>2, <1>5, <1>31 DEF Types
  <2>2. now + Window[k] + Second \in Int
    BY <1>1
  <2> QED BY <1>3, <1>30, <1>4, <2>1, <2>2 DEF Types
<1>8. \A l \in Key : zset'[l] \subseteq DOMAIN log'[l]
  <2> SUFFICES ASSUME NEW l \in Key PROVE zset'[l] \subseteq DOMAIN log'[l]
    OBVIOUS
  <2>1. CASE l # k
    BY <2>1, <1>6 DEF Types
  <2>2. CASE l = k
    <3>1. (LeftAt(k, c) \ same) \cup {n + 1} \subseteq 1..(n + 1)
      BY <1>2, <1>5
    <3> HIDE DEF n
    <3> QED BY <2>2, <3>1, <1>4, <1>5
  <2> QED BY <2>1, <2>2
<1>9. Times'
  <2> SUFFICES ASSUME NEW l \in Key, NEW i \in DOMAIN log'[l]
               PROVE  /\ log'[l][i].at <= now
                      /\ log'[l][i].score <= log'[l][i].at
                      /\ log'[l][i].at - MaxDelay <= log'[l][i].score
                      /\ \A j \in DOMAIN log'[l] : i <= j => log'[l][i].at <= log'[l][j].at
    BY DEF Times
  <2>1. CASE l # k
    BY <2>1, <1>6 DEF Times, Script
  <2>2. CASE l = k /\ i = n + 1
    <3>1. log'[l][i] = e /\ e.at = now /\ e.score = c
      BY <1>4, <2>2
    <3>2. \A j \in DOMAIN log'[l] : i <= j => j = n + 1
      BY <1>2, <1>4, <2>2
    <3> QED BY <1>1, <2>2, <3>1, <3>2
  <2>3. CASE l = k /\ i \in 1..n
    <3>1. log'[l][i] = log[k][i] /\ i \in DOMAIN log[k] /\ log[k][i] \in Event
      BY <1>2, <1>4, <2>3
    <3>2. ASSUME NEW j \in DOMAIN log'[l], i <= j
          PROVE  log'[l][i].at <= log'[l][j].at
      <4>1. CASE j = n + 1
        BY <3>1, <4>1, <1>4, <2>3 DEF Times, Script
      <4>2. CASE j \in 1..n
        BY <3>1, <3>2, <4>2, <1>2, <1>4, <2>3 DEF Times, Script
      <4> QED BY <4>1, <4>2, <1>2, <1>4, <2>3
    <3> QED BY <3>1, <3>2 DEF Times, Script
  <2> QED BY <2>1, <2>2, <2>3, <1>2, <1>4
<1>10. Gone'
  <2> SUFFICES ASSUME NEW l \in Key, NEW i \in DOMAIN log'[l], i \notin zset'[l], i \notin merged'[l]
               PROVE  log'[l][i].at + Window[l] - MaxDelay <= now
    BY DEF Gone
  <2>1. CASE l # k
    BY <2>1, <1>6 DEF Gone, Script
  <2>2. CASE l = k
    <3>1. i \in 1..n /\ i \notin LeftAt(k, c) /\ i \notin merged[k]
      BY <2>2, <1>2, <1>4, <1>5
    <3> QED BY <2>2, <3>1, <1>2, <1>4, PurgedIsOld DEF Script
  <2> QED BY <2>1, <2>2
<1>11. Outlives'
  <2> SUFFICES ASSUME NEW l \in Key, NEW i \in zset'[l]
               PROVE  log'[l][i].at + Window[l] <= expiry'[l]
    BY DEF Outlives
  <2>1. CASE l # k
    BY <2>1, <1>6 DEF Outlives, Script
  <2>2. CASE l = k /\ i = n + 1
    BY <2>2, <1>1, <1>4, <1>5
  <2>3. CASE l = k /\ i \in LeftAt(k, c)
    <3>1. i \in 1..n /\ log'[k][i] = log[k][i] /\ log[k][i] \in Event /\ log[k][i].at <= now
      BY <2>3, <1>2, <1>4, <1>5 DEF Times, Script
    <3>2. log[k][i].at \in Int
      BY <3>1 DEF Event
    <3>3. log[k][i].at + Window[k] <= now + Window[k] + Second
      BY <3>1, <3>2, <1>1, ExpiresAfter
    <3> HIDE DEF n, e
    <3> QED BY <2>3, <3>1, <3>3, <1>5
  <2> QED BY <2>1, <2>2, <2>3, <1>5
<1>12. Fits'
  <2> SUFFICES ASSUME NEW l \in Key PROVE Cardinality(zset'[l]) <= Limit[l]
    BY DEF Fits
  <2>1. CASE l # k
    BY <2>1, <1>6 DEF Fits, Script
  <2>2. CASE l = k
    <3>1. IsFiniteSet(LeftAt(k, c)) /\ Cardinality(LeftAt(k, c)) < Limit[k] /\ Limit[k] \in Nat
      BY <1>1, <1>3, LeftIsInZset
    <3>2. Cardinality((LeftAt(k, c) \ same) \cup {n + 1}) <= Limit[k]
      BY <3>1, OneMoreFits
    <3> HIDE DEF n
    <3> QED BY <2>2, <3>2, <1>5
  <2> QED BY <2>1, <2>2
<1>13. WindowLimit'
  <2> SUFFICES ASSUME NEW l \in Key, NEW i \in DOMAIN log'[l]
               PROVE  Cardinality(Younger(log'[l], merged'[l], i, Window[l] - MaxDelay)) <= Limit[l]
    BY DEF WindowLimit, Younger
  <2>1. CASE l # k
    BY <2>1, <1>6 DEF WindowLimit, Script, Younger
  <2>2. CASE l = k /\ i \in 1..n
    <3> DEFINE old == Younger(log[k], merged[k], i, Window[k] - MaxDelay)
               new == Younger(log'[k], merged'[k], i, Window[k] - MaxDelay)
    <3>1. Cardinality(old) <= Limit[k] /\ i \in Nat
      <4>1. i \in DOMAIN log[k] /\ i \in Nat
        BY <2>2, <1>2
      <4> QED BY <4>1 DEF WindowLimit, Script, Younger
    <3>2. new \subseteq old
      BY <2>2, <1>2, <1>4, <1>5 DEF Younger
    <3>3. /\ IsFiniteSet(old) /\ Cardinality(new) \in Nat /\ Cardinality(old) \in Nat
          /\ Cardinality(new) <= Cardinality(old)
      BY <3>1, <3>2, YoungerIsFinite, FS_Subset, FS_CardinalityType
    <3> HIDE DEF old, new
    <3>4. Cardinality(new) <= Limit[k]
      BY <3>1, <3>3, <1>1
    <3> QED BY <2>2, <3>4 DEF new
  <2>3. CASE l = k /\ i = n + 1
    <3> DEFINE new == Younger(log'[k], merged'[k], n + 1, Window[k] - MaxDelay)
    <3>1. new \subseteq zset'[k]
      <4> SUFFICES ASSUME NEW j \in new PROVE j \in zset'[k]
        OBVIOUS
      <4>1. /\ j \in DOMAIN log'[k] /\ j \notin merged'[k]
            /\ now - log'[k][j].at < Window[k] - MaxDelay
        BY <1>2, <1>4 DEF Younger
      <4>2. log'[k][j].at \in Int
        <5>1. log'[k][j] \in Event
          BY <1>4, <4>1
        <5> QED BY <5>1 DEF Event
      <4>3. ~(log'[k][j].at + Window[k] - MaxDelay <= now)
        BY <1>1, <4>1, <4>2
      <4> QED BY <4>1, <4>3, <1>10 DEF Gone
    <3>2. Cardinality(zset'[k]) <= Limit[k]
      BY <1>12 DEF Fits
    <3>3. IsFiniteSet(zset'[k])
      <4>1. IsFiniteSet(LeftAt(k, c))
        BY LeftIsInZset
      <4>2. IsFiniteSet(LeftAt(k, c) \ same)
        BY <4>1, FS_Subset
      <4>3. IsFiniteSet((LeftAt(k, c) \ same) \cup {n + 1})
        BY <4>2, FS_AddElement
      <4> HIDE DEF n
      <4> QED BY <4>3, <1>5
    <3>4. /\ Cardinality(new) \in Nat /\ Cardinality(zset'[k]) \in Nat
          /\ Cardinality(new) <= Cardinality(zset'[k])
      BY <3>1, <3>3, FS_Subset, FS_CardinalityType
    <3> HIDE DEF new
    <3>5. Cardinality(new) <= Limit[k]
      BY <3>2, <3>4, <1>1
    <3> QED BY <2>3, <3>5 DEF new
  <2> QED BY <2>1, <2>2, <2>3, <1>2, <1>4
<1> QED BY <1>7, <1>8, <1>9, <1>10, <1>11, <1>12, <1>13 DEF Script

(* A script that denies only purges, and the key outlives what is left. *)
LEMMA DeniedKeeps ==
    ASSUME Types, Script, NEW k \in Key, NEW c \in Nat, c <= now,
           Denied(k, c), now' = now
    PROVE  /\ log' = log /\ merged' = merged /\ zset' \in [Key -> SUBSET Nat]
           /\ \A l \in Key : zset'[l] \subseteq DOMAIN log'[l]
           /\ expiry' \in [Key -> Int]
           /\ Script'
<1>1. now \in Nat /\ Window[k] \in Nat /\ log[k] \in Seq(Event)
  BY RateLimitAssumption DEF Types
<1>2. /\ zset' = [zset EXCEPT ![k] = LeftAt(k, c)] /\ log' = log /\ merged' = merged
      /\ expiry' = [expiry EXCEPT ![k] = now + Window[k]]
  BY DEF Denied
<1>3. LeftAt(k, c) \subseteq zset[k] /\ zset[k] \subseteq DOMAIN log[k] /\ zset[k] \subseteq Nat
  BY LeftIsInZset DEF Types
<1>4. zset'[k] = LeftAt(k, c) /\ expiry'[k] = now + Window[k]
  BY <1>2 DEF Types
<1>5. \A l \in Key : l # k => zset'[l] = zset[l] /\ expiry'[l] = expiry[l]
  BY <1>2 DEF Types
<1>6. zset' \in [Key -> SUBSET Nat] /\ expiry' \in [Key -> Int]
  BY <1>1, <1>2, <1>3 DEF Types
<1>7. \A l \in Key : zset'[l] \subseteq DOMAIN log'[l]
  BY <1>2, <1>3, <1>4, <1>5 DEF Types
<1>8. Times' /\ WindowLimit'
  BY <1>2 DEF Script, Times, WindowLimit
<1>9. Gone'
  <2> SUFFICES ASSUME NEW l \in Key, NEW i \in DOMAIN log[l],
                      i \notin zset'[l], i \notin merged[l]
               PROVE  log[l][i].at + Window[l] - MaxDelay <= now
    BY <1>2 DEF Gone
  <2>1. CASE l # k
    BY <2>1, <1>5 DEF Gone, Script
  <2>2. CASE l = k
    BY <2>2, <1>4, PurgedIsOld DEF Script
  <2> QED BY <2>1, <2>2
<1>10. Outlives'
  <2> SUFFICES ASSUME NEW l \in Key, NEW i \in zset'[l]
               PROVE  log[l][i].at + Window[l] <= expiry'[l]
    BY <1>2 DEF Outlives
  <2>1. CASE l # k
    BY <2>1, <1>5 DEF Outlives, Script
  <2>2. CASE l = k
    <3>1. i \in DOMAIN log[k]
      BY <2>2, <1>3, <1>4
    <3>2. log[k][i].at \in Int
      <4>1. log[k][i] \in Event
        BY <1>1, <3>1
      <4> QED BY <4>1 DEF Event
    <3>3. log[k][i].at <= now
      BY <3>1 DEF Times, Script
    <3> QED BY <2>2, <3>2, <3>3, <1>1, <1>4
  <2> QED BY <2>1, <2>2
<1>11. Fits'
  <2> SUFFICES ASSUME NEW l \in Key PROVE Cardinality(zset'[l]) <= Limit[l]
    BY DEF Fits
  <2>1. Cardinality(zset[l]) <= Limit[l] /\ Cardinality(zset[l]) \in Nat /\ Limit[l] \in Nat
    BY WindowsAreFinite, RateLimitAssumption DEF Fits, Script
  <2>2. CASE l # k
    BY <2>1, <2>2, <1>5
  <2>3. CASE l = k
    <3>1. Cardinality(zset'[k]) \in Nat /\ Cardinality(zset'[k]) <= Cardinality(zset[k])
      BY <1>3, <1>4, StillFits
    <3> QED BY <2>1, <2>3, <3>1
  <2> QED BY <2>2, <2>3
<1> QED BY <1>2, <1>6, <1>7, <1>8, <1>9, <1>10, <1>11 DEF Script

-----------------------------------------------------------------------------
(* A request starts well-typed, and initially nothing is logged. *)
LEMMA FreshType == Fresh \in ReqType
BY DEF Fresh, NoDenial, ReqType

\* No request was admitted at first.
LEMMA InitEstablishes == Init => IInv
<1> SUFFICES ASSUME Init PROVE IInv
  OBVIOUS
<1>1. Types
  BY DEF Init, Types, ReqType, Fresh, NoDenial
<1>2. Readings /\ Asked /\ WritesAreCounted
  BY DEF Init, Readings, Asked, WritesAreCounted, Fresh
<1>3. Script
  <2>1. Times /\ Gone /\ Outlives /\ WindowLimit
    BY DEF Init, Times, Gone, Outlives, WindowLimit
  <2>2. Fits
    BY FS_EmptySet, RateLimitAssumption DEF Init, Fits
  <2> QED BY <2>1, <2>2 DEF Script
<1> QED BY <1>1, <1>2, <1>3 DEF IInv

(* What a request may become without harm to the invariant. *)
Sound(new) ==
    /\ new \in ReqType
    /\ new.pc = "script" => new.rules # <<>> /\ new.reading <= now /\ now - new.reading <= MaxDelay
    /\ new.pc \in {"rule", "script"} => new.known \subseteq new.counted \cup Keys(new.rules)
    /\ new.pc = "passed" /\ ~new.get => new.known \subseteq new.counted

\* A request that moves on keeps the others where they are.
LEMMA RequestMoves ==
    ASSUME IInv, NEW r \in Request, NEW new, Sound(new),
           req' = [req EXCEPT ![r] = new], now' = now
    PROVE  req' \in [Request -> ReqType] /\ Readings' /\ Asked' /\ WritesAreCounted'
<1>1. req \in [Request -> ReqType]
  BY DEF IInv, Types
<1>2. \A s \in Request : req'[s] = IF s = r THEN new ELSE req[s]
  BY <1>1
<1>3. req' \in [Request -> ReqType]
  BY <1>1 DEF Sound
<1>4. Readings'
  BY <1>2 DEF IInv, Readings, Sound
<1>5. Asked'
  BY <1>2 DEF IInv, Asked, Sound
<1>6. WritesAreCounted'
  BY <1>2 DEF IInv, WritesAreCounted, Sound
<1> QED BY <1>3, <1>4, <1>5, <1>6

(* Nothing happens to the logs. *)
LEMMA LogsStay ==
    ASSUME IInv, UNCHANGED <<now, log, zset, merged, expiry>>,
           req' \in [Request -> ReqType], Readings', Asked', WritesAreCounted'
    PROVE  IInv'
<1>1. Types'
  BY DEF IInv, Types
<1>2. Script'
  BY DEF IInv, Script, Times, Gone, Outlives, Fits, WindowLimit
<1> QED BY <1>1, <1>2 DEF IInv

(* The keys of a sequence are its head and those of its tail. *)
LEMMA HeadAndTail ==
    ASSUME NEW s \in Seq(Key), s # <<>>
    PROVE  Head(s) \in Key /\ Tail(s) \in Seq(Key) /\ Keys(s) \subseteq {Head(s)} \cup Keys(Tail(s))
<1>1. Head(s) \in Key /\ Tail(s) \in Seq(Key)
  OBVIOUS
<1>2. ASSUME NEW i \in DOMAIN s
      PROVE  s[i] = Head(s) \/ s[i] \in Keys(Tail(s))
  <2>1. CASE i = 1
    BY <2>1
  <2>2. CASE i # 1
    <3>1. i - 1 \in DOMAIN Tail(s) /\ Tail(s)[i - 1] = s[i]
      BY <2>2
    <3> QED BY <3>1 DEF Keys
  <2> QED BY <2>1, <2>2
<1> QED BY <1>1, <1>2 DEF Keys

-----------------------------------------------------------------------------
(* A set of integers that are at least some bound has a least member. *)
LEMMA LeastExists ==
    ASSUME NEW S \in SUBSET Nat, S # {}
    PROVE  \E s \in S : \A t \in S : s <= t
<1>1. \E s \in S : \A t \in S : <<t, s>> \notin OpToRel(<, Nat)
  BY NatLessThanWellFounded, WFMin
<1>2. PICK s \in S : \A t \in S : <<t, s>> \notin OpToRel(<, Nat)
  BY <1>1
<1>3. ASSUME NEW t \in S PROVE s <= t
  <2>1. ~(t < s)
    BY <1>2 DEF OpToRel
  <2> QED BY <2>1
<1> QED BY <1>3

(* The oldest score is one of those left, and no other is older. *)
LEMMA OldestIsFirst ==
    ASSUME Types, Script, NEW k \in Key, NEW left \in SUBSET DOMAIN log[k], left # {}
    PROVE  /\ Oldest(k, left) \in Int
           /\ \E i \in left : log[k][i].score = Oldest(k, left)
           /\ \A i \in left : Oldest(k, left) <= log[k][i].score
<1> DEFINE S == {log[k][i].score : i \in left}
<1>1. S \in SUBSET Nat /\ S # {}
  <2>1. log[k] \in Seq(Event) /\ \A i \in left : log[k][i] \in Event
    BY DEF Types
  <2> QED BY <2>1 DEF Event
<1>2. \E s \in S : \A t \in S : s <= t
  BY <1>1, LeastExists
<1>3. \E s \in S : \A i \in left : s <= log[k][i].score
  BY <1>2
<1>4. Oldest(k, left) \in S /\ \A i \in left : Oldest(k, left) <= log[k][i].score
  BY <1>3 DEF Oldest
<1> QED BY <1>1, <1>4

\* The wait is a whole number of ticks.
LEMMA WaitIsInt ==
    ASSUME NEW k \in Key, NEW left, NEW c \in Nat, Oldest(k, left) \in Int
    PROVE  c + Second * RetryAfter(k, left, c) \in Int
<1>1. Second \in Nat /\ Second > 0 /\ Window[k] \in Nat
  BY RateLimitAssumption
<1>2. RetryAfter(k, left, c) \in Int
  BY <1>1 DEF RetryAfter, AtLeastOne, Ceil
<1> QED BY <1>1, <1>2

-----------------------------------------------------------------------------
(* One step per action. *)
LEMMA ArriveKeeps ==
    ASSUME IInv, NEW r \in Request, NEW p \in Policy, NEW get \in BOOLEAN,
           NEW known \in SUBSET Keys(Rules[p]), Arrive(r, p, get, known)
    PROVE  IInv'
<1> DEFINE new == [Fresh EXCEPT !.pc = "rule", !.get = get, !.rules = Rules[p], !.known = known]
<1>1. Rules[p] \in Seq(Key)
  BY RateLimitAssumption
<1>2. known \in SUBSET Key
  BY <1>1 DEF Keys
<1>3. Sound(new)
  <2>1. new \in ReqType
    BY <1>1, <1>2, FreshType DEF ReqType
  <2>2. new.pc = "rule" /\ new.known = known /\ new.rules = Rules[p] /\ new.counted = {}
    BY DEF Fresh
  <2> HIDE DEF new
  <2> QED BY <2>1, <2>2 DEF Sound
<1>4. req' = [req EXCEPT ![r] = new] /\ UNCHANGED <<now, log, zset, merged, expiry>>
  BY DEF Arrive
<1> QED BY <1>3, <1>4, RequestMoves, LogsStay

\* The handler runs when the rules have admitted the request.
LEMMA HandleKeeps ==
    ASSUME IInv, NEW r \in Request, Handle(r)
    PROVE  IInv'
<1> DEFINE new == [req[r] EXCEPT !.pc = "passed"]
<1>1. req[r] \in ReqType /\ req[r].known \subseteq req[r].counted \cup Keys(<<>>)
  BY DEF IInv, Types, Handle, Asked
<1>2. Sound(new)
  BY <1>1 DEF Sound, ReqType, Keys
<1>3. req' = [req EXCEPT ![r] = new] /\ UNCHANGED <<now, log, zset, merged, expiry>>
  BY DEF Handle
<1> QED BY <1>2, <1>3, RequestMoves, LogsStay

\* A rule whose key the request does not know is passed over.
LEMMA PassOverKeeps ==
    ASSUME IInv, NEW r \in Request, PassOver(r)
    PROVE  IInv'
<1> DEFINE new == [req[r] EXCEPT !.rules = Tail(req[r].rules)]
<1>1. req[r] \in ReqType /\ req[r].known \subseteq req[r].counted \cup Keys(req[r].rules)
      /\ req[r].pc = "rule" /\ req[r].rules \in Seq(Key) /\ req[r].rules # <<>>
      /\ Head(req[r].rules) \notin req[r].known
  BY DEF IInv, Types, PassOver, Asked, ReqType
<1>2. Tail(req[r].rules) \in Seq(Key) /\ req[r].known \subseteq req[r].counted \cup Keys(Tail(req[r].rules))
  BY <1>1, HeadAndTail
<1>3. Sound(new)
  BY <1>1, <1>2 DEF Sound, ReqType
<1>4. req' = [req EXCEPT ![r] = new] /\ UNCHANGED <<now, log, zset, merged, expiry>>
  BY DEF PassOver
<1> QED BY <1>3, <1>4, RequestMoves, LogsStay

\* The next rule is asked with the clock of the instance.
LEMMA AskKeeps ==
    ASSUME IInv, NEW r \in Request, Ask(r)
    PROVE  IInv'
<1> DEFINE new == [req[r] EXCEPT !.pc = "script", !.reading = now]
<1>1. req[r] \in ReqType /\ req[r].known \subseteq req[r].counted \cup Keys(req[r].rules)
      /\ req[r].rules # <<>> /\ now \in Nat /\ MaxDelay \in Nat
  BY RateLimitAssumption DEF IInv, Types, Ask, Asked
<1>2. Sound(new)
  <2>1. new \in ReqType
    BY <1>1 DEF ReqType
  <2>2. new.pc = "script" /\ new.known = req[r].known /\ new.rules = req[r].rules
        /\ new.counted = req[r].counted /\ new.reading = now
    BY <1>1 DEF ReqType
  <2> HIDE DEF new
  <2> QED BY <1>1, <2>1, <2>2 DEF Sound
<1>3. req' = [req EXCEPT ![r] = new] /\ UNCHANGED <<now, log, zset, merged, expiry>>
  BY DEF Ask
<1> QED BY <1>2, <1>3, RequestMoves, LogsStay

\* The facts every script starts from.
LEMMA ScriptStarts ==
    ASSUME IInv, NEW r \in Request, req[r].pc = "script"
    PROVE  /\ req[r] \in ReqType /\ Head(req[r].rules) \in Key
           /\ req[r].rules \in Seq(Key) /\ req[r].rules # <<>>
           /\ req[r].reading \in Nat /\ req[r].reading <= now
           /\ now - req[r].reading <= MaxDelay
           /\ req[r].known \subseteq req[r].counted \cup Keys(req[r].rules)
<1>1. req[r] \in ReqType /\ req[r].rules \in Seq(Key) /\ req[r].reading \in Nat
  BY DEF IInv, Types, ReqType
<1>2. req[r].rules # <<>> /\ req[r].reading <= now /\ now - req[r].reading <= MaxDelay
  BY DEF IInv, Readings
<1>3. req[r].known \subseteq req[r].counted \cup Keys(req[r].rules)
  BY DEF IInv, Asked
<1> QED BY <1>1, <1>2, <1>3

\* A script has run, and the request moves on soundly.
LEMMA ScriptRan ==
    ASSUME IInv, NEW r \in Request, req[r].pc = "script", now' = now,
           \/ Admitted(Head(req[r].rules), req[r].reading)
           \/ Denied(Head(req[r].rules), req[r].reading),
           req' \in [Request -> ReqType], Readings', Asked', WritesAreCounted'
    PROVE  IInv'
<1> DEFINE k == Head(req[r].rules)
           c == req[r].reading
<1>1. k \in Key /\ c \in Nat /\ c <= now /\ now - c <= MaxDelay
  BY ScriptStarts
<1>2. Types /\ Script
  BY DEF IInv
<1> HIDE DEF k, c
<1>3. /\ log' \in [Key -> Seq(Event)] /\ zset' \in [Key -> SUBSET Nat]
      /\ \A l \in Key : zset'[l] \subseteq DOMAIN log'[l]
      /\ merged' \in [Key -> SUBSET Nat] /\ expiry' \in [Key -> Int]
      /\ Script'
  <2>1. CASE Admitted(k, c)
    BY <1>1, <1>2, <2>1, AdmittedKeeps
  <2>2. CASE Denied(k, c)
    <3>1. /\ log' = log /\ merged' = merged /\ zset' \in [Key -> SUBSET Nat]
          /\ \A l \in Key : zset'[l] \subseteq DOMAIN log'[l]
          /\ expiry' \in [Key -> Int]
          /\ Script'
      BY <1>1, <1>2, <2>2, DeniedKeeps
    <3> QED BY <3>1, <1>2 DEF Types
  <2> QED BY <2>1, <2>2 DEF k, c
<1>4. Types'
  BY <1>2, <1>3 DEF Types
<1> QED BY <1>3, <1>4 DEF IInv

\* The script admits a request and counts it.
LEMMA AdmitKeeps ==
    ASSUME IInv, NEW r \in Request, Admit(r)
    PROVE  IInv'
<1> DEFINE k == Head(req[r].rules)
           new == [req[r] EXCEPT !.pc = "rule", !.rules = Tail(req[r].rules),
                                 !.counted = req[r].counted \cup {k}, !.reading = 0]
<1>1. req[r].pc = "script" /\ Admitted(k, req[r].reading) /\ now' = now
  BY DEF Admit
<1>2. /\ req[r] \in ReqType /\ k \in Key /\ req[r].rules \in Seq(Key) /\ req[r].rules # <<>>
      /\ req[r].known \subseteq req[r].counted \cup Keys(req[r].rules)
  BY <1>1, ScriptStarts
<1>3. Tail(req[r].rules) \in Seq(Key) /\ req[r].counted \cup {k} \in SUBSET Key
      /\ req[r].known \subseteq (req[r].counted \cup {k}) \cup Keys(Tail(req[r].rules))
  BY <1>2, HeadAndTail DEF ReqType
<1>4. Sound(new)
  BY <1>2, <1>3 DEF Sound, ReqType
<1>5. req' = [req EXCEPT ![r] = new]
  BY DEF Admit
<1>6. req' \in [Request -> ReqType] /\ Readings' /\ Asked' /\ WritesAreCounted'
  BY <1>1, <1>4, <1>5, RequestMoves
<1> QED BY <1>1, <1>6, ScriptRan

\* The end of a request that is refused.
LEMMA RefusedIsSound ==
    ASSUME NEW new \in ReqType, new.pc \in {"limited", "unavailable"}
    PROVE  Sound(new)
BY DEF Sound

\* The script denies a request and counts nothing.
LEMMA DenyKeeps ==
    ASSUME IInv, NEW r \in Request, Deny(r)
    PROVE  IInv'
<1> DEFINE k == Head(req[r].rules)
           c == req[r].reading
           back == c + Second * RetryAfter(k, LeftAt(k, c), c)
           new == [Fresh EXCEPT !.pc = "limited",
                                !.denial = [key |-> k, seen |-> Len(log[k]), until |-> back]]
<1>1. req[r].pc = "script" /\ Denied(k, c) /\ now' = now /\ req' = [req EXCEPT ![r] = new]
  BY DEF Deny
<1>2. k \in Key /\ c \in Nat /\ log[k] \in Seq(Event)
  BY <1>1, ScriptStarts DEF IInv, Types
<1>3. back \in Int
  <2> DEFINE left == LeftAt(k, c)
             oldest == Oldest(k, left)
  <2>1. left # {} /\ left \subseteq DOMAIN log[k]
    <3>1. Cardinality(left) >= Limit[k] /\ Limit[k] \in Nat /\ Limit[k] > 0
      BY <1>1, <1>2, RateLimitAssumption DEF Denied
    <3>2. left # {}
      BY <3>1, FS_EmptySet
    <3>3. left \subseteq 1..Len(log[k]) /\ DOMAIN log[k] = 1..Len(log[k])
      <4> HIDE DEF k, c
      <4>1. Types
        BY DEF IInv
      <4>2. left \subseteq 1..Len(log[k])
        BY <1>2, <4>1, LeftIsInZset
      <4> QED BY <1>2, <4>2
    <3> QED BY <3>2, <3>3
  <2>2. oldest \in Int
    BY <1>2, <2>1, OldestIsFirst DEF IInv
  <2> QED BY <2>2, <1>2, WaitIsInt
<1>4. new \in ReqType /\ new.pc = "limited"
  <2>1. [key |-> k, seen |-> Len(log[k]), until |-> back] \in
           [key : Key \cup {<<>>}, seen : Nat, until : Int]
    BY <1>2, <1>3
  <2> HIDE DEF back, k
  <2>2. new \in ReqType
    BY <2>1, FreshType DEF ReqType
  <2> QED BY <2>2, FreshType DEF ReqType
<1>5. Sound(new)
  BY <1>4, RefusedIsSound
<1>6. req' \in [Request -> ReqType] /\ Readings' /\ Asked' /\ WritesAreCounted'
  BY <1>1, <1>5, RequestMoves
<1> QED BY <1>1, <1>6, ScriptRan

\* When Redis fails, the script may have run or not.
LEMMA RedisFailsKeeps ==
    ASSUME IInv, NEW r \in Request, RedisFails(r)
    PROVE  IInv'
<1> DEFINE new == IF req[r].get /\ FailOpen THEN [req[r] EXCEPT !.pc = "passed"]
                  ELSE [Fresh EXCEPT !.pc = "unavailable"]
<1>1. req[r].pc = "script" /\ now' = now /\ req' = [req EXCEPT ![r] = new]
  BY DEF RedisFails, Unprotected
<1>2. Sound(new)
  <2>1. CASE req[r].get /\ FailOpen
    <3>1. new \in ReqType /\ new.pc = "passed" /\ new.get
      BY <1>1, <2>1, ScriptStarts DEF ReqType
    <3> HIDE DEF new
    <3> QED BY <3>1 DEF Sound
  <2>2. CASE ~(req[r].get /\ FailOpen)
    <3>1. new \in ReqType /\ new.pc = "unavailable"
      BY <2>2, FreshType DEF ReqType
    <3> QED BY <3>1, RefusedIsSound
  <2> QED BY <2>1, <2>2
<1>3. req' \in [Request -> ReqType] /\ Readings' /\ Asked' /\ WritesAreCounted'
  BY <1>1, <1>2, RequestMoves
<1>4. CASE UNCHANGED <<log, zset, merged, expiry>>
  BY <1>1, <1>3, <1>4, LogsStay
<1>5. CASE Admitted(Head(req[r].rules), req[r].reading) \/ Denied(Head(req[r].rules), req[r].reading)
  BY <1>1, <1>3, <1>5, ScriptRan
<1> QED BY <1>4, <1>5 DEF RedisFails

\* Time passes.
LEMMA TickKeeps ==
    ASSUME IInv, Tick
    PROVE  IInv'
<1>1. now \in Nat /\ now' = now + 1 /\ UNCHANGED <<log, zset, merged, expiry, req>> /\ MaxDelay \in Nat
  BY RateLimitAssumption DEF IInv, Types, Tick
<1>2. Types'
  BY <1>1 DEF IInv, Types
<1>3. Readings'
  <2> SUFFICES ASSUME NEW r \in Request, req[r].pc = "script"
               PROVE  /\ req[r].rules # <<>> /\ req[r].reading <= now + 1
                      /\ (now + 1) - req[r].reading <= MaxDelay
    BY <1>1 DEF Readings
  <2>1. req[r].rules # <<>> /\ req[r].reading <= now /\ req[r].reading \in Nat
        /\ now - req[r].reading < MaxDelay
    BY ScriptStarts DEF Tick
  <2> QED BY <1>1, <2>1
<1>4. Asked' /\ WritesAreCounted'
  BY <1>1 DEF IInv, Asked, WritesAreCounted
<1>5. \A k \in Key : \A i \in DOMAIN log[k] : log[k][i].at \in Int
  <2> SUFFICES ASSUME NEW k \in Key, NEW i \in DOMAIN log[k]
               PROVE  log[k][i].at \in Int
    OBVIOUS
  <2>1. log[k] \in Seq(Event) /\ log[k][i] \in Event
    BY DEF IInv, Types
  <2> QED BY <2>1 DEF Event
<1>6. Times'
  <2> SUFFICES ASSUME NEW k \in Key, NEW i \in DOMAIN log[k]
               PROVE  log[k][i].at <= now + 1
    BY <1>1 DEF IInv, Script, Times
  <2>1. log[k][i].at <= now
    BY DEF IInv, Script, Times
  <2> QED BY <1>1, <1>5, <2>1
<1>7. Gone'
  <2> SUFFICES ASSUME NEW k \in Key, NEW i \in DOMAIN log[k], i \notin zset[k], i \notin merged[k]
               PROVE  log[k][i].at + Window[k] - MaxDelay <= now + 1
    BY <1>1 DEF Gone
  <2>1. log[k][i].at + Window[k] - MaxDelay <= now /\ Window[k] \in Nat
    BY RateLimitAssumption DEF IInv, Script, Gone
  <2> QED BY <1>1, <1>5, <2>1
<1>8. Outlives' /\ Fits' /\ WindowLimit'
  BY <1>1 DEF IInv, Script, Outlives, Fits, WindowLimit
<1> QED BY <1>2, <1>3, <1>4, <1>6, <1>7, <1>8 DEF IInv, Script

-----------------------------------------------------------------------------
\* The invariant is inductive.
LEMMA NextKeeps == IInv /\ [Next]_vars => IInv'
<1> SUFFICES ASSUME IInv, [Next]_vars PROVE IInv'
  OBVIOUS
<1>1. CASE Tick
  BY <1>1, TickKeeps
<1>2. ASSUME NEW r \in Request, NEW p \in Policy, NEW get \in BOOLEAN,
             NEW known \in SUBSET Keys(Rules[p]), Arrive(r, p, get, known)
      PROVE  IInv'
  BY <1>2, ArriveKeeps
<1>3. ASSUME NEW r \in Request, Handle(r) \/ PassOver(r) \/ Ask(r)
      PROVE  IInv'
  BY <1>3, HandleKeeps, PassOverKeeps, AskKeeps
<1>4. ASSUME NEW r \in Request, Admit(r) \/ Deny(r) \/ RedisFails(r)
      PROVE  IInv'
  BY <1>4, AdmitKeeps, DenyKeeps, RedisFailsKeeps
<1>5. CASE UNCHANGED vars
  <2>1. Types' /\ Readings' /\ Asked' /\ WritesAreCounted'
    BY <1>5 DEF IInv, vars, Types, Readings, Asked, WritesAreCounted
  <2>2. Script'
    BY <1>5 DEF IInv, vars, Script, Times, Gone, Outlives, Fits, WindowLimit
  <2> QED BY <2>1, <2>2 DEF IInv
<1> QED BY <1>1, <1>2, <1>3, <1>4, <1>5 DEF Next

\* The inductive invariant (IInv) holds in every state: the sorted set and the
\* expiry of the limiter's script (rate_limit.py) account for every event still
\* in a window.
THEOREM Invariance == Spec => []IInv
<1>1. Init => IInv
  BY InitEstablishes
<1>2. IInv /\ [Next]_vars => IInv'
  BY NextKeeps
<1> QED BY <1>1, <1>2, PTL DEF Spec

(* Whatever the limits, windows, requests and the age of clock readings: up to
   any event of a key, no more than Limit are less than Window - MaxDelay old,
   those aside whose member a later event of the same instant has taken over
   (RateLimit's WindowLimit). *)
THEOREM WindowLimitHolds == Spec => []WindowLimit
<1>1. IInv => WindowLimit
  BY DEF IInv, Script
<1> QED BY <1>1, Invariance, PTL

(* No write reaches its handler uncounted, with Redis failing at any call. *)
THEOREM WritesAreCountedHolds == Spec => []WritesAreCounted
<1>1. IInv => WritesAreCounted
  BY DEF IInv
<1> QED BY <1>1, Invariance, PTL

-----------------------------------------------------------------------------
(* Retry-After: who was denied saw a full window, and waits until its oldest *)
(* event has left.  Until somebody is admitted the sorted set only shrinks.  *)
\* The events of a log and a sorted set that a reading c of the clock counts, were
\* the key not to expire.
InWindow(events, kept, k, c) == {i \in kept[k] : events[k][i].score > c - Window[k]}

\* What a denial has promised.
Kept(d, events, kept) ==
    /\ d.key \in Key /\ d.seen \in Nat /\ d.seen <= Len(events[d.key])
    /\ Len(events[d.key]) = d.seen
       => Cardinality(InWindow(events, kept, d.key, d.until)) < Limit[d.key]

Promised == \A r \in Request : req[r].pc = "limited" => Kept(req[r].denial, log, zset)

(* Rounded up to whole seconds, and to one at least, a wait is no shorter than *)
(* the one that was asked for. *)
LEMMA RoundedUp ==
    ASSUME NEW n \in Int
    PROVE  Second * AtLeastOne(Ceil(n)) >= n
<1> DEFINE q == (-n) \div Second
<1>1. Second \in Nat /\ Second > 0
  BY RateLimitAssumption
<1>2. q \in Int /\ Second * q <= -n
  BY <1>1
<1>3. Second * (-q) >= n
  BY <1>1, <1>2
<1>4. Ceil(n) = -q
  BY DEF Ceil
<1> HIDE DEF q
<1>5. CASE -q < 1
  <2>1. Second * (-q) <= 0
    BY <1>1, <1>2, <1>5
  <2>2. AtLeastOne(-q) = 1 /\ Second * 1 = Second
    BY <1>1, <1>5 DEF AtLeastOne
  <2> QED BY <1>1, <1>2, <1>3, <1>4, <2>1, <2>2
<1>6. CASE ~(-q < 1)
  BY <1>2, <1>3, <1>4, <1>6 DEF AtLeastOne
<1> QED BY <1>5, <1>6

(* At the time of the Retry-After the oldest event of the window has left it. *)
LEMMA WaitSuffices ==
    ASSUME NEW k \in Key, NEW left, NEW c \in Nat, Oldest(k, left) \in Int,
           NEW back, back = c + Second * RetryAfter(k, left, c)
    PROVE  Oldest(k, left) <= back - Window[k]
<1> DEFINE n == Oldest(k, left) + Window[k] - c
<1>1. Window[k] \in Nat /\ Second \in Nat /\ Second > 0 /\ n \in Int
  BY RateLimitAssumption
<1>2. Second * RetryAfter(k, left, c) >= n
  BY <1>1, RoundedUp DEF RetryAfter
<1>3. Second * RetryAfter(k, left, c) \in Int
  BY <1>1 DEF RetryAfter, AtLeastOne, Ceil
<1> HIDE DEF n
<1>4. n = Oldest(k, left) + Window[k] - c
  BY DEF n
<1> QED BY <1>1, <1>2, <1>3, <1>4

(* A promise holds as long as the log is the same and the sorted set shrinks, *)
(* and is not due any more once the log has grown. *)
LEMMA PromiseKept ==
    ASSUME Types, NEW d, Kept(d, log, zset),
           \A k \in Key : \/ log'[k] = log[k] /\ zset'[k] \subseteq zset[k]
                          \/ Len(log'[k]) = Len(log[k]) + 1
    PROVE  Kept(d, log', zset')
<1> DEFINE k == d.key
<1>1. k \in Key /\ d.seen \in Nat /\ d.seen <= Len(log[k]) /\ Len(log[k]) \in Nat /\ Limit[k] \in Nat
  BY WindowsAreFinite, RateLimitAssumption DEF Kept
<1>2. CASE Len(log'[k]) = Len(log[k]) + 1
  <2>1. d.seen <= Len(log'[k]) /\ Len(log'[k]) # d.seen
    BY <1>1, <1>2
  <2> QED BY <1>1, <2>1 DEF Kept
<1>3. CASE log'[k] = log[k] /\ zset'[k] \subseteq zset[k]
  <2>1. InWindow(log', zset', k, d.until) \subseteq InWindow(log, zset, k, d.until)
    BY <1>3 DEF InWindow
  <2>2. IsFiniteSet(InWindow(log, zset, k, d.until))
    BY <1>1, WindowsAreFinite, FS_Subset DEF InWindow
  <2>3. /\ Cardinality(InWindow(log', zset', k, d.until)) <= Cardinality(InWindow(log, zset, k, d.until))
        /\ Cardinality(InWindow(log', zset', k, d.until)) \in Nat
        /\ Cardinality(InWindow(log, zset, k, d.until)) \in Nat
    BY <2>1, <2>2, FS_Subset, FS_CardinalityType
  <2> QED BY <1>1, <1>3, <2>3 DEF Kept
<1> QED BY <1>1, <1>2, <1>3

(* A script adds an event or only purges. *)
LEMMA ScriptAddsOrPurges ==
    ASSUME Types, NEW k \in Key, NEW c \in Nat,
           Admitted(k, c) \/ Denied(k, c)
    PROVE  \A l \in Key : \/ log'[l] = log[l] /\ zset'[l] \subseteq zset[l]
                          \/ Len(log'[l]) = Len(log[l]) + 1
<1>1. /\ LeftAt(k, c) \subseteq zset[k]
      /\ zset \in [Key -> SUBSET Nat] /\ log \in [Key -> Seq(Event)]
  BY LeftIsInZset DEF Types
<1>2. CASE Admitted(k, c)
  <2>1. PICK same : zset' = [zset EXCEPT ![k] = (LeftAt(k, c) \ same) \cup {Len(log[k]) + 1}]
    BY <1>2 DEF Admitted
  <2>2. log' = [log EXCEPT ![k] = Append(log[k], [at |-> now, score |-> c])]
    BY <1>2 DEF Admitted
  <2>3. Len(log'[k]) = Len(log[k]) + 1
    BY <1>1, <2>2
  <2>4. \A l \in Key : l # k => log'[l] = log[l] /\ zset'[l] = zset[l]
    BY <1>1, <2>1, <2>2
  <2> QED BY <2>3, <2>4
<1>3. CASE Denied(k, c)
  BY <1>1, <1>3 DEF Denied
<1> QED BY <1>2, <1>3

(* A denial makes a promise that holds. *)
LEMMA DenialPromises ==
    ASSUME IInv, NEW r \in Request, Deny(r)
    PROVE  Kept(req'[r].denial, log', zset')
<1> DEFINE k == Head(req[r].rules)
           c == req[r].reading
           left == LeftAt(k, c)
           back == c + Second * RetryAfter(k, left, c)
<1>1. req[r].pc = "script" /\ Denied(k, c) /\ k \in Key /\ c \in Nat
  BY ScriptStarts DEF Deny
<1>2. req'[r].denial = [key |-> k, seen |-> Len(log[k]), until |-> back]
  BY DEF Deny, IInv, Types, Fresh
<1>3. Types /\ Script /\ Limit[k] \in Nat /\ Limit[k] > 0 /\ Window[k] \in Nat
  BY <1>1, RateLimitAssumption DEF IInv
<1> HIDE DEF k, c
<1>4. /\ left \subseteq zset[k] /\ left \subseteq DOMAIN log[k]
      /\ IsFiniteSet(left) /\ Cardinality(left) \in Nat
  BY <1>1, <1>3, LeftIsInZset DEF Types
<1>5. log' = log /\ zset'[k] = left /\ Cardinality(left) >= Limit[k]
  BY <1>1, <1>3 DEF Denied, Types
<1>6. left # {}
  BY <1>3, <1>5, FS_EmptySet
<1>7. PICK i \in left : log[k][i].score = Oldest(k, left) /\ Oldest(k, left) \in Int
  BY <1>1, <1>3, <1>4, <1>6, OldestIsFirst
<1> HIDE DEF left
<1>8. ~(log[k][i].score > back - Window[k]) /\ back \in Int
  <2>1. back = c + Second * RetryAfter(k, left, c)
    OBVIOUS
  <2>2. back \in Int
    BY <1>1, <1>7, WaitIsInt
  <2> HIDE DEF back
  <2>3. Oldest(k, left) <= back - Window[k]
    BY <1>1, <1>7, <2>1, WaitSuffices
  <2> QED BY <1>3, <1>7, <2>2, <2>3
<1> HIDE DEF back
<1>9. InWindow(log', zset', k, back) \subseteq left \ {i}
  BY <1>5, <1>8 DEF InWindow
<1>10. Cardinality(InWindow(log', zset', k, back)) < Limit[k]
  <2>1. Cardinality(left) <= Limit[k]
    <3>1. Cardinality(left) <= Cardinality(zset[k]) /\ Cardinality(zset[k]) \in Nat
      BY <1>1, <1>3, <1>4, StillFits, WindowsAreFinite
    <3> QED BY <1>1, <1>3, <1>4, <3>1 DEF Fits, Script
  <2>2. IsFiniteSet(left \ {i}) /\ Cardinality(left \ {i}) = Cardinality(left) - 1
    BY <1>4, <1>7, FS_RemoveElement
  <2>3. /\ Cardinality(InWindow(log', zset', k, back)) <= Cardinality(left \ {i})
        /\ Cardinality(InWindow(log', zset', k, back)) \in Nat
    BY <1>9, <2>2, FS_Subset, FS_CardinalityType
  <2> QED BY <1>3, <1>4, <2>1, <2>2, <2>3
<1>11. Len(log[k]) \in Nat
  BY <1>1, <1>3, WindowsAreFinite
<1> QED BY <1>1, <1>2, <1>5, <1>10, <1>11 DEF Kept

(* The other requests keep their denials. *)
LEMMA OthersKeepPromises ==
    ASSUME Types, Promised, NEW r \in Request,
           \A s \in Request \ {r} : req'[s] = req[s],
           req'[r].pc = "limited" => Kept(req'[r].denial, log', zset'),
           \A k \in Key : \/ log'[k] = log[k] /\ zset'[k] \subseteq zset[k]
                          \/ Len(log'[k]) = Len(log[k]) + 1
    PROVE  Promised'
<1> SUFFICES ASSUME NEW s \in Request, req'[s].pc = "limited"
             PROVE  Kept(req'[s].denial, log', zset')
  BY DEF Promised
<1>1. CASE s = r
  BY <1>1
<1>2. CASE s # r
  <2>1. Kept(req[s].denial, log, zset) /\ req'[s].denial = req[s].denial
    BY <1>2 DEF Promised
  <2> QED BY <2>1, PromiseKept
<1> QED BY <1>1, <1>2

(* Every step keeps the promises. *)
LEMMA PromisesStep ==
    ASSUME IInv, Promised, [Next]_vars
    PROVE  Promised'
<1> DEFINE Shrinks == \A k \in Key : \/ log'[k] = log[k] /\ zset'[k] \subseteq zset[k]
                                     \/ Len(log'[k]) = Len(log[k]) + 1
<1>1. Types /\ req \in [Request -> ReqType]
  BY DEF IInv, Types
<1>2. CASE UNCHANGED <<log, zset, req>>
  BY <1>1, <1>2, PromiseKept DEF Promised
<1>3. ASSUME NEW r \in Request, UNCHANGED <<log, zset>>,
             \A s \in Request \ {r} : req'[s] = req[s], req'[r].pc # "limited"
      PROVE  Promised'
  <2>1. Shrinks
    BY <1>3
  <2> QED BY <1>1, <1>3, <2>1, OthersKeepPromises
<1>4. ASSUME NEW r \in Request, Admit(r) \/ Deny(r) \/ RedisFails(r)
      PROVE  Promised'
  <2> DEFINE k == Head(req[r].rules)
             c == req[r].reading
  <2>1. k \in Key /\ c \in Nat
    BY <1>4, ScriptStarts DEF Admit, Deny, RedisFails
  <2>2. \/ Admitted(k, c) \/ Denied(k, c)
        \/ UNCHANGED <<log, zset>>
    BY <1>4 DEF Admit, Deny, RedisFails
  <2>3. \A s \in Request \ {r} : req'[s] = req[s]
    BY <1>1, <1>4 DEF Admit, Deny, RedisFails, Unprotected
  <2>4. req'[r].pc = "limited" => Kept(req'[r].denial, log', zset')
    <3>1. CASE Deny(r)
      BY <1>1, <3>1, DenialPromises
    <3>2. CASE Admit(r)
      BY <1>1, <3>2 DEF Admit, ReqType
    <3>3. CASE RedisFails(r)
      BY <1>1, <3>3 DEF RedisFails, Unprotected, ReqType, Fresh
    <3> QED BY <1>4, <3>1, <3>2, <3>3
  <2> HIDE DEF k, c
  <2>5. Shrinks
    BY <1>1, <2>1, <2>2, ScriptAddsOrPurges
  <2> QED BY <1>1, <2>3, <2>4, <2>5, OthersKeepPromises
<1>5. CASE Tick \/ UNCHANGED vars
  BY <1>2, <1>5 DEF Tick, vars
<1>6. ASSUME NEW r \in Request, NEW p \in Policy, NEW get \in BOOLEAN,
             NEW known \in SUBSET Keys(Rules[p]), Arrive(r, p, get, known)
      PROVE  Promised'
  <2>1. UNCHANGED <<log, zset>> /\ \A s \in Request \ {r} : req'[s] = req[s]
    BY <1>1, <1>6 DEF Arrive
  <2>2. req'[r].pc = "rule"
    BY <1>1, <1>6 DEF Arrive, Fresh
  <2> QED BY <1>3, <2>1, <2>2
<1>7. ASSUME NEW r \in Request, Handle(r) \/ PassOver(r) \/ Ask(r)
      PROVE  Promised'
  <2>1. UNCHANGED <<log, zset>> /\ \A s \in Request \ {r} : req'[s] = req[s]
    BY <1>1, <1>7 DEF Handle, PassOver, Ask
  <2>2. req'[r].pc \in {"passed", "rule", "script"}
    BY <1>1, <1>7 DEF Handle, PassOver, Ask, ReqType
  <2> QED BY <1>3, <2>1, <2>2
<1> QED BY <1>4, <1>5, <1>6, <1>7 DEF Next

(* Whatever the limits, windows and the age of clock readings: at the time a 429
   has named, by the clock that denied the request, its key has room, unless
   somebody was admitted meanwhile (RateLimit's RetryAfterSuffices). *)
THEOREM RetryAfterHolds == Spec => []RetryAfterSuffices
<1>1. Init => Promised
  BY DEF Init, Promised, Fresh
<1>2. IInv /\ Promised /\ [Next]_vars => Promised'
  BY PromisesStep
<1>3. IInv /\ Promised => RetryAfterSuffices
  <2> SUFFICES ASSUME IInv, Promised, NEW r \in Request, req[r].pc = "limited",
                      Len(log[req[r].denial.key]) = req[r].denial.seen
               PROVE  Cardinality(LeftAt(req[r].denial.key, req[r].denial.until))
                        < Limit[req[r].denial.key]
    BY DEF RetryAfterSuffices
  <2> DEFINE k == req[r].denial.key
             c == req[r].denial.until
  <2>1. k \in Key /\ Cardinality(InWindow(log, zset, k, c)) < Limit[k]
    BY DEF Promised, Kept
  <2>2. LeftAt(k, c) \subseteq InWindow(log, zset, k, c)
    BY DEF LeftAt, Visible, InWindow
  <2>3. IsFiniteSet(InWindow(log, zset, k, c))
    BY <2>1, WindowsAreFinite, FS_Subset DEF InWindow, IInv
  <2>4. /\ Cardinality(LeftAt(k, c)) <= Cardinality(InWindow(log, zset, k, c))
        /\ Cardinality(LeftAt(k, c)) \in Nat /\ Cardinality(InWindow(log, zset, k, c)) \in Nat
    BY <2>2, <2>3, FS_Subset, FS_CardinalityType
  <2>5. Limit[k] \in Nat
    BY <2>1, RateLimitAssumption
  <2> QED BY <2>1, <2>4, <2>5
<1> QED BY <1>1, <1>2, <1>3, Invariance, PTL DEF Spec
=============================================================================
