------------------------- MODULE RateLimiterProofs -------------------------
(***************************************************************************)
(* Theorems about the token bucket for any number of requests, any rate,   *)
(* any bucket and any clock.                                               *)
(***************************************************************************)
EXTENDS RateLimiter, FiniteSetTheorems, TLAPS

(* Whatever the entry in the map is, what it still has and what it has     *)
(* given away since any moment a are together bounded by a full bucket and *)
(* what has come in since a.  When cleanup drops the entry, that credit is *)
(* gone: the bucket would be full by now (LimiterAssumption), so a new one *)
(* can start full.                                                         *)
Since(a) == { r \in Requests : pc[r] = "granted" /\ a <= at[r] /\ r \notin detached }
Spent(a) == Cost * Cardinality(Since(a))

Credit ==
  IF entry = None
  THEN \A a \in 0 .. now : Spent(a) <= (now - a) * Rate
  ELSE /\ \A a \in 0 .. lastSeen[entry] :
            Spent(a) + tokens[entry] <= Burst + (lastSeen[entry] - a) * Rate
       /\ \A a \in 0 .. now : a > lastSeen[entry] => Since(a) = {}

Inv == /\ TypeOK
       /\ \A r \in Requests : pc[r] = "found" => held[r] # None
       /\ Credit

----------------------------------------------------------------------------
LEMMA Times == \A x, y \in Nat : x * y \in Nat
  OBVIOUS
LEMMA TimesPlus == \A x, y, z \in Nat : (x + y) * z = x * z + y * z
  OBVIOUS
LEMMA TimesMono == \A x, y, z \in Nat : x <= y => x * z <= y * z
  OBVIOUS
LEMMA TimesSucc == \A x, y \in Nat : x * (y + 1) = x * y + x
  OBVIOUS

LEMMA Constants ==
  /\ Cost \in Nat /\ Burst \in Nat /\ Rate \in Nat /\ Stale \in Nat /\ MaxTime \in Nat
  /\ Cost <= Burst /\ Stale * Rate >= Burst
  BY LimiterAssumption

LEMMA GrantsFinite ==
  ASSUME NEW S \in SUBSET Requests
  PROVE  IsFiniteSet(S) /\ Cardinality(S) \in Nat /\ Cost * Cardinality(S) \in Nat
<1>1. IsFiniteSet(S)
  BY FS_Subset, LimiterAssumption
<1>2. Cardinality(S) \in Nat
  BY <1>1, FS_CardinalityType
<1>. QED BY <1>1, <1>2, Constants, Times

LEMMA SinceFinite ==
  \A a : IsFiniteSet(Since(a)) /\ Cardinality(Since(a)) \in Nat /\ Spent(a) \in Nat
<1>. SUFFICES ASSUME NEW a
              PROVE IsFiniteSet(Since(a)) /\ Cardinality(Since(a)) \in Nat /\ Spent(a) \in Nat
  OBVIOUS
<1>1. Since(a) \in SUBSET Requests
  BY DEF Since
<1>. QED BY <1>1, GrantsFinite DEF Spent

LEMMA NothingSpent == ASSUME NEW a, Since(a) = {} PROVE Spent(a) = 0
<1>1. Cardinality(Since(a)) = 0
  BY FS_EmptySet
<1>. QED BY <1>1, Constants DEF Spent

LEMMA RefilledBounds ==
  ASSUME TypeOK, NEW e \in Requests
  PROVE  /\ Refilled(e) \in 0 .. Burst
         /\ Refilled(e) <= tokens[e] + (now - lastSeen[e]) * Rate
<1>1. now - lastSeen[e] \in Nat /\ tokens[e] \in 0 .. Burst
  BY Constants DEF TypeOK
<1>2. (now - lastSeen[e]) * Rate \in Nat
  BY <1>1, Times, Constants
<1>. QED BY <1>1, <1>2, Constants DEF Refilled, Least

LEMMA InitInv == Init => Inv
<1>. SUFFICES ASSUME Init PROVE Inv
  OBVIOUS
<1>. USE Constants
<1>1. TypeOK
  BY DEF Init, TypeOK
<1>2. Since(0) = {}
  BY DEF Init, Since
<1>3. Spent(0) = 0
  BY <1>2, FS_EmptySet DEF Spent
<1>4. Credit
  BY <1>3 DEF Init, Credit
<1>. QED BY <1>1, <1>4 DEF Init, Inv

LEMMA FindInv == ASSUME Inv, NEW r \in Requests, Find(r) PROVE Inv'
<1>. USE Constants, LimiterAssumption DEF Inv
<1>1. /\ pc[r] = "idle" /\ pc' = [pc EXCEPT ![r] = "found"]
      /\ UNCHANGED << now, at, detached >>
      /\ entry' \in Requests /\ held' = [held EXCEPT ![r] = entry']
  BY DEF Find, TypeOK
<1>2. TypeOK'
  BY <1>1 DEF TypeOK, Find
<1>3. \A a : Since(a)' = Since(a) /\ Spent(a)' = Spent(a)
  BY <1>1 DEF Since, Spent, TypeOK
<1>4. CASE entry # None
  BY <1>1, <1>3, <1>4 DEF Find, Credit, TypeOK
<1>5. CASE entry = None
  <2>1. entry' = r /\ tokens'[r] = Burst /\ lastSeen'[r] = now
    BY <1>5 DEF Find, TypeOK
  <2>2. ASSUME NEW a \in 0 .. now PROVE Spent(a) + Burst <= Burst + (now - a) * Rate
    <3>1. now - a \in Nat /\ now \in Nat
      BY DEF TypeOK
    <3>2. (now - a) * Rate \in Nat
      BY <3>1, Times
    <3>. QED BY <1>5, <3>2, SinceFinite DEF Credit
  <2>3. Credit'
    BY <1>1, <1>3, <2>1, <2>2 DEF Credit, TypeOK
  <2>. QED BY <1>1, <1>2, <2>3 DEF TypeOK
<1>. QED BY <1>4, <1>5, <1>1, <1>2 DEF TypeOK

(* A grant takes out of the bucket what it adds to the spending. *)
LEMMA TakeInv == ASSUME Inv, NEW r \in Requests, Take(r) PROVE Inv'
<1>. USE Constants, LimiterAssumption DEF Inv
<1>. DEFINE e == held[r]
<1>1. /\ e \in Requests /\ pc[r] = "found" /\ r \notin Since(0)
      /\ lastSeen' = [lastSeen EXCEPT ![e] = now] /\ at' = [at EXCEPT ![r] = now]
      /\ UNCHANGED << now, entry, held >> /\ now \in Nat
  BY DEF Take, TypeOK, Since
<1>2. Refilled(e) \in 0 .. Burst
  BY <1>1, RefilledBounds
<1>3. \/ tokens' = [tokens EXCEPT ![e] = Refilled(e)] /\ pc' = [pc EXCEPT ![r] = "refused"]
      \/ /\ Refilled(e) >= Cost /\ pc' = [pc EXCEPT ![r] = "granted"]
         /\ tokens' = [tokens EXCEPT ![e] = Refilled(e) - Cost]
  BY DEF Take
<1>4. TypeOK'
  <2>1. tokens' \in [Requests -> 0 .. Burst]
    BY <1>1, <1>2, <1>3 DEF TypeOK
  <2>2. lastSeen' \in [Requests -> 0 .. now] /\ at' \in [Requests -> 0 .. now]
    BY <1>1 DEF TypeOK
  <2>3. detached' \subseteq Requests
    BY DEF Take, TypeOK
  <2>. QED BY <1>1, <1>3, <2>1, <2>2, <2>3 DEF TypeOK
<1>5. CASE e # entry
  <2>1. detached' = detached \cup {r}
    BY <1>5 DEF Take
  <2>2. ASSUME NEW a PROVE Since(a)' = Since(a) /\ Spent(a)' = Spent(a)
    <3>1. \A q \in Requests : q # r => pc'[q] = pc[q] /\ at'[q] = at[q]
      BY <1>1, <1>3 DEF TypeOK
    <3>2. Since(a)' = Since(a)
      BY <1>1, <2>1, <3>1 DEF Since
    <3>. QED BY <3>2 DEF Spent
  <2>3. entry # None =>
          tokens'[entry] = tokens[entry] /\ lastSeen'[entry] = lastSeen[entry]
    BY <1>1, <1>3, <1>5 DEF TypeOK
  <2>4. Credit'
    BY <1>1, <2>2, <2>3 DEF Credit
  <2>. QED BY <1>1, <1>3, <1>4, <2>4 DEF TypeOK
<1>6. CASE e = entry
  <2>1. detached' = detached /\ entry # None /\ lastSeen'[e] = now
    BY <1>1, <1>6 DEF Take, TypeOK
  <2>2. ASSUME NEW a \in 0 .. now
        PROVE  Spent(a)' + tokens'[e] <= Spent(a) + Refilled(e)
    <3>1. CASE pc'[r] = "refused"
      <4>1. Since(a)' = Since(a) /\ tokens'[e] = Refilled(e)
        BY <1>1, <1>3, <2>1, <3>1 DEF Since, TypeOK
      <4>. QED BY <1>2, <4>1, SinceFinite DEF Spent
    <3>2. CASE pc'[r] # "refused"
      <4>1. tokens'[e] = Refilled(e) - Cost /\ pc'[r] = "granted"
        BY <1>1, <1>3, <3>2 DEF TypeOK
      <4>2. Since(a)' = Since(a) \cup ({r} \ detached) /\ r \notin Since(a)
        BY <1>1, <1>3, <2>1, <4>1 DEF Since, TypeOK
      <4>3. CASE r \notin detached
        <5>0. Since(a)' = Since(a) \cup {r}
          BY <4>2, <4>3
        <5>1. Cardinality(Since(a)') = Cardinality(Since(a)) + 1
          BY <4>2, <5>0, SinceFinite, FS_AddElement
        <5>2. Spent(a)' = Spent(a) + Cost
          BY <5>1, SinceFinite, TimesSucc DEF Spent
        <5>. QED BY <1>2, <4>1, <5>2, SinceFinite
      <4>4. CASE r \in detached
        <5>1. Spent(a)' = Spent(a)
          BY <4>2, <4>4 DEF Spent
        <5>. QED BY <1>2, <4>1, <5>1, SinceFinite
      <4>. QED BY <4>3, <4>4
    <3>. QED BY <3>1, <3>2
  <2>3. ASSUME NEW a \in 0 .. now
        PROVE  Spent(a) + Refilled(e) <= Burst + (now - a) * Rate
    <3>1. lastSeen[e] \in 0 .. now /\ tokens[e] \in Nat
      BY <1>1 DEF TypeOK
    <3>2. CASE a <= lastSeen[e]
      <4>1. Spent(a) + tokens[e] <= Burst + (lastSeen[e] - a) * Rate
        BY <1>6, <2>1, <3>1, <3>2 DEF Credit
      <4>2. (now - a) * Rate = (lastSeen[e] - a) * Rate + (now - lastSeen[e]) * Rate
        <5>1. lastSeen[e] - a \in Nat /\ now - lastSeen[e] \in Nat
          BY <1>1, <3>1, <3>2
        <5>2. now - a = (lastSeen[e] - a) + (now - lastSeen[e])
          BY <1>1, <3>1
        <5>. QED BY <5>1, <5>2, TimesPlus
      <4>3. /\ (now - a) * Rate \in Nat /\ (lastSeen[e] - a) * Rate \in Nat
            /\ (now - lastSeen[e]) * Rate \in Nat
        BY <1>1, <3>1, <3>2, Times
      <4>. HIDE DEF e
      <4>. QED BY <1>1, <1>2, <3>1, <4>1, <4>2, <4>3, RefilledBounds, SinceFinite
    <3>3. CASE a > lastSeen[e]
      <4>1. Spent(a) = 0
        BY <1>6, <2>1, <3>3, NothingSpent DEF Credit
      <4>2. (now - a) * Rate \in Nat
        BY <1>1, Times
      <4>. QED BY <1>2, <4>1, <4>2
    <3>. QED BY <1>1, <3>1, <3>2, <3>3
  <2>4. \A a \in 0 .. now : Spent(a)' + tokens'[e] <= Burst + (now - a) * Rate
    <3>. SUFFICES ASSUME NEW a \in 0 .. now
                  PROVE  Spent(a)' + tokens'[e] <= Burst + (now - a) * Rate
      OBVIOUS
    <3>1. Spent(a)' \in Nat /\ tokens'[e] \in Nat /\ Spent(a) \in Nat /\ (now - a) * Rate \in Nat
      <4>1. Since(a)' \in SUBSET Requests
        BY DEF Since
      <4>. QED BY <1>1, <1>4, <4>1, GrantsFinite, SinceFinite, Times DEF TypeOK, Spent
    <3>. QED BY <1>2, <2>2, <2>3, <3>1
  <2>5. Credit'
    BY <1>1, <1>6, <2>1, <2>4 DEF Credit
  <2>. QED BY <1>1, <1>3, <1>4, <2>5 DEF TypeOK
<1>. QED BY <1>5, <1>6

(* An entry that cleanup drops would have a full bucket by now. *)
LEMMA CleanupInv == ASSUME Inv, Cleanup PROVE Inv'
<1>. USE Constants, LimiterAssumption DEF Inv
<1>1. /\ entry \in Requests /\ now - lastSeen[entry] > Stale /\ entry' = None
      /\ UNCHANGED << now, tokens, lastSeen, pc, held, at, detached >>
      /\ lastSeen[entry] \in 0 .. now /\ tokens[entry] \in Nat /\ now \in Nat
  BY DEF Cleanup, TypeOK
<1>2. TypeOK'
  BY <1>1 DEF TypeOK
<1>3. \A a : Spent(a)' = Spent(a)
  BY <1>1 DEF Spent, Since
<1>4. ASSUME NEW a \in 0 .. now PROVE Spent(a) <= (now - a) * Rate
  <2>1. CASE a <= lastSeen[entry]
    <3>1. Spent(a) + tokens[entry] <= Burst + (lastSeen[entry] - a) * Rate
      BY <1>1, <2>1 DEF Credit
    <3>2. lastSeen[entry] - a \in Nat /\ now - lastSeen[entry] \in Nat
      BY <1>1, <2>1
    <3>3. (now - a) * Rate = (lastSeen[entry] - a) * Rate + (now - lastSeen[entry]) * Rate
      <4>1. now - a = (lastSeen[entry] - a) + (now - lastSeen[entry])
        BY <1>1
      <4>. QED BY <3>2, <4>1, TimesPlus
    <3>4. Burst <= (now - lastSeen[entry]) * Rate
      <4>1. Stale * Rate <= (now - lastSeen[entry]) * Rate
        BY <1>1, <3>2, TimesMono
      <4>2. Stale * Rate \in Nat /\ (now - lastSeen[entry]) * Rate \in Nat
        BY <3>2, Times
      <4>. QED BY <4>1, <4>2
    <3>5. /\ (lastSeen[entry] - a) * Rate \in Nat /\ (now - lastSeen[entry]) * Rate \in Nat
      BY <3>2, Times
    <3>. QED BY <1>1, <3>1, <3>3, <3>4, <3>5, SinceFinite
  <2>2. CASE a > lastSeen[entry]
    <3>1. Spent(a) = 0
      BY <1>1, <2>2, NothingSpent DEF Credit
    <3>2. now - a \in Nat
      BY <1>1
    <3>3. (now - a) * Rate \in Nat
      BY <3>2, Times
    <3>. QED BY <3>1, <3>3
  <2>. QED BY <1>1, <2>1, <2>2
<1>5. Credit'
  BY <1>1, <1>3, <1>4 DEF Credit
<1>. QED BY <1>1, <1>2, <1>5

LEMMA TickInv == ASSUME Inv, Tick PROVE Inv'
<1>. USE Constants, LimiterAssumption DEF Inv
<1>1. /\ now' = now + 1 /\ now < MaxTime /\ now \in Nat
      /\ UNCHANGED << entry, tokens, lastSeen, pc, held, at, detached >>
  BY DEF Tick, TypeOK
<1>2. TypeOK'
  BY <1>1 DEF TypeOK
<1>3. \A a : Since(a)' = Since(a) /\ Spent(a)' = Spent(a)
  BY <1>1 DEF Spent, Since
<1>4. Since(now + 1) = {} /\ Spent(now + 1) = 0
  <2>1. Since(now + 1) = {}
    BY <1>1 DEF Since, TypeOK
  <2>. QED BY <2>1, FS_EmptySet DEF Spent
<1>5. CASE entry = None
  <2>1. ASSUME NEW a \in 0 .. now PROVE Spent(a) <= (now + 1 - a) * Rate
    <3>1. (now - a) * Rate <= (now + 1 - a) * Rate
      BY <1>1, TimesMono
    <3>2. (now - a) * Rate \in Nat /\ (now + 1 - a) * Rate \in Nat
      BY <1>1, Times
    <3>. QED BY <1>5, <3>1, <3>2, SinceFinite DEF Credit
  <2>2. Credit'
    BY <1>1, <1>3, <1>4, <1>5, <2>1 DEF Credit
  <2>. QED BY <1>1, <1>2, <2>2
<1>6. CASE entry # None
  <2>1. Credit'
    BY <1>1, <1>3, <1>4, <1>6 DEF Credit
  <2>. QED BY <1>1, <1>2, <2>1
<1>. QED BY <1>5, <1>6

LEMMA NextInv == ASSUME Inv, [Next]_vars PROVE Inv'
<1>1. CASE UNCHANGED vars
  BY <1>1 DEF Inv, TypeOK, Credit, Spent, Since, vars
<1>. QED BY <1>1, FindInv, TakeInv, CleanupInv, TickInv DEF Next

----------------------------------------------------------------------------
(* The bucket is never overdrawn and never overflows, ... *)
THEOREM LimiterTypeCorrect == Spec => []TypeOK
<1>1. Inv => TypeOK
  BY DEF Inv
<1>2. Inv /\ [Next]_vars => Inv'
  BY NextInv
<1>. QED BY InitInv, <1>1, <1>2, PTL DEF Spec

(* ... and in every span of time at most a full bucket and the refill of   *)
(* the span are given to the requests of an IP, however often cleanup and  *)
(* Allow replace the entry between its two locks: what a span that ends    *)
(* now has got is bounded by Credit, and later grants belong to later      *)
(* spans.                                                                  *)
THEOREM SpanBoundHolds == Spec => []SpanBound
<1>. USE Constants, LimiterAssumption
<1>. DEFINE Bound == \A a \in 0 .. now : Spent(a) <= Burst + (now - a) * Rate
<1>1. Inv => Bound
  <2>. SUFFICES ASSUME Inv, NEW a \in 0 .. now
                PROVE  Spent(a) <= Burst + (now - a) * Rate
    OBVIOUS
  <2>1. (now - a) * Rate \in Nat /\ now \in Nat /\ Spent(a) \in Nat
    <3>1. now \in Nat /\ now - a \in Nat
      BY DEF Inv, TypeOK
    <3>. QED BY <3>1, Times, SinceFinite
  <2>2. CASE entry = None
    BY <2>1, <2>2 DEF Inv, Credit
  <2>3. CASE entry # None
    <3>1. lastSeen[entry] \in 0 .. now /\ tokens[entry] \in Nat
      BY <2>3 DEF Inv, TypeOK
    <3>2. CASE a <= lastSeen[entry]
      <4>1. Spent(a) + tokens[entry] <= Burst + (lastSeen[entry] - a) * Rate
        BY <2>3, <3>1, <3>2 DEF Inv, Credit
      <4>2. (lastSeen[entry] - a) * Rate <= (now - a) * Rate
        BY <2>1, <3>1, <3>2, TimesMono
      <4>3. (lastSeen[entry] - a) * Rate \in Nat
        BY <3>1, <3>2, Times
      <4>. QED BY <2>1, <3>1, <4>1, <4>2, <4>3
    <3>3. CASE a > lastSeen[entry]
      BY <2>1, <2>3, <3>3, NothingSpent DEF Inv, Credit
    <3>. QED BY <2>1, <3>1, <3>2, <3>3
  <2>. QED BY <2>2, <2>3
<1>. HIDE DEF Bound
<1>2. Inv' => Bound'
  BY <1>1, PTL
<1>3. Init => Inv /\ SpanBound
  <2>. SUFFICES ASSUME Init, Inv PROVE SpanBound
    BY InitInv
  <2>1. \A a, b : Granted(a, b) \ detached = {}
    BY DEF Init, Granted
  <2>2. now = 0
    BY DEF Init
  <2>. QED BY <2>1, <2>2, FS_EmptySet DEF SpanBound
<1>4. Inv /\ SpanBound /\ [Next]_vars => (Inv /\ SpanBound)'
  <2>. SUFFICES ASSUME Inv, SpanBound, [Next]_vars, Inv',
                       NEW a \in 0 .. now', NEW b \in 0 .. now', a <= b
                PROVE  Cost * Cardinality((Granted(a, b) \ detached)') <= Burst + (b - a) * Rate
    BY NextInv DEF SpanBound
  <2>1. now \in Nat /\ now' \in Nat
    BY DEF Inv, TypeOK
  <2>2. CASE b = now'
    <3>1. Granted(a, b)' \ detached' = Since(a)'
      BY <2>2 DEF Granted, Since, Inv, TypeOK
    <3>2. Spent(a)' <= Burst + (now' - a) * Rate
      BY <1>2 DEF Bound
    <3>. QED BY <2>2, <3>1, <3>2 DEF Spent
  <2>3. CASE b # now'
    <3>1. b \in 0 .. now /\ a \in 0 .. now
      BY <2>1, <2>3 DEF Next, Tick, Cleanup, Find, Take, vars
    <3>2. (Granted(a, b) \ detached)' \subseteq Granted(a, b) \ detached
      <4>1. UNCHANGED << pc, at, detached >> =>
              (Granted(a, b) \ detached)' = Granted(a, b) \ detached
        BY DEF Granted
      <4>2. ASSUME NEW r \in Requests, Find(r)
            PROVE  (Granted(a, b) \ detached)' \subseteq Granted(a, b) \ detached
        BY <4>2 DEF Find, Granted, Inv, TypeOK
      <4>3. ASSUME NEW r \in Requests, Take(r)
            PROVE  (Granted(a, b) \ detached)' \subseteq Granted(a, b) \ detached
        <5>1. at' = [at EXCEPT ![r] = now] /\ now' = now /\ detached \subseteq detached'
              /\ \A q \in Requests \ {r} : pc'[q] = pc[q]
          BY <4>3 DEF Take, Inv, TypeOK
        <5>2. r \notin Granted(a, b)'
          BY <2>1, <2>3, <3>1, <5>1 DEF Granted, Inv, TypeOK
        <5>. QED BY <5>1, <5>2 DEF Granted, Inv, TypeOK
      <4>. QED BY <4>1, <4>2, <4>3 DEF Next, Tick, Cleanup, vars
    <3>3. /\ IsFiniteSet(Granted(a, b) \ detached)
          /\ Cardinality((Granted(a, b) \ detached)') <= Cardinality(Granted(a, b) \ detached)
          /\ Cardinality((Granted(a, b) \ detached)') \in Nat
          /\ Cardinality(Granted(a, b) \ detached) \in Nat
      <4>1. Granted(a, b) \ detached \in SUBSET Requests
        BY DEF Granted
      <4>2. IsFiniteSet(Granted(a, b) \ detached)
        BY <4>1, FS_Subset
      <4>. QED BY <3>2, <4>2, FS_Subset, FS_CardinalityType
    <3>4. Cost * Cardinality((Granted(a, b) \ detached)')
            <= Cost * Cardinality(Granted(a, b) \ detached)
      BY <3>3, TimesMono
    <3>5. Cost * Cardinality(Granted(a, b) \ detached) <= Burst + (b - a) * Rate
      BY <3>1 DEF SpanBound
    <3>6. /\ Cost * Cardinality((Granted(a, b) \ detached)') \in Nat
          /\ Cost * Cardinality(Granted(a, b) \ detached) \in Nat
          /\ (b - a) * Rate \in Nat
      BY <2>1, <3>3, Times
    <3>. QED BY <3>4, <3>5, <3>6
  <2>. QED BY <2>2, <2>3
<1>. QED BY <1>3, <1>4, PTL DEF Spec

----------------------------------------------------------------------------
(***************************************************************************)
(* The refinement.  What the abstract bucket holds is what the entry would *)
(* be refilled to now; an entry that is not there is a full one.           *)
(***************************************************************************)
Level == IF entry = None THEN Burst ELSE Refilled(entry)
Verdict == [r \in Requests |-> IF pc[r] \in {"granted", "refused"} THEN pc[r] ELSE "none"]

LEMMA LeastFull == \A b, t, x \in Nat : b <= x => Least(b, t + x) = b
  BY DEF Least

LEMMA FindIsSilent ==
  ASSUME Inv, NEW r \in Requests, Find(r)
  PROVE  UNCHANGED << Level, Verdict, detached >>
<1>1. /\ pc[r] = "idle" /\ pc' = [pc EXCEPT ![r] = "found"]
      /\ UNCHANGED << now, detached >>
  BY DEF Find
<1>2. Verdict' = Verdict
  BY <1>1 DEF Verdict, Inv, TypeOK
<1>3. CASE entry # None
  BY <1>1, <1>2, <1>3 DEF Find, Level, Refilled
<1>4. CASE entry = None
  <2>1. /\ entry' = r /\ entry' # None /\ tokens'[r] = Burst /\ lastSeen'[r] = now'
    BY <1>1, <1>4, LimiterAssumption DEF Find, Inv, TypeOK
  <2>2. TypeOK'
    BY FindInv DEF Inv
  <2>3. (now' - lastSeen'[r]) * Rate = 0
    <3>1. now' \in Nat
      BY <2>2, Constants DEF TypeOK
    <3>2. now' - lastSeen'[r] = 0
      BY <2>1, <3>1
    <3>. QED BY <3>2, Constants
  <2>4. Refilled(r)' = Burst
    BY <2>1, <2>3, Constants DEF Refilled, Least
  <2>5. Level' = Refilled(r)'
    BY <2>1 DEF Level
  <2>. QED BY <1>1, <1>2, <1>4, <2>4, <2>5 DEF Level
<1>. QED BY <1>3, <1>4

LEMMA CleanupIsSilent ==
  ASSUME Inv, Cleanup PROVE UNCHANGED << Level, Verdict, detached >>
<1>1. /\ entry \in Requests /\ now - lastSeen[entry] > Stale /\ entry' = None
      /\ UNCHANGED << pc, detached >>
      /\ lastSeen[entry] \in 0 .. now /\ tokens[entry] \in Nat /\ now \in Nat
  BY Constants DEF Cleanup, Inv, TypeOK
<1>2. now - lastSeen[entry] \in Nat
  BY <1>1
<1>3. Stale * Rate <= (now - lastSeen[entry]) * Rate
  BY <1>1, <1>2, TimesMono, Constants
<1>4. (now - lastSeen[entry]) * Rate \in Nat /\ Stale * Rate \in Nat
  BY <1>2, Times, Constants
<1>5. Refilled(entry) = Burst
  <2>1. Burst <= (now - lastSeen[entry]) * Rate
    BY <1>3, <1>4, Constants
  <2>. QED BY <1>1, <1>4, <2>1, LeastFull, Constants DEF Refilled
<1>. QED BY <1>1, <1>5, LimiterAssumption DEF Level, Verdict

LEMMA TickIsDrip ==
  ASSUME Inv, Tick
  PROVE  /\ Level' = IF Level + Rate < Burst THEN Level + Rate ELSE Burst
         /\ UNCHANGED << Verdict, detached >>
<1>1. now' = now + 1 /\ UNCHANGED << entry, tokens, lastSeen, pc, detached >>
  BY DEF Tick
<1>2. CASE entry = None
  BY <1>1, <1>2, Constants DEF Level, Verdict
<1>3. CASE entry # None
  <2>. DEFINE gap == now - lastSeen[entry]
  <2>1. gap \in Nat /\ tokens[entry] \in Nat /\ now' - lastSeen[entry] = gap + 1
    BY <1>1, <1>3, Constants DEF Inv, TypeOK
  <2>2. gap * Rate \in Nat /\ (gap + 1) * Rate = gap * Rate + Rate
    <3>1. (gap + 1) * Rate = gap * Rate + 1 * Rate
      BY <2>1, TimesPlus, Constants
    <3>. QED BY <2>1, <3>1, Times, Constants
  <2>3. Level = Least(Burst, tokens[entry] + gap * Rate)
    BY <1>3 DEF Level, Refilled
  <2>4. Level' = Least(Burst, tokens[entry] + (gap + 1) * Rate)
    BY <1>1, <1>3, <2>1 DEF Level, Refilled, Least
  <2>. HIDE DEF gap
  <2>5. Level' = IF Level + Rate < Burst THEN Level + Rate ELSE Burst
    BY <2>1, <2>2, <2>3, <2>4, Constants DEF Least
  <2>. QED BY <1>1, <2>5 DEF Verdict
<1>. QED BY <1>2, <1>3

LEMMA TakeIsJudgement ==
  ASSUME Inv, NEW r \in Requests, Take(r)
  PROVE  \/ Bucket!Grant(r) \/ Bucket!Refuse(r)
         \/ Bucket!Overtaken(r)
<1>. DEFINE e == held[r]
<1>1. /\ e \in Requests /\ pc[r] = "found"
      /\ lastSeen' = [lastSeen EXCEPT ![e] = now] /\ UNCHANGED << now, entry >>
  BY DEF Take, Inv, TypeOK
<1>2. \/ /\ Refilled(e) < Cost /\ pc' = [pc EXCEPT ![r] = "refused"]
         /\ tokens' = [tokens EXCEPT ![e] = Refilled(e)]
      \/ /\ Refilled(e) >= Cost /\ pc' = [pc EXCEPT ![r] = "granted"]
         /\ tokens' = [tokens EXCEPT ![e] = Refilled(e) - Cost]
  BY DEF Take
<1>3. Verdict[r] = "none" /\ Verdict' = [Verdict EXCEPT ![r] = pc'[r]]
  BY <1>1, <1>2 DEF Verdict, Inv, TypeOK
<1>4. TypeOK'
  BY TakeInv DEF Inv
<1>5. CASE e # entry
  <2>1. detached' = detached \cup {r}
    BY <1>5 DEF Take
  <2>2. Level' = Level
    <3>1. entry # None =>
            tokens'[entry] = tokens[entry] /\ lastSeen'[entry] = lastSeen[entry]
      BY <1>1, <1>2, <1>5 DEF Inv, TypeOK
    <3>. QED BY <1>1, <3>1 DEF Level, Refilled
  <2>3. pc'[r] \in {"granted", "refused"}
    BY <1>2 DEF Inv, TypeOK
  <2>. QED BY <1>3, <2>1, <2>2, <2>3 DEF Bucket!Overtaken, Bucket!Judge, Level, Verdict
<1>6. CASE e = entry
  <2>1. detached' = detached /\ entry # None /\ entry' = e
    BY <1>1, <1>6, LimiterAssumption DEF Take
  <2>2. lastSeen'[e] = now'
    BY <1>1 DEF Inv, TypeOK
  <2>3. Level = Refilled(e)
    BY <1>6, <2>1 DEF Level
  <2>4. Level' = tokens'[e]
    <3>1. (now' - lastSeen'[e]) * Rate = 0 /\ tokens'[e] \in 0 .. Burst
      BY <1>1, <1>4, <2>2, Constants DEF TypeOK
    <3>2. Level' = Least(Burst, tokens'[e] + (now' - lastSeen'[e]) * Rate)
      BY <1>6, <2>1 DEF Level, Refilled
    <3>. QED BY <3>1, <3>2, Constants DEF Least
  <2>5. CASE Refilled(e) < Cost /\ pc'[r] = "refused" /\ tokens'[e] = Refilled(e)
    <3>1. Level < Cost /\ Level' = Level
      BY <2>3, <2>4, <2>5
    <3>. QED BY <1>3, <2>1, <2>5, <3>1 DEF Bucket!Refuse, Bucket!Judge, Level, Verdict
  <2>6. CASE Refilled(e) >= Cost /\ pc'[r] = "granted" /\ tokens'[e] = Refilled(e) - Cost
    <3>1. Level >= Cost /\ Level' = Level - Cost
      BY <2>3, <2>4, <2>6
    <3>. QED BY <1>3, <2>1, <2>6, <3>1 DEF Bucket!Grant, Bucket!Judge, Level, Verdict
  <2>. QED BY <1>1, <1>2, <2>5, <2>6 DEF Inv, TypeOK
<1>. QED BY <1>5, <1>6

\* The limiter is one bucket per IP that is never thrown away: Allow and cleanup
\* replacing the entry change neither what a request gets nor what it is refused.
THEOREM BucketImplemented == Spec => BucketSpec
<1>1. Init => Bucket!Init
  BY DEF Init, Bucket!Init
<1>2. ASSUME Inv, [Next]_vars PROVE [Bucket!Next]_(Bucket!bucketVars)
  <2>1. CASE UNCHANGED vars
    BY <2>1 DEF vars, Bucket!bucketVars, Refilled
  <2>2. ASSUME NEW r \in Requests, Find(r) PROVE UNCHANGED Bucket!bucketVars
    BY <1>2, <2>2, FindIsSilent DEF Bucket!bucketVars, Level, Verdict
  <2>3. CASE Cleanup
    BY <1>2, <2>3, CleanupIsSilent DEF Bucket!bucketVars, Level, Verdict
  <2>4. CASE Tick
    BY <1>2, <2>4, TickIsDrip DEF Bucket!Next, Bucket!Drip, Level, Verdict
  <2>5. ASSUME NEW r \in Requests, Take(r) PROVE Bucket!Next
    BY <1>2, <2>5, TakeIsJudgement DEF Bucket!Next
  <2>. QED BY <1>2, <2>1, <2>2, <2>3, <2>4, <2>5 DEF Next
<1>3. Inv /\ [Next]_vars => Inv'
  BY NextInv
<1>. QED BY InitInv, <1>1, <1>2, <1>3, PTL DEF Spec, BucketSpec, Bucket!Spec
=============================================================================
