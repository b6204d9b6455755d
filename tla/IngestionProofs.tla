--------------------------- MODULE IngestionProofs ---------------------------
(***************************************************************************)
(* Proofs about Ingestion, for any groups, countries, keywords, budget,    *)
(* sweeps, processes and faults.                                           *)
(*                                                                         *)
(* A process has one sweep at a time (OneSweep), so what its processes are *)
(* doing can be counted.  A call that went out is recorded, or its record  *)
(* was lost to a fault, or its process is about to record it (Logged).  A  *)
(* sweep that found budget left found fewer records than the budget, and   *)
(* of the other processes none is both calling and recording: so calls     *)
(* that went out and calls about to go out stay within the budget, the     *)
(* faults and the other processes (Bounded).                               *)
(***************************************************************************)
EXTENDS Ingestion, TLAPS, FiniteSetTheorems, SequenceTheorems

(* The queue holds each pending group once.                                *)
Queued ==
    /\ cache \in [Groups -> Statuses]
    /\ pending \in Seq(Groups)
    /\ \A i, k \in DOMAIN pending : pending[i] = pending[k] => i = k
    /\ \A g \in Groups : cache[g] = "pending" <=> \E i \in DOMAIN pending : pending[i] = g

(* The variables' types, but for the queue.                                *)
Types ==
    /\ IndexTypeOK
    /\ aged \subseteq Groups
    /\ recorded \in [Countries -> Nat] /\ calls \in [Countries -> Nat]
    /\ sweeping \subseteq Processes
    /\ sweep \in [Sweeps -> Sweep]
    /\ ask \in [Asks -> Ask] /\ \A a \in Asks : ask[a].at # "idle" => ask[a].group \in Groups
    /\ faults \in 0 .. MaxFaults

WithGroup   == {"skip", "keyword", "call", "record", "store", "upsert", "recordFailure"}
WithKeyword == {"call", "record", "store", "upsert", "recordFailure"}

(* How far a sweep is.                                                     *)
Place(r) ==
    /\ r.at = "idle" => r.todo = <<>>
    /\ r.at \in WithGroup => r.todo # <<>>
    /\ r.at = "keyword" => r.keyword \in 1 .. KEYWORDS + 1
    /\ r.at \in WithKeyword => r.keyword \in 1 .. KEYWORDS

OneSweep ==
    /\ \A s, t \in Sweeps : s # t /\ ProcessOf[s] = ProcessOf[t] =>
            sweep[s].at = "idle" \/ sweep[t].at = "idle"
    /\ \A s \in Sweeps : sweep[s].at # "idle" => ProcessOf[s] \in sweeping
    /\ \A p \in sweeping : \E s \in Sweeps : ProcessOf[s] = p /\ sweep[s].at # "idle"

(* The processes with a sweep at one of these points, in country c.        *)
At(points, c) ==
    {p \in Processes : \E s \in Sweeps :
        ProcessOf[s] = p /\ sweep[s].at \in points /\ CountryOf[Group(s)] = c}
Calling(c)   == At({"call"}, c)
Recording(c) == At({"record", "recordFailure"}, c)

Logged  == \A c \in Countries : calls[c] <= recorded[c] + faults + Cardinality(Recording(c))
Bounded == \A c \in Countries :
    calls[c] + Cardinality(Calling(c)) <= MAX_CALLS + faults + Cardinality(Processes) - 1

IInv ==
    /\ Queued /\ Types
    /\ \A s \in Sweeps : Place(sweep[s])
    /\ OneSweep /\ Logged /\ Bounded

-----------------------------------------------------------------------------
(* The queue.                                                              *)
LEMMA WithoutHoldsOthers ==
    ASSUME Queued, NEW g \in Groups
    PROVE  LET others == Without(g)
           IN  /\ others \in Seq(Groups)
               /\ \A i, k \in DOMAIN others : others[i] = others[k] => i = k
               /\ \A h \in Groups : (cache[h] = "pending" /\ h # g) <=> \E i \in DOMAIN others : others[i] = h
<1> DEFINE n == Len(pending)
<1>1. pending \in Seq(Groups) /\ n \in Nat /\ DOMAIN pending = 1 .. n /\ Len(pending) = n
  BY LenProperties DEF Queued
<1> HIDE DEF n
<1>2. \A i \in 1 .. n : pending[i] \in Groups
  BY <1>1, ElementOfSeq
<1>3. CASE cache[g] # "pending"
  <2>1. Without(g) = pending
    BY <1>3 DEF Without
  <2> QED
    BY <1>1, <1>3, <2>1 DEF Queued
<1>4. CASE cache[g] = "pending"
  <2> DEFINE k == CHOOSE i \in DOMAIN pending : pending[i] = g
             before == SubSeq(pending, 1, k - 1)
             after == SubSeq(pending, k + 1, n)
             others == before \o after
  <2>1. k \in 1 .. n /\ pending[k] = g
    BY <1>1, <1>4 DEF Queued
  <2>2. Without(g) = others
    BY <1>1, <1>4 DEF Without
  <2> HIDE DEF k, before, after
  <2>3. /\ before \in Seq(Groups) /\ Len(before) = k - 1
        /\ \A i \in 1 .. k - 1 : before[i] = pending[i]
    <3>1. /\ before \in Seq(Groups)
          /\ Len(before) = IF 1 <= k - 1 THEN k - 1 - 1 + 1 ELSE 0
          /\ \A i \in 1 .. k - 1 - 1 + 1 : before[i] = pending[1 + i - 1]
      BY <1>1, <1>2, <2>1, SubSeqProperties DEF before
    <3>2. k \in Int /\ k >= 1 /\ k - 1 - 1 + 1 = k - 1 /\ \A i \in Int : 1 + i - 1 = i
      BY <1>1, <2>1
    <3>3. Len(before) = k - 1
      BY <3>1, <3>2
    <3> QED
      BY <3>1, <3>2, <3>3
  <2>4. /\ after \in Seq(Groups) /\ Len(after) = n - k
        /\ \A i \in 1 .. n - k : after[i] = pending[k + i]
    <3>1. /\ after \in Seq(Groups)
          /\ Len(after) = IF k + 1 <= n THEN n - (k + 1) + 1 ELSE 0
          /\ \A i \in 1 .. n - (k + 1) + 1 : after[i] = pending[k + 1 + i - 1]
      BY <1>1, <1>2, <2>1, SubSeqProperties DEF after
    <3>2. /\ k \in Int /\ n \in Int /\ k <= n /\ n - (k + 1) + 1 = n - k
          /\ \A i \in Int : k + 1 + i - 1 = k + i
      BY <1>1, <2>1
    <3>3. Len(after) = n - k
      BY <3>1, <3>2
    <3>4. ASSUME NEW i \in 1 .. n - k
          PROVE  after[i] = pending[k + i]
      <4>1. i \in Int /\ i \in 1 .. n - (k + 1) + 1 /\ k + 1 + i - 1 = k + i
        BY <3>2
      <4>2. after[i] = pending[k + 1 + i - 1]
        BY <3>1, <4>1
      <4> QED
        BY <4>1, <4>2
    <3> QED
      BY <3>1, <3>3, <3>4
  <2>5. /\ others \in Seq(Groups) /\ Len(others) = n - 1
        /\ \A i \in 1 .. n - 1 : others[i] = IF i <= k - 1 THEN before[i] ELSE after[i - (k - 1)]
    <3>1. /\ others \in Seq(Groups) /\ Len(others) = Len(before) + Len(after)
          /\ \A i \in 1 .. Len(before) + Len(after) :
                others[i] = IF i <= Len(before) THEN before[i] ELSE after[i - Len(before)]
      BY <2>3, <2>4, ConcatProperties
    <3> QED
      BY <1>1, <2>1, <2>3, <2>4, <3>1
  <2> HIDE DEF others
  <2>6. \A i \in 1 .. n - 1 : others[i] = IF i < k THEN pending[i] ELSE pending[i + 1]
    <3> SUFFICES ASSUME NEW i \in 1 .. n - 1
                 PROVE  others[i] = IF i < k THEN pending[i] ELSE pending[i + 1]
      OBVIOUS
    <3>1. CASE i < k
      <4>1. i \in 1 .. k - 1
        BY <1>1, <2>1, <3>1
      <4> QED
        BY <2>3, <2>5, <3>1, <4>1
    <3>2. CASE ~(i < k)
      <4>1. i - (k - 1) \in 1 .. n - k /\ ~(i <= k - 1) /\ k + (i - (k - 1)) = i + 1
        BY <1>1, <2>1, <3>2
      <4> QED
        BY <2>4, <2>5, <3>2, <4>1
    <3> QED
      BY <3>1, <3>2
  <2>7. DOMAIN others = 1 .. n - 1
    BY <2>5, LenProperties
  <2>8. ASSUME NEW i \in DOMAIN others, NEW j \in DOMAIN others, others[i] = others[j]
        PROVE  i = j
    <3> DEFINE up(m) == IF m < k THEN m ELSE m + 1
    <3>1. up(i) \in DOMAIN pending /\ up(j) \in DOMAIN pending /\ pending[up(i)] = pending[up(j)]
      BY <1>1, <2>1, <2>6, <2>7, <2>8
    <3>2. up(i) = up(j)
      BY <3>1 DEF Queued
    <3> QED
      BY <1>1, <2>1, <2>7, <3>2
  <2>9. ASSUME NEW h \in Groups
        PROVE  (cache[h] = "pending" /\ h # g) <=> \E i \in DOMAIN others : others[i] = h
    <3>1. ASSUME cache[h] = "pending", h # g
          PROVE  \E i \in DOMAIN others : others[i] = h
      <4>1. PICK m \in 1 .. n : pending[m] = h
        BY <1>1, <3>1 DEF Queued
      <4>2. m # k
        BY <2>1, <3>1, <4>1
      <4>3. CASE m < k
        <5>1. m \in 1 .. n - 1 /\ others[m] = h
          BY <1>1, <2>1, <2>6, <4>1, <4>3
        <5> QED
          BY <2>7, <5>1
      <4>4. CASE ~(m < k)
        <5>1. m - 1 \in 1 .. n - 1 /\ ~(m - 1 < k) /\ (m - 1) + 1 = m
          BY <1>1, <2>1, <4>1, <4>2, <4>4
        <5>2. others[m - 1] = h
          BY <2>6, <4>1, <5>1
        <5> QED
          BY <2>7, <5>1, <5>2
      <4> QED
        BY <4>3, <4>4
    <3>2. ASSUME NEW i \in DOMAIN others, others[i] = h
          PROVE  cache[h] = "pending" /\ h # g
      <4> DEFINE m == IF i < k THEN i ELSE i + 1
      <4>1. m \in DOMAIN pending /\ m # k /\ pending[m] = h
        BY <1>1, <2>1, <2>6, <2>7, <3>2
      <4> QED
        BY <1>1, <2>1, <4>1 DEF Queued
    <3> QED
      BY <3>1, <3>2
  <2> QED
    BY <2>2, <2>5, <2>8, <2>9
<1> QED
  BY <1>3, <1>4

LEMMA SaveStatusKeeps ==
    ASSUME Queued, aged \subseteq Groups, NEW g \in Groups, NEW status \in Statuses, SaveStatus(g, status)
    PROVE  Queued' /\ aged' \subseteq Groups
<1>1. aged' \subseteq Groups
  BY DEF SaveStatus
<1>2. /\ cache' \in [Groups -> Statuses]
      /\ \A h \in Groups : cache'[h] = IF h = g THEN status ELSE cache[h]
  BY DEF Queued, SaveStatus
<1>3. CASE status # "pending"
  <2>1. pending' = Without(g)
    BY <1>3 DEF SaveStatus
  <2>2. /\ pending' \in Seq(Groups)
        /\ \A i, k \in DOMAIN pending' : pending'[i] = pending'[k] => i = k
        /\ \A h \in Groups : (cache[h] = "pending" /\ h # g) <=> \E i \in DOMAIN pending' : pending'[i] = h
    BY <2>1, WithoutHoldsOthers
  <2> QED
    BY <1>1, <1>2, <1>3, <2>2 DEF Queued
<1>4. CASE status = "pending" /\ cache[g] = "pending"
  BY <1>1, <1>2, <1>4 DEF SaveStatus, Queued
<1>5. CASE status = "pending" /\ cache[g] # "pending"
  <2>1. pending' = Append(pending, g) /\ pending \in Seq(Groups)
    BY <1>5 DEF SaveStatus, Queued
  <2>2. /\ pending' \in Seq(Groups)
        /\ Len(pending) \in Nat /\ DOMAIN pending = 1 .. Len(pending)
        /\ DOMAIN pending' = 1 .. Len(pending) + 1
        /\ pending'[Len(pending) + 1] = g
        /\ \A i \in 1 .. Len(pending) : pending'[i] = pending[i]
    BY <2>1, AppendProperties, LenProperties
  <2>3. \A i \in DOMAIN pending : pending[i] # g
    BY <1>5 DEF Queued
  <2>4. \A i, k \in DOMAIN pending' : pending'[i] = pending'[k] => i = k
    BY <2>2, <2>3 DEF Queued
  <2>5. ASSUME NEW h \in Groups
        PROVE  cache'[h] = "pending" <=> \E i \in DOMAIN pending' : pending'[i] = h
    <3>1. CASE h = g
      BY <1>2, <1>5, <2>2, <3>1
    <3>2. CASE h # g
      <4>1. (\E i \in DOMAIN pending' : pending'[i] = h) <=> \E i \in DOMAIN pending : pending[i] = h
        BY <2>2, <3>2
      <4> QED
        BY <1>2, <3>2, <4>1 DEF Queued
    <3> QED
      BY <3>1, <3>2
  <2> QED
    BY <1>1, <1>2, <2>2, <2>4, <2>5 DEF Queued
<1> QED
  BY <1>3, <1>4, <1>5

LEMMA OldestIsQueue ==
    ASSUME Queued
    PROVE  Oldest \in Seq(Groups)
<1> DEFINE n == IF Len(pending) > BATCH_SIZE THEN BATCH_SIZE ELSE Len(pending)
<1>1. /\ pending \in Seq(Groups) /\ Len(pending) \in Nat /\ n \in Int
      /\ \A i \in 1 .. n : i \in 1 .. Len(pending)
  BY LenProperties, IngestionAssumption DEF Queued
<1>2. \A i \in 1 .. n : pending[i] \in Groups
  BY <1>1, ElementOfSeq
<1> QED
  BY <1>1, <1>2, SubSeqProperties DEF Oldest

-----------------------------------------------------------------------------
(* One sweep moves on, starts or ends.                                     *)
LEMMA SweepPlaces ==
    ASSUME IInv, NEW s \in Sweeps, NEW r, r \in Sweep, Place(r),
           sweep' = [sweep EXCEPT ![s] = r]
    PROVE  /\ sweep' \in [Sweeps -> Sweep]
           /\ \A t \in Sweeps : Place(sweep'[t])
           /\ sweep'[s] = r /\ \A t \in Sweeps : t # s => sweep'[t] = sweep[t]
BY DEF IInv, Types

LEMMA SweepGoesOn ==
    ASSUME IInv, NEW s \in Sweeps, NEW r, r \in Sweep, Place(r),
           sweep' = [sweep EXCEPT ![s] = r],
           sweep[s].at # "idle", r.at # "idle", sweeping' = sweeping
    PROVE  OneSweep'
<1>1. sweep'[s] = r /\ \A t \in Sweeps : t # s => sweep'[t] = sweep[t]
  BY SweepPlaces
<1>2. OneSweep
  BY DEF IInv
<1> QED
  BY <1>1, <1>2 DEF OneSweep

(* A finite number of processes is anywhere.                               *)
LEMMA CountIsNat ==
    ASSUME NEW points, NEW c
    PROVE  /\ IsFiniteSet(At(points, c)) /\ IsFiniteSet(At(points, c)')
           /\ Cardinality(At(points, c)) \in Nat /\ Cardinality(At(points, c)') \in Nat
           /\ Cardinality(At(points, c)) <= Cardinality(Processes)
           /\ Cardinality(Processes) \in Nat \ {0}
<1>1. At(points, c) \in SUBSET Processes /\ At(points, c)' \in SUBSET Processes
  BY DEF At
<1>2. IsFiniteSet(Processes) /\ Processes # {}
  BY IngestionAssumption
<1>3. Cardinality(Processes) \in Nat \ {0}
  BY <1>2, FS_CardinalityType, FS_EmptySet
<1> QED
  BY <1>1, <1>2, <1>3, FS_Subset, FS_CardinalityType

Is(s, points, c) == sweep[s].at \in points /\ CountryOf[Group(s)] = c

(* A sweep that goes on moves its process, and no other.                   *)
LEMMA CountMoves ==
    ASSUME IInv, NEW s \in Sweeps, NEW points, NEW c, "idle" \notin points,
           sweep[s].at # "idle", OneSweep',
           \A t \in Sweeps : t # s => sweep'[t] = sweep[t]
    PROVE  /\ (Is(s, points, c) => Is(s, points, c)') => At(points, c) \subseteq At(points, c)'
           /\ (Is(s, points, c)' => Is(s, points, c)) => At(points, c)' \subseteq At(points, c)
           /\ Is(s, points, c)' /\ ~Is(s, points, c) =>
                  /\ ProcessOf[s] \notin At(points, c)
                  /\ Cardinality(At(points, c)') = Cardinality(At(points, c)) + 1
           /\ Is(s, points, c) /\ ~Is(s, points, c)' =>
                  Cardinality(At(points, c)') = Cardinality(At(points, c)) - 1
<1> DEFINE p == ProcessOf[s]
<1>1. p \in Processes
  BY IngestionAssumption
<1>2. \A t \in Sweeps : t # s /\ ProcessOf[t] = p => sweep[t].at = "idle" /\ sweep'[t].at = "idle"
  BY DEF IInv, OneSweep
<1>3. p \in At(points, c) <=> Is(s, points, c)
  BY <1>1, <1>2 DEF At, Is
<1>4. p \in At(points, c)' <=> Is(s, points, c)'
  BY <1>1, <1>2 DEF At, Is
<1>5. \A q \in Processes : q # p => (q \in At(points, c)' <=> q \in At(points, c))
  BY DEF At, Group
<1>6. At(points, c) \subseteq Processes /\ At(points, c)' \subseteq Processes
  BY DEF At
<1>7. /\ (Is(s, points, c) => Is(s, points, c)') => At(points, c) \subseteq At(points, c)'
      /\ (Is(s, points, c)' => Is(s, points, c)) => At(points, c)' \subseteq At(points, c)
  BY <1>3, <1>4, <1>5, <1>6
<1>8. ASSUME Is(s, points, c)', ~Is(s, points, c)
      PROVE  p \notin At(points, c) /\ Cardinality(At(points, c)') = Cardinality(At(points, c)) + 1
  <2>1. At(points, c)' = At(points, c) \cup {p} /\ p \notin At(points, c)
    BY <1>1, <1>3, <1>4, <1>5, <1>6, <1>8
  <2> QED
    BY <2>1, CountIsNat, FS_AddElement
<1>9. ASSUME Is(s, points, c), ~Is(s, points, c)'
      PROVE  Cardinality(At(points, c)') = Cardinality(At(points, c)) - 1
  <2>1. At(points, c)' = At(points, c) \ {p} /\ p \in At(points, c)
    BY <1>1, <1>3, <1>4, <1>5, <1>6, <1>9
  <2> QED
    BY <2>1, CountIsNat, FS_RemoveElement
<1> QED
  BY <1>7, <1>8, <1>9

(* The counts of a step without call and record: no process begins to      *)
(* call, and one may lose its record only to a fault.                      *)
LEMMA LedgerStays ==
    ASSUME IInv, UNCHANGED ledger, faults' \in Nat, faults' >= faults,
           \A c \in Countries : Calling(c)' \subseteq Calling(c),
           \/ \A c \in Countries : Recording(c) \subseteq Recording(c)'
           \/ faults' = faults + 1 /\ \E p : \A c \in Countries : Recording(c) \ {p} \subseteq Recording(c)'
    PROVE  Logged' /\ Bounded'
<1>1. /\ faults \in Nat /\ MAX_CALLS \in Nat
      /\ \A c \in Countries : calls[c] \in Nat /\ recorded[c] \in Nat
      /\ calls' = calls /\ recorded' = recorded
  BY IngestionAssumption DEF IInv, Types, ledger
<1>2. ASSUME NEW c \in Countries
      PROVE  calls[c] <= recorded[c] + faults' + Cardinality(Recording(c)')
  <2>1. /\ IsFiniteSet(Recording(c)) /\ IsFiniteSet(Recording(c)')
        /\ Cardinality(Recording(c)) \in Nat /\ Cardinality(Recording(c)') \in Nat
    BY CountIsNat DEF Recording
  <2>2. calls[c] <= recorded[c] + faults + Cardinality(Recording(c))
    BY DEF IInv, Logged
  <2>3. CASE Recording(c) \subseteq Recording(c)'
    <3>1. Cardinality(Recording(c)) <= Cardinality(Recording(c)')
      BY <2>1, <2>3, FS_Subset
    <3> QED
      BY <1>1, <2>1, <2>2, <3>1
  <2>4. CASE faults' = faults + 1 /\ \E p : Recording(c) \ {p} \subseteq Recording(c)'
    <3>1. PICK p : Recording(c) \ {p} \subseteq Recording(c)'
      BY <2>4
    <3>2. /\ Cardinality(Recording(c) \ {p}) >= Cardinality(Recording(c)) - 1
          /\ Cardinality(Recording(c) \ {p}) \in Int
      BY <2>1, FS_RemoveElement
    <3>3. Cardinality(Recording(c) \ {p}) <= Cardinality(Recording(c)')
      BY <2>1, <3>1, FS_Subset
    <3> QED
      BY <1>1, <2>1, <2>2, <2>4, <3>2, <3>3
  <2> QED
    BY <2>3, <2>4
<1>3. ASSUME NEW c \in Countries
      PROVE  calls[c] + Cardinality(Calling(c)') <= MAX_CALLS + faults' + Cardinality(Processes) - 1
  <2>1. /\ IsFiniteSet(Calling(c))
        /\ Cardinality(Calling(c)) \in Nat /\ Cardinality(Calling(c)') \in Nat
        /\ Cardinality(Processes) \in Nat
    BY CountIsNat DEF Calling
  <2>2. calls[c] + Cardinality(Calling(c)) <= MAX_CALLS + faults + Cardinality(Processes) - 1
    BY DEF IInv, Bounded
  <2>3. Cardinality(Calling(c)') <= Cardinality(Calling(c))
    BY <2>1, FS_Subset
  <2> QED
    BY <1>1, <2>1, <2>2, <2>3
<1> QED
  BY <1>1, <1>2, <1>3 DEF Logged, Bounded

(* A step that leaves all sweeps where they are.                           *)
LEMMA SweepsStay ==
    ASSUME IInv, UNCHANGED <<ledger, sweep, sweeping>>, faults' \in Nat, faults' >= faults
    PROVE  OneSweep' /\ (\A s \in Sweeps : Place(sweep[s])') /\ Logged' /\ Bounded'
<1>1. OneSweep' /\ \A s \in Sweeps : Place(sweep[s])'
  BY DEF IInv, OneSweep, Place
<1>2. \A c \in Countries : Calling(c)' = Calling(c) /\ Recording(c)' = Recording(c)
  BY DEF Calling, Recording, At, Group
<1> QED
  BY <1>1, <1>2, LedgerStays

(* A sweep goes on without calling, and without losing what it has yet to  *)
(* record.                                                                 *)
LEMMA GoesOnUncounted ==
    ASSUME IInv, NEW s \in Sweeps, NEW r, r \in Sweep, Place(r),
           sweep' = [sweep EXCEPT ![s] = r], sweep[s].at # "idle",
           r.at \notin {"idle", "call"},
           sweep[s].at \in {"record", "recordFailure"} =>
               r.at \in {"record", "recordFailure"} /\ r.todo = sweep[s].todo,
           UNCHANGED <<ledger, sweeping>>, faults' \in Nat, faults' >= faults
    PROVE  /\ sweep' \in [Sweeps -> Sweep]
           /\ OneSweep' /\ (\A t \in Sweeps : Place(sweep[t])') /\ Logged' /\ Bounded'
<1>1. /\ sweep' \in [Sweeps -> Sweep]
      /\ \A t \in Sweeps : Place(sweep'[t])
      /\ sweep'[s] = r /\ \A t \in Sweeps : t # s => sweep'[t] = sweep[t]
  BY SweepPlaces
<1>2. OneSweep'
  BY SweepGoesOn
<1>3. ASSUME NEW c \in Countries
      PROVE  Calling(c)' \subseteq Calling(c) /\ Recording(c) \subseteq Recording(c)'
  <2>1. ~Is(s, {"call"}, c)'
    BY <1>1 DEF Is
  <2>2. Is(s, {"record", "recordFailure"}, c) => Is(s, {"record", "recordFailure"}, c)'
    BY <1>1 DEF Is, Group
  <2> QED
    BY <1>1, <1>2, <2>1, <2>2, CountMoves DEF Calling, Recording
<1>4. Logged' /\ Bounded'
  BY <1>3, LedgerStays
<1>5. \A t \in Sweeps : Place(sweep[t])'
  BY <1>1 DEF Place
<1> QED
  BY <1>1, <1>2, <1>4, <1>5

(* A sweep ends, by itself or in an error.                                 *)
LEMMA EndsUncounted ==
    ASSUME IInv, NEW s \in Sweeps, SweepEnds(s), sweep[s].at # "idle",
           UNCHANGED ledger, faults' \in Nat,
           \/ faults' = faults + 1
           \/ faults' = faults /\ sweep[s].at \notin {"record", "recordFailure"}
    PROVE  /\ sweep' \in [Sweeps -> Sweep] /\ sweeping' \subseteq Processes
           /\ OneSweep' /\ (\A t \in Sweeps : Place(sweep[t])') /\ Logged' /\ Bounded'
<1>1. NoSweep \in Sweep /\ Place(NoSweep)
  BY IngestionAssumption DEF NoSweep, Sweep, Place, WithGroup, WithKeyword
<1>2. /\ sweep' \in [Sweeps -> Sweep]
      /\ \A t \in Sweeps : Place(sweep'[t])
      /\ sweep'[s] = NoSweep /\ \A t \in Sweeps : t # s => sweep'[t] = sweep[t]
  BY <1>1, SweepPlaces DEF SweepEnds
<1>3. /\ NoSweep.at = "idle" /\ sweeping' = sweeping \ {ProcessOf[s]} /\ sweeping' \subseteq Processes
      /\ faults \in Nat
  BY IngestionAssumption DEF IInv, Types, SweepEnds, NoSweep
<1>4. OneSweep'
  BY <1>2, <1>3 DEF IInv, OneSweep
<1>5. ASSUME NEW c \in Countries
      PROVE  /\ Calling(c)' \subseteq Calling(c)
             /\ Recording(c) \ {ProcessOf[s]} \subseteq Recording(c)'
             /\ sweep[s].at \notin {"record", "recordFailure"} => Recording(c) \subseteq Recording(c)'
  <2>1. ~Is(s, {"call"}, c)'
    BY <1>2, <1>3 DEF Is
  <2>2. sweep[s].at \notin {"record", "recordFailure"} => ~Is(s, {"record", "recordFailure"}, c)
    BY DEF Is
  <2>3. Recording(c) \ {ProcessOf[s]} \subseteq Recording(c)'
    BY <1>2 DEF Recording, At, Group
  <2> QED
    BY <1>2, <1>4, <2>1, <2>2, <2>3, CountMoves DEF Calling, Recording
<1>6. Logged' /\ Bounded'
  BY <1>3, <1>5, LedgerStays
<1>7. \A t \in Sweeps : Place(sweep[t])'
  BY <1>2 DEF Place
<1> QED
  BY <1>2, <1>3, <1>4, <1>6, <1>7

LEMMA FaultCounts ==
    ASSUME Types, Fault
    PROVE  faults' \in 0 .. MaxFaults /\ faults' = faults + 1 /\ faults' \in Nat /\ faults' >= faults
BY IngestionAssumption DEF Types, Fault

LEMMA NoFault ==
    ASSUME Types, UNCHANGED faults
    PROVE  faults' \in 0 .. MaxFaults /\ faults' \in Nat /\ faults' >= faults
BY IngestionAssumption DEF Types

-----------------------------------------------------------------------------
(* The steps on the index keep its types.                                  *)
LEMMA UpsertReadsTypes ==
    ASSUME IndexTypeOK, NEW w \in Writers, UpsertReads(w), UNCHANGED <<jobs, enrich>>
    PROVE  IndexTypeOK'
BY DEF IndexTypeOK, UpsertReads, Upsert

LEMMA UpsertSavesTypes ==
    ASSUME IndexTypeOK, NEW w \in Writers, UpsertSaves(w), UNCHANGED enrich
    PROVE  IndexTypeOK'
<1>1. upsert[w] \in Upsert /\ jobs \in [Postings -> Job]
  BY DEF IndexTypeOK
<1>2. jobs' \in [Postings -> Job]
  BY <1>1 DEF UpsertSaves, Upsert, Job
<1>3. [upsert[w] EXCEPT !.at = "clear"] \in Upsert /\ NoUpsert \in Upsert
  BY <1>1 DEF Upsert, NoUpsert
<1>4. upsert' \in [Writers -> Upsert]
  BY <1>3 DEF IndexTypeOK, UpsertSaves
<1> QED
  BY <1>2, <1>4 DEF IndexTypeOK

LEMMA UpsertClearsTypes ==
    ASSUME IndexTypeOK, NEW w \in Writers, UpsertClears(w), UNCHANGED enrich
    PROVE  IndexTypeOK'
<1>1. jobs' \in [Postings -> Job]
  BY DEF IndexTypeOK, UpsertClears, Job
<1>2. upsert' \in [Writers -> Upsert]
  BY DEF IndexTypeOK, UpsertClears, Upsert, NoUpsert
<1> QED
  BY <1>1, <1>2 DEF IndexTypeOK

LEMMA UpsertDroppedTypes ==
    ASSUME IndexTypeOK, NEW w \in Writers, upsert' = [upsert EXCEPT ![w] = NoUpsert], UNCHANGED <<jobs, enrich>>
    PROVE  IndexTypeOK'
BY DEF IndexTypeOK, Upsert, NoUpsert

LEMMA EnrichFindsTypes ==
    ASSUME IndexTypeOK, NEW e \in Enrichers, EnrichFinds(e)
    PROVE  IndexTypeOK'
<1>1. [j \in Postings |-> IF j \in Unenriched THEN jobs[j].text ELSE None] \in [Postings -> Texts \cup {None}]
  BY DEF IndexTypeOK, Job
<1> QED
  BY <1>1 DEF IndexTypeOK, EnrichFinds

LEMMA EnrichSavesTypes ==
    ASSUME IndexTypeOK, NEW e \in Enrichers, NEW j \in Postings, EnrichSaves(e, j)
    PROVE  IndexTypeOK'
<1>1. enrich[e][j] \in Texts \cup {None}
  BY DEF IndexTypeOK
<1>2. jobs' \in [Postings -> Job]
  BY <1>1 DEF IndexTypeOK, EnrichSaves, Job
<1>3. enrich' \in [Enrichers -> [Postings -> Texts \cup {None}]]
  BY DEF IndexTypeOK, EnrichSaves
<1> QED
  BY <1>2, <1>3 DEF IndexTypeOK, EnrichSaves

LEMMA EnrichThrowsTypes ==
    ASSUME IndexTypeOK, NEW e \in Enrichers, EnrichThrows(e)
    PROVE  IndexTypeOK'
BY DEF IndexTypeOK, EnrichThrows, Nothing

-----------------------------------------------------------------------------
(* The requests and the aging of a row.                                    *)
LEMMA AskReadsKeeps ==
    ASSUME IInv, NEW a \in Asks, NEW g \in Groups, AskReads(a, g)
    PROVE  IInv'
<1>1. UNCHANGED <<indexVars, table, ledger, sweeping, sweep, faults>>
  BY DEF AskReads
<1>2. Types'
  <2>1. ask' \in [Asks -> Ask] /\ \A b \in Asks : ask'[b].at # "idle" => ask'[b].group \in Groups
    BY DEF AskReads, IInv, Types, Ask
  <2> QED
    BY <1>1, <2>1 DEF IInv, Types, IndexTypeOK, indexVars, table, ledger
<1>3. Queued'
  BY <1>1 DEF IInv, Queued, table
<1>4. OneSweep' /\ (\A s \in Sweeps : Place(sweep[s])') /\ Logged' /\ Bounded'
  BY <1>1, NoFault, SweepsStay DEF IInv
<1> QED
  BY <1>2, <1>3, <1>4 DEF IInv

LEMMA AskSavesKeeps ==
    ASSUME IInv, NEW a \in Asks, AskSaves(a)
    PROVE  IInv'
<1>1. UNCHANGED <<indexVars, ledger, sweeping, sweep, faults>>
  BY DEF AskSaves
<1>2. Queued' /\ aged' \subseteq Groups
  <2>1. ask[a].group \in Groups /\ "pending" \in Statuses
    BY DEF AskSaves, IInv, Types, Statuses
  <2>2. CASE UNCHANGED table
    BY <2>2 DEF IInv, Types, Queued, table
  <2>3. CASE SaveStatus(ask[a].group, "pending")
    BY <2>1, <2>3, SaveStatusKeeps DEF IInv, Types
  <2> QED
    BY <2>2, <2>3 DEF AskSaves
<1>3. Types'
  <2>1. ask' \in [Asks -> Ask] /\ \A b \in Asks : ask'[b].at # "idle" => ask'[b].group \in Groups
    BY DEF AskSaves, IInv, Types, Ask, NoAsk
  <2> QED
    BY <1>1, <1>2, <2>1 DEF IInv, Types, IndexTypeOK, indexVars, ledger
<1>4. OneSweep' /\ (\A s \in Sweeps : Place(sweep[s])') /\ Logged' /\ Bounded'
  BY <1>1, NoFault, SweepsStay DEF IInv
<1> QED
  BY <1>2, <1>3, <1>4 DEF IInv

LEMMA AgeKeeps ==
    ASSUME IInv, NEW g \in Groups, Age(g)
    PROVE  IInv'
<1>1. UNCHANGED <<indexVars, cache, pending, ledger, sweeping, sweep, ask, faults>> /\ aged' \subseteq Groups
  BY DEF Age, IInv, Types
<1>2. Types'
  BY <1>1 DEF IInv, Types, IndexTypeOK, indexVars, ledger
<1>3. Queued'
  BY <1>1 DEF IInv, Queued
<1>4. OneSweep' /\ (\A s \in Sweeps : Place(sweep[s])') /\ Logged' /\ Bounded'
  BY <1>1, NoFault, SweepsStay DEF IInv
<1> QED
  BY <1>2, <1>3, <1>4 DEF IInv

(* A match request's enrichment touches the index only.                    *)
LEMMA MatchEnrichesKeeps ==
    ASSUME IInv, NEW e \in Enrichers, MatchEnriches(e) \/ MatchEnrichThrows(e)
    PROVE  IInv'
<1>1. UNCHANGED <<table, ledger, sweeping, sweep, ask>>
  BY DEF MatchEnriches, MatchEnrichThrows
<1>2. faults' \in 0 .. MaxFaults /\ faults' \in Nat /\ faults' >= faults
  BY FaultCounts, NoFault DEF IInv, MatchEnriches, MatchEnrichThrows
<1>3. IndexTypeOK'
  BY EnrichFindsTypes, EnrichSavesTypes, EnrichThrowsTypes DEF IInv, Types, MatchEnriches, MatchEnrichThrows
<1>4. Types'
  BY <1>1, <1>2, <1>3 DEF IInv, Types, table, ledger
<1>5. Queued'
  BY <1>1 DEF IInv, Queued, table
<1>6. OneSweep' /\ (\A s \in Sweeps : Place(sweep[s])') /\ Logged' /\ Bounded'
  BY <1>1, <1>2, SweepsStay
<1> QED
  BY <1>4, <1>5, <1>6 DEF IInv

-----------------------------------------------------------------------------
(* A sweep starts, and chooses what to do with its first group.            *)
LEMMA SweepStartsKeeps ==
    ASSUME IInv, NEW s \in Sweeps, SweepStarts(s)
    PROVE  IInv'
<1> DEFINE r == [NoSweep EXCEPT !.at = "group", !.todo = Oldest]
<1>1. UNCHANGED <<indexVars, table, ledger, ask, faults>> /\ sweep' = [sweep EXCEPT ![s] = r]
  BY DEF SweepStarts
<1>2. r \in Sweep /\ Place(r) /\ r.at = "group"
  <2>1. Oldest \in Seq(Groups) /\ 0 \in 0 .. KEYWORDS + 1
    BY OldestIsQueue, IngestionAssumption DEF IInv
  <2>2. r \in Sweep /\ r.at = "group"
    BY <2>1 DEF NoSweep, Sweep
  <2> QED
    BY <2>2 DEF Place, WithGroup, WithKeyword
<1> HIDE DEF r
<1>3. /\ sweep' \in [Sweeps -> Sweep]
      /\ \A t \in Sweeps : Place(sweep'[t])
      /\ sweep'[s] = r /\ \A t \in Sweeps : t # s => sweep'[t] = sweep[t]
  BY <1>1, <1>2, SweepPlaces
<1>4. /\ sweep[s].at = "idle" /\ ProcessOf[s] \notin sweeping
      /\ sweeping' = sweeping \cup {ProcessOf[s]} /\ ProcessOf[s] \in Processes
  BY IngestionAssumption DEF SweepStarts, Sweeping
<1>5. OneSweep'
  BY <1>2, <1>3, <1>4 DEF IInv, OneSweep
<1>6. \A c \in Countries : Calling(c)' = Calling(c) /\ Recording(c)' = Recording(c)
  BY <1>2, <1>3, <1>4 DEF Calling, Recording, At, Group
<1>7. Logged' /\ Bounded'
  BY <1>1, <1>6, NoFault, LedgerStays DEF IInv
<1>8. Types'
  BY <1>1, <1>3, <1>4, IngestionAssumption DEF IInv, Types, IndexTypeOK, indexVars, table, ledger
<1>9. Queued' /\ \A t \in Sweeps : Place(sweep[t])'
  BY <1>1, <1>3 DEF IInv, Queued, table, Place
<1> QED
  BY <1>5, <1>7, <1>8, <1>9 DEF IInv

(* What a sweep that goes on without a call leaves to show.                *)
LEMMA QuietMove ==
    ASSUME IInv, NEW s \in Sweeps, NEW r, r \in Sweep, Place(r),
           sweep' = [sweep EXCEPT ![s] = r], sweep[s].at # "idle",
           r.at \notin {"idle", "call"},
           sweep[s].at \in {"record", "recordFailure"} =>
               r.at \in {"record", "recordFailure"} /\ r.todo = sweep[s].todo,
           UNCHANGED <<ledger, sweeping, ask>>, faults' \in 0 .. MaxFaults, faults' >= faults,
           IndexTypeOK', Queued', aged' \subseteq Groups
    PROVE  IInv'
<1>1. faults' \in Nat
  BY IngestionAssumption
<1>2. /\ sweep' \in [Sweeps -> Sweep]
      /\ OneSweep' /\ (\A t \in Sweeps : Place(sweep[t])') /\ Logged' /\ Bounded'
  BY <1>1, GoesOnUncounted
<1>3. Types'
  BY <1>2 DEF IInv, Types, ledger
<1> QED
  BY <1>2, <1>3 DEF IInv

LEMMA TakeGroupKeeps ==
    ASSUME IInv, NEW s \in Sweeps, TakeGroup(s)
    PROVE  IInv'
<1>1. /\ UNCHANGED <<indexVars, table, ledger, sweeping, ask, faults>> /\ sweep[s].at = "group"
      /\ sweep[s] \in Sweep /\ sweep \in [Sweeps -> Sweep]
  BY DEF TakeGroup, IInv, Types
<1>2. IndexTypeOK' /\ Queued' /\ aged' \subseteq Groups
  BY <1>1 DEF IInv, Types, IndexTypeOK, Queued, indexVars, table
<1>3. faults' \in 0 .. MaxFaults /\ faults' >= faults
  BY <1>1, NoFault DEF IInv
<1>4. \E r \in Sweep : /\ sweep' = [sweep EXCEPT ![s] = r] /\ Place(r)
                       /\ r.at \in {"enrich", "keyword", "skip"}
  <2>1. CASE sweep[s].todo = <<>>
    <3> DEFINE r == [sweep[s] EXCEPT !.at = "enrich"]
    <3>1. r \in Sweep /\ Place(r) /\ r.at = "enrich"
      BY <1>1 DEF Sweep, Place, WithGroup, WithKeyword
    <3>2. sweep' = [sweep EXCEPT ![s] = r]
      BY <1>1, <2>1 DEF TakeGroup, Goes
    <3> QED
      BY <3>1, <3>2
  <2>2. CASE sweep[s].todo # <<>> /\ Goes(s, "skip")
    <3> DEFINE r == [sweep[s] EXCEPT !.at = "skip"]
    <3>1. r \in Sweep /\ Place(r) /\ r.at = "skip"
      BY <1>1, <2>2 DEF Sweep, Place, WithGroup, WithKeyword
    <3>2. sweep' = [sweep EXCEPT ![s] = r]
      BY <1>1, <2>2 DEF Goes
    <3> QED
      BY <3>1, <3>2
  <2>3. CASE sweep[s].todo # <<>> /\ sweep' = [sweep EXCEPT ![s].at = "keyword", ![s].keyword = 1]
    <3> DEFINE r == [sweep[s] EXCEPT !.at = "keyword", !.keyword = 1]
    <3>1. 1 \in 0 .. KEYWORDS + 1 /\ 1 \in 1 .. KEYWORDS + 1
      BY IngestionAssumption
    <3>2. r \in Sweep /\ r.at = "keyword" /\ r.keyword = 1 /\ r.todo = sweep[s].todo
      BY <1>1, <3>1 DEF Sweep
    <3>3. sweep' = [sweep EXCEPT ![s] = r]
      BY <1>1, <2>3
    <3> HIDE DEF r
    <3>4. Place(r)
      BY <2>3, <3>1, <3>2 DEF Place, WithGroup, WithKeyword
    <3> QED
      BY <3>2, <3>3, <3>4
  <2> QED
    BY <2>1, <2>2, <2>3 DEF TakeGroup
<1> QED
  BY <1>1, <1>2, <1>3, <1>4, QuietMove

-----------------------------------------------------------------------------
(* A sweep leaves its group, or its keyword.                               *)
LEMMA NextGroupMoves ==
    ASSUME IInv, NEW s \in Sweeps, sweep[s].at \in WithGroup, NextGroup(s)
    PROVE  \E r \in Sweep : sweep' = [sweep EXCEPT ![s] = r] /\ Place(r) /\ r.at = "group"
<1> DEFINE r == [NoSweep EXCEPT !.at = "group", !.todo = Tail(sweep[s].todo)]
<1>1. sweep[s] \in Sweep /\ sweep[s].todo \in Seq(Groups) /\ sweep[s].todo # <<>>
  BY DEF IInv, Types, Place, Sweep
<1>2. Tail(sweep[s].todo) \in Seq(Groups) /\ 0 \in 0 .. KEYWORDS + 1
  BY <1>1, HeadTailProperties, IngestionAssumption
<1>3. r \in Sweep /\ r.at = "group"
  BY <1>2 DEF NoSweep, Sweep
<1>4. sweep' = [sweep EXCEPT ![s] = r]
  BY DEF NextGroup
<1> HIDE DEF r
<1>5. Place(r)
  BY <1>3 DEF Place, WithGroup, WithKeyword
<1> QED
  BY <1>3, <1>4, <1>5

LEMMA NextKeywordMoves ==
    ASSUME IInv, NEW s \in Sweeps, sweep[s].at \in WithKeyword, NEW succeeded \in BOOLEAN,
           NextKeyword(s, succeeded)
    PROVE  \E r \in Sweep : /\ sweep' = [sweep EXCEPT ![s] = r] /\ Place(r)
                            /\ r.at = "keyword" /\ r.todo = sweep[s].todo
<1> DEFINE r == [sweep[s] EXCEPT !.at = "keyword", !.keyword = @ + 1, !.allSucceeded = @ /\ succeeded]
<1>1. /\ sweep \in [Sweeps -> Sweep] /\ sweep[s] \in Sweep
      /\ sweep[s].todo \in Seq(Groups) /\ sweep[s].todo # <<>>
      /\ sweep[s].keyword \in 1 .. KEYWORDS /\ sweep[s].allSucceeded \in BOOLEAN
  BY DEF IInv, Types, Place, Sweep, WithKeyword, WithGroup
<1>2. sweep[s].keyword + 1 \in 0 .. KEYWORDS + 1 /\ sweep[s].keyword + 1 \in 1 .. KEYWORDS + 1
  BY <1>1, IngestionAssumption
<1>3. (sweep[s].allSucceeded /\ succeeded) \in BOOLEAN
  OBVIOUS
<1>4. /\ r \in Sweep
      /\ r.at = "keyword" /\ r.todo = sweep[s].todo /\ r.keyword = sweep[s].keyword + 1
  BY <1>1, <1>2, <1>3 DEF Sweep
<1>5. sweep' = [sweep EXCEPT ![s] = r]
  BY <1>1 DEF NextKeyword
<1> HIDE DEF r
<1>6. Place(r)
  BY <1>1, <1>2, <1>4 DEF Place, WithGroup, WithKeyword
<1> QED
  BY <1>4, <1>5, <1>6

LEMMA GoesMoves ==
    ASSUME IInv, NEW s \in Sweeps, NEW at, Goes(s, at),
           at \in {"skip", "call", "record", "store", "upsert", "recordFailure", "enrich", "enriching"},
           at \in WithGroup => sweep[s].todo # <<>>,
           at \in WithKeyword => sweep[s].keyword \in 1 .. KEYWORDS
    PROVE  \E r \in Sweep : /\ sweep' = [sweep EXCEPT ![s] = r] /\ Place(r)
                            /\ r.at = at /\ r.todo = sweep[s].todo
<1> DEFINE r == [sweep[s] EXCEPT !.at = at]
<1>1. sweep[s] \in Sweep /\ sweep \in [Sweeps -> Sweep]
  BY DEF IInv, Types
<1>2. r \in Sweep /\ r.at = at /\ r.todo = sweep[s].todo /\ r.keyword = sweep[s].keyword
  BY <1>1 DEF Sweep
<1>3. sweep' = [sweep EXCEPT ![s] = r]
  BY <1>1 DEF Goes
<1> HIDE DEF r
<1>4. Place(r)
  BY <1>2 DEF Place
<1> QED
  BY <1>2, <1>3, <1>4

LEMMA GroupIsGroup ==
    ASSUME IInv, NEW s \in Sweeps, sweep[s].at \in WithGroup
    PROVE  /\ Group(s) \in Groups /\ CountryOf[Group(s)] \in Countries
           /\ sweep[s].todo # <<>>
           /\ sweep[s].at \in WithKeyword => sweep[s].keyword \in 1 .. KEYWORDS
<1>1. sweep[s].todo \in Seq(Groups) /\ sweep[s].todo # <<>> /\ Place(sweep[s])
  BY DEF IInv, Types, Place, Sweep
<1>2. Group(s) \in Groups
  BY <1>1, HeadTailProperties DEF Group
<1> QED
  BY <1>1, <1>2, IngestionAssumption DEF Place

LEMMA LeavesGroupKeeps ==
    ASSUME IInv, NEW s \in Sweeps, SkipGroup(s) \/ CloseGroup(s)
    PROVE  IInv'
<1>1. /\ UNCHANGED <<indexVars, ledger, sweeping, ask, faults>>
      /\ sweep[s].at \in {"skip", "keyword"} /\ NextGroup(s)
      /\ \E status \in {"fresh", "failed"} : SaveStatus(Group(s), status)
  BY DEF SkipGroup, CloseGroup
<1>2. sweep[s].at \in WithGroup
  BY <1>1 DEF WithGroup
<1>3. Queued' /\ aged' \subseteq Groups
  BY <1>1, <1>2, GroupIsGroup, SaveStatusKeeps DEF IInv, Types, Statuses
<1>4. IndexTypeOK' /\ faults' \in 0 .. MaxFaults /\ faults' >= faults
  BY <1>1, NoFault DEF IInv, Types, IndexTypeOK, indexVars
<1> QED
  BY <1>1, <1>2, <1>3, <1>4, NextGroupMoves, QuietMove

-----------------------------------------------------------------------------
(* Two disjoint parts of the processes without one more.                   *)
LEMMA TwoPartsAndOne ==
    ASSUME NEW S, NEW T, S \subseteq Processes, T \subseteq Processes, S \cap T = {},
           NEW p \in Processes, p \notin S, p \notin T
    PROVE  Cardinality(S) + Cardinality(T) + 1 <= Cardinality(Processes)
<1>1. IsFiniteSet(Processes) /\ IsFiniteSet(S) /\ IsFiniteSet(T)
  BY FS_Subset, IngestionAssumption
<1>2. /\ Cardinality(S) \in Nat /\ Cardinality(T) \in Nat /\ Cardinality(Processes) \in Nat
      /\ Cardinality(S \cap T) = 0
  BY <1>1, FS_CardinalityType, FS_EmptySet
<1>3. IsFiniteSet(S \cup T) /\ Cardinality(S \cup T) = Cardinality(S) + Cardinality(T)
  <2>1. /\ IsFiniteSet(S \cup T)
        /\ Cardinality(S \cup T) = Cardinality(S) + Cardinality(T) - Cardinality(S \cap T)
    BY <1>1, FS_Union
  <2> QED
    BY <1>2, <2>1
<1>4. Cardinality((S \cup T) \cup {p}) = Cardinality(S) + Cardinality(T) + 1
  BY <1>3, FS_AddElement
<1>5. (S \cup T) \cup {p} \in SUBSET Processes
  OBVIOUS
<1> QED
  BY <1>1, <1>2, <1>4, <1>5, FS_Subset

(* What keeps its types in the steps on the budget.                        *)
LEMMA BudgetStepTypes ==
    ASSUME IInv, UNCHANGED <<indexVars, table, sweeping, ask, faults>>,
           sweep' \in [Sweeps -> Sweep],
           calls' \in [Countries -> Nat], recorded' \in [Countries -> Nat]
    PROVE  Types' /\ Queued'
BY DEF IInv, Types, IndexTypeOK, Queued, indexVars, table

LEMMA CheckBudgetKeeps ==
    ASSUME IInv, NEW s \in Sweeps, CheckBudget(s)
    PROVE  IInv'
<1>1. /\ UNCHANGED <<indexVars, table, ledger, sweeping, ask, faults>>
      /\ sweep[s].at = "keyword" /\ sweep[s].keyword <= KEYWORDS
      /\ sweep \in [Sweeps -> Sweep] /\ sweep[s] \in Sweep
  BY DEF CheckBudget, IInv, Types
<1>2. /\ sweep[s].at \in WithGroup /\ sweep[s].todo # <<>> /\ CountryOf[Group(s)] \in Countries
      /\ sweep[s].keyword \in Nat
  BY <1>1, GroupIsGroup DEF WithGroup, Sweep
<1>3. IndexTypeOK' /\ Queued' /\ aged' \subseteq Groups
  BY <1>1 DEF IInv, Types, IndexTypeOK, Queued, indexVars, table
<1>4. faults' \in 0 .. MaxFaults /\ faults' >= faults
  BY <1>1, NoFault DEF IInv
<1>5. CASE ~HasBudget(CountryOf[Group(s)])
  <2> DEFINE r == [sweep[s] EXCEPT !.keyword = KEYWORDS + 1, !.allSucceeded = FALSE]
  <2>1. sweep' = [sweep EXCEPT ![s] = r]
    BY <1>1, <1>5 DEF CheckBudget
  <2>2. KEYWORDS + 1 \in 0 .. KEYWORDS + 1 /\ KEYWORDS + 1 \in 1 .. KEYWORDS + 1
    BY IngestionAssumption
  <2>3. /\ r \in Sweep
        /\ r.at = "keyword" /\ r.todo = sweep[s].todo /\ r.keyword = KEYWORDS + 1
    BY <1>1, <2>2 DEF Sweep
  <2> HIDE DEF r
  <2>4. Place(r)
    BY <1>2, <2>2, <2>3 DEF Place, WithGroup, WithKeyword
  <2> QED
    BY <1>1, <1>3, <1>4, <2>1, <2>3, <2>4, QuietMove
<1>6. CASE HasBudget(CountryOf[Group(s)])
  <2> DEFINE p == ProcessOf[s]
  <2>0. PICK c \in Countries : c = CountryOf[Group(s)]
    BY <1>2
  <2>1. Goes(s, "call")
    BY <1>6 DEF CheckBudget
  <2>2. sweep[s].keyword \in 1 .. KEYWORDS
    BY <1>1, IngestionAssumption DEF IInv, Place
  <2>3. PICK r \in Sweep : /\ sweep' = [sweep EXCEPT ![s] = r] /\ Place(r)
                           /\ r.at = "call" /\ r.todo = sweep[s].todo
    BY <1>2, <2>1, <2>2, GoesMoves
  <2>4. /\ sweep' \in [Sweeps -> Sweep]
        /\ \A t \in Sweeps : Place(sweep'[t])
        /\ sweep'[s] = r /\ \A t \in Sweeps : t # s => sweep'[t] = sweep[t]
    BY <2>3, SweepPlaces
  <2>5. OneSweep' /\ \A t \in Sweeps : Place(sweep[t])'
    BY <1>1, <2>3, <2>4, SweepGoesOn DEF Place
  <2>6. /\ MAX_CALLS \in Nat /\ faults \in Nat /\ faults' = faults
        /\ calls' = calls /\ recorded' = recorded
        /\ calls \in [Countries -> Nat] /\ recorded \in [Countries -> Nat]
    BY <1>1, IngestionAssumption DEF IInv, Types, ledger
  <2>7. \A d \in Countries : Cardinality(Recording(d)') = Cardinality(Recording(d))
    <3> SUFFICES ASSUME NEW d \in Countries
                 PROVE  Cardinality(Recording(d)') = Cardinality(Recording(d))
      OBVIOUS
    <3>1. ~Is(s, {"record", "recordFailure"}, d) /\ ~Is(s, {"record", "recordFailure"}, d)'
      BY <1>1, <2>3, <2>4 DEF Is
    <3>2. Recording(d)' \subseteq Recording(d)
      BY <1>1, <2>4, <2>5, <3>1, CountMoves DEF Recording
    <3>3. Recording(d) \subseteq Recording(d)'
      BY <1>1, <2>4, <2>5, <3>1, CountMoves DEF Recording
    <3>4. Recording(d)' = Recording(d)
      BY <3>2, <3>3
    <3> QED
      BY <3>4
  <2>8. Logged'
    BY <2>6, <2>7 DEF IInv, Logged
  <2>9. \A d \in Countries : d # c => Calling(d)' \subseteq Calling(d)
    <3> SUFFICES ASSUME NEW d \in Countries, d # c
                 PROVE  Calling(d)' \subseteq Calling(d)
      OBVIOUS
    <3>1. ~Is(s, {"call"}, d)'
      BY <2>0, <2>3, <2>4 DEF Is, Group
    <3> QED
      BY <1>1, <2>4, <2>5, <3>1, CountMoves DEF Calling
  <2>10. calls[c] + Cardinality(Calling(c)') <= MAX_CALLS + faults + Cardinality(Processes) - 1
    <3>1. ~Is(s, {"call"}, c) /\ Is(s, {"call"}, c)' /\ ~Is(s, {"record", "recordFailure"}, c)
      BY <1>1, <2>0, <2>3, <2>4 DEF Is, Group
    <3>2. p \notin Calling(c) /\ Cardinality(Calling(c)') = Cardinality(Calling(c)) + 1
      BY <1>1, <2>4, <2>5, <3>1, CountMoves DEF Calling
    <3>3. p \notin Recording(c) /\ Recording(c) \cap Calling(c) = {}
      BY <1>1 DEF IInv, OneSweep, Recording, Calling, At
    <3>4. Cardinality(Recording(c)) + Cardinality(Calling(c)) + 1 <= Cardinality(Processes)
      <4>1. Recording(c) \subseteq Processes /\ Calling(c) \subseteq Processes /\ p \in Processes
        BY IngestionAssumption DEF Recording, Calling, At
      <4> QED
        BY <3>2, <3>3, <4>1, TwoPartsAndOne
    <3>5. calls[c] <= recorded[c] + faults + Cardinality(Recording(c))
      BY <1>2 DEF IInv, Logged
    <3>6. recorded[c] < MAX_CALLS
      BY <1>6, <2>0 DEF HasBudget
    <3>7. /\ Cardinality(Recording(c)) \in Nat /\ Cardinality(Calling(c)) \in Nat
          /\ Cardinality(Calling(c)') \in Nat /\ Cardinality(Processes) \in Nat
          /\ calls[c] \in Nat /\ recorded[c] \in Nat
      BY <1>2, <2>6, CountIsNat DEF Recording, Calling
    <3> QED
      BY <2>6, <3>2, <3>4, <3>5, <3>6, <3>7
  <2>11. Bounded'
    <3> SUFFICES ASSUME NEW d \in Countries
                 PROVE  calls[d] + Cardinality(Calling(d)') <= MAX_CALLS + faults + Cardinality(Processes) - 1
      BY <2>6 DEF Bounded
    <3>1. CASE d = c
      BY <2>10, <3>1
    <3>2. CASE d # c
      <4>1. /\ Cardinality(Calling(d)') <= Cardinality(Calling(d))
            /\ Cardinality(Calling(d)') \in Nat /\ Cardinality(Calling(d)) \in Nat
            /\ Cardinality(Processes) \in Nat /\ calls[d] \in Nat
        BY <2>6, <2>9, <3>2, CountIsNat, FS_Subset DEF Calling
      <4> QED
        BY <2>6, <4>1 DEF IInv, Bounded
    <3> QED
      BY <3>1, <3>2
  <2>12. Types' /\ Queued'
    BY <1>1, <2>4, <2>6, BudgetStepTypes
  <2> QED
    BY <2>5, <2>8, <2>11, <2>12 DEF IInv
<1> QED
  BY <1>5, <1>6

(* The call goes out: from calling to recording.                           *)
LEMMA SearchKeeps ==
    ASSUME IInv, NEW s \in Sweeps, Search(s)
    PROVE  IInv'
<1>1. /\ UNCHANGED <<indexVars, table, recorded, sweeping, ask, faults>>
      /\ sweep[s].at = "call" /\ sweep[s].at \in WithGroup /\ sweep[s].at \in WithKeyword
  BY DEF Search, WithGroup, WithKeyword
<1>2. PICK c \in Countries : c = CountryOf[Group(s)]
  BY <1>1, GroupIsGroup
<1>3. PICK r \in Sweep : /\ sweep' = [sweep EXCEPT ![s] = r] /\ Place(r)
                         /\ r.at \in {"record", "recordFailure"} /\ r.todo = sweep[s].todo
  <2>1. sweep[s].todo # <<>> /\ sweep[s].keyword \in 1 .. KEYWORDS
    BY <1>1, GroupIsGroup
  <2>2. PICK at \in {"record", "recordFailure"} : Goes(s, at)
    BY DEF Search
  <2> QED
    BY <2>1, <2>2, GoesMoves
<1>4. /\ sweep' \in [Sweeps -> Sweep]
      /\ \A t \in Sweeps : Place(sweep'[t])
      /\ sweep'[s] = r /\ \A t \in Sweeps : t # s => sweep'[t] = sweep[t]
  BY <1>3, SweepPlaces
<1>5. OneSweep' /\ \A t \in Sweeps : Place(sweep[t])'
  BY <1>1, <1>3, <1>4, SweepGoesOn DEF Place
<1>6. /\ MAX_CALLS \in Nat /\ faults \in Nat /\ faults' = faults /\ recorded' = recorded
      /\ calls \in [Countries -> Nat] /\ recorded \in [Countries -> Nat]
      /\ calls' = [calls EXCEPT ![c] = @ + 1] /\ calls' \in [Countries -> Nat]
  BY <1>1, <1>2, IngestionAssumption DEF IInv, Types, Search
<1>7. /\ Cardinality(Calling(c)') = Cardinality(Calling(c)) - 1
      /\ Cardinality(Recording(c)') = Cardinality(Recording(c)) + 1
  <2>1. /\ Is(s, {"call"}, c) /\ ~Is(s, {"call"}, c)'
        /\ ~Is(s, {"record", "recordFailure"}, c) /\ Is(s, {"record", "recordFailure"}, c)'
    BY <1>1, <1>2, <1>3, <1>4 DEF Is, Group
  <2>2. Cardinality(Calling(c)') = Cardinality(Calling(c)) - 1
    BY <1>1, <1>4, <1>5, <2>1, CountMoves DEF Calling
  <2>3. Cardinality(Recording(c)') = Cardinality(Recording(c)) + 1
    BY <1>1, <1>4, <1>5, <2>1, CountMoves DEF Recording
  <2> QED
    BY <2>2, <2>3
<1>8. ASSUME NEW d \in Countries, d # c
      PROVE  Calling(d)' \subseteq Calling(d) /\ Recording(d) \subseteq Recording(d)'
  <2>1. ~Is(s, {"call"}, d)' /\ ~Is(s, {"record", "recordFailure"}, d)
    BY <1>1, <1>2, <1>3, <1>4 DEF Is, Group
  <2>2. Calling(d)' \subseteq Calling(d)
    BY <1>1, <1>4, <1>5, <2>1, CountMoves DEF Calling
  <2>3. Recording(d) \subseteq Recording(d)'
    BY <1>1, <1>4, <1>5, <2>1, CountMoves DEF Recording
  <2> QED
    BY <2>2, <2>3
<1>9. ASSUME NEW d \in Countries
      PROVE  /\ calls'[d] <= recorded[d] + faults + Cardinality(Recording(d)')
             /\ calls'[d] + Cardinality(Calling(d)') <= MAX_CALLS + faults + Cardinality(Processes) - 1
  <2>1. /\ Cardinality(Recording(d)) \in Nat /\ Cardinality(Calling(d)) \in Nat
        /\ Cardinality(Recording(d)') \in Nat /\ Cardinality(Calling(d)') \in Nat
        /\ IsFiniteSet(Recording(d)') /\ IsFiniteSet(Calling(d))
        /\ Cardinality(Processes) \in Nat /\ calls[d] \in Nat /\ recorded[d] \in Nat
    BY <1>6, CountIsNat DEF Recording, Calling
  <2>2. /\ calls[d] <= recorded[d] + faults + Cardinality(Recording(d))
        /\ calls[d] + Cardinality(Calling(d)) <= MAX_CALLS + faults + Cardinality(Processes) - 1
    BY DEF IInv, Logged, Bounded
  <2>3. CASE d = c
    <3>1. calls'[d] = calls[d] + 1
      BY <1>6, <2>3
    <3> QED
      BY <1>6, <1>7, <2>1, <2>2, <2>3, <3>1
  <2>4. CASE d # c
    <3>1. calls'[d] = calls[d]
      BY <1>6, <2>4
    <3>2. /\ Cardinality(Calling(d)') <= Cardinality(Calling(d))
          /\ Cardinality(Recording(d)) <= Cardinality(Recording(d)')
      BY <1>8, <2>1, <2>4, FS_Subset
    <3> QED
      BY <1>6, <2>1, <2>2, <3>1, <3>2
  <2> QED
    BY <2>3, <2>4
<1>10. Logged' /\ Bounded'
  BY <1>6, <1>9 DEF Logged, Bounded
<1>11. Types' /\ Queued'
  BY <1>1, <1>4, <1>6, BudgetStepTypes
<1> QED
  BY <1>5, <1>10, <1>11 DEF IInv

(* A record is written: one process less has one to write.                 *)
LEMMA RecordedKeeps ==
    ASSUME IInv, NEW s \in Sweeps, sweep[s].at \in {"record", "recordFailure"}, Recorded(s),
           NEW r \in Sweep, sweep' = [sweep EXCEPT ![s] = r], Place(r), r.at \in {"store", "keyword"},
           UNCHANGED <<indexVars, table, calls, sweeping, ask, faults>>
    PROVE  IInv'
<1>1. sweep[s].at # "idle" /\ sweep[s].at # "call" /\ sweep[s].at \in WithGroup
  BY DEF WithGroup
<1>2. PICK c \in Countries : c = CountryOf[Group(s)]
  BY <1>1, GroupIsGroup
<1>4. /\ sweep' \in [Sweeps -> Sweep]
      /\ \A t \in Sweeps : Place(sweep'[t])
      /\ sweep'[s] = r /\ \A t \in Sweeps : t # s => sweep'[t] = sweep[t]
  BY SweepPlaces
<1>5. OneSweep' /\ \A t \in Sweeps : Place(sweep[t])'
  BY <1>1, <1>4, SweepGoesOn DEF Place
<1>6. /\ MAX_CALLS \in Nat /\ faults \in Nat /\ faults' = faults /\ calls' = calls
      /\ calls \in [Countries -> Nat] /\ recorded \in [Countries -> Nat]
      /\ recorded' = [recorded EXCEPT ![c] = @ + 1] /\ recorded' \in [Countries -> Nat]
  BY <1>2, IngestionAssumption DEF IInv, Types, Recorded
<1>7. Cardinality(Recording(c)') = Cardinality(Recording(c)) - 1
  <2>1. Is(s, {"record", "recordFailure"}, c) /\ ~Is(s, {"record", "recordFailure"}, c)'
    BY <1>2, <1>4 DEF Is
  <2> QED
    BY <1>1, <1>4, <1>5, <2>1, CountMoves DEF Recording
<1>8. ASSUME NEW d \in Countries
      PROVE  Calling(d)' \subseteq Calling(d) /\ (d # c => Recording(d) \subseteq Recording(d)')
  <2>1. ~Is(s, {"call"}, d)' /\ (d # c => ~Is(s, {"record", "recordFailure"}, d))
    BY <1>2, <1>4 DEF Is
  <2>2. Calling(d)' \subseteq Calling(d)
    BY <1>1, <1>4, <1>5, <2>1, CountMoves DEF Calling
  <2>3. d # c => Recording(d) \subseteq Recording(d)'
    BY <1>1, <1>4, <1>5, <2>1, CountMoves DEF Recording
  <2> QED
    BY <2>2, <2>3
<1>9. ASSUME NEW d \in Countries
      PROVE  /\ calls[d] <= recorded'[d] + faults + Cardinality(Recording(d)')
             /\ calls[d] + Cardinality(Calling(d)') <= MAX_CALLS + faults + Cardinality(Processes) - 1
  <2>1. /\ Cardinality(Recording(d)) \in Nat /\ Cardinality(Calling(d)) \in Nat
        /\ Cardinality(Recording(d)') \in Nat /\ Cardinality(Calling(d)') \in Nat
        /\ IsFiniteSet(Recording(d)') /\ IsFiniteSet(Calling(d))
        /\ Cardinality(Processes) \in Nat /\ calls[d] \in Nat /\ recorded[d] \in Nat
    BY <1>6, CountIsNat DEF Recording, Calling
  <2>2. /\ calls[d] <= recorded[d] + faults + Cardinality(Recording(d))
        /\ calls[d] + Cardinality(Calling(d)) <= MAX_CALLS + faults + Cardinality(Processes) - 1
    BY DEF IInv, Logged, Bounded
  <2>3. Cardinality(Calling(d)') <= Cardinality(Calling(d))
    BY <1>8, <2>1, FS_Subset
  <2>4. CASE d = c
    <3>1. recorded'[d] = recorded[d] + 1
      BY <1>6, <2>4
    <3> QED
      BY <1>6, <1>7, <2>1, <2>2, <2>3, <2>4, <3>1
  <2>5. CASE d # c
    <3>1. recorded'[d] = recorded[d]
      BY <1>6, <2>5
    <3>2. Cardinality(Recording(d)) <= Cardinality(Recording(d)')
      BY <1>8, <2>1, <2>5, FS_Subset
    <3> QED
      BY <1>6, <2>1, <2>2, <2>3, <3>1, <3>2
  <2> QED
    BY <2>4, <2>5
<1>10. Logged' /\ Bounded'
  BY <1>6, <1>9 DEF Logged, Bounded
<1>11. Types' /\ Queued'
  BY <1>4, <1>6, BudgetStepTypes
<1> QED
  BY <1>5, <1>10, <1>11 DEF IInv

LEMMA RecordCallKeeps ==
    ASSUME IInv, NEW s \in Sweeps, RecordCall(s)
    PROVE  IInv'
<1>1. /\ UNCHANGED <<indexVars, table, calls, sweeping, ask>>
      /\ sweep[s].at = "record" /\ sweep[s].at \in WithGroup /\ sweep[s].at \in WithKeyword
  BY DEF RecordCall, WithGroup, WithKeyword
<1>2. sweep[s].todo # <<>> /\ sweep[s].keyword \in 1 .. KEYWORDS
  BY <1>1, GroupIsGroup
<1>3. CASE Recorded(s) /\ Goes(s, "store") /\ UNCHANGED faults
  <2>1. PICK r \in Sweep : /\ sweep' = [sweep EXCEPT ![s] = r] /\ Place(r)
                           /\ r.at = "store" /\ r.todo = sweep[s].todo
    BY <1>2, <1>3, GoesMoves
  <2> QED
    BY <1>1, <1>3, <2>1, RecordedKeeps
<1>4. CASE Fault /\ Goes(s, "recordFailure") /\ UNCHANGED recorded
  <2>1. PICK r \in Sweep : /\ sweep' = [sweep EXCEPT ![s] = r] /\ Place(r)
                           /\ r.at = "recordFailure" /\ r.todo = sweep[s].todo
    BY <1>2, <1>4, GoesMoves
  <2>2. IndexTypeOK' /\ Queued' /\ aged' \subseteq Groups
    BY <1>1 DEF IInv, Types, IndexTypeOK, Queued, indexVars, table
  <2>3. faults' \in 0 .. MaxFaults /\ faults' >= faults
    BY <1>4, FaultCounts DEF IInv
  <2> QED
    BY <1>1, <1>4, <2>1, <2>2, <2>3, QuietMove DEF ledger
<1> QED
  BY <1>3, <1>4 DEF RecordCall

LEMMA RecordFailureKeeps ==
    ASSUME IInv, NEW s \in Sweeps, RecordFailure(s)
    PROVE  IInv'
<1>1. /\ UNCHANGED <<indexVars, table, calls, sweeping, ask, faults>>
      /\ sweep[s].at = "recordFailure" /\ sweep[s].at \in WithKeyword
      /\ Recorded(s) /\ NextKeyword(s, FALSE)
  BY DEF RecordFailure, WithKeyword
<1>2. PICK r \in Sweep : /\ sweep' = [sweep EXCEPT ![s] = r] /\ Place(r)
                         /\ r.at = "keyword" /\ r.todo = sweep[s].todo
  BY <1>1, NextKeywordMoves
<1> QED
  BY <1>1, <1>2, RecordedKeeps

-----------------------------------------------------------------------------
(* What a call returned is stored.                                         *)
LEMMA StoreKeeps ==
    ASSUME IInv, NEW s \in Sweeps, Store(s)
    PROVE  IInv'
<1>1. /\ UNCHANGED <<jobs, enrich, table, ledger, sweeping, ask, faults>>
      /\ sweep[s].at = "store" /\ sweep[s].at \in WithGroup /\ sweep[s].at \in WithKeyword /\ s \in Writers
  BY IngestionAssumption DEF Store, WithGroup, WithKeyword
<1>2. Queued' /\ aged' \subseteq Groups /\ faults' \in 0 .. MaxFaults /\ faults' >= faults
  BY <1>1, NoFault DEF IInv, Types, Queued, table
<1>3. CASE NextKeyword(s, TRUE) /\ UNCHANGED upsert
  <2>1. PICK r \in Sweep : /\ sweep' = [sweep EXCEPT ![s] = r] /\ Place(r)
                           /\ r.at = "keyword" /\ r.todo = sweep[s].todo
    BY <1>1, <1>3, NextKeywordMoves
  <2>2. IndexTypeOK'
    BY <1>1, <1>3 DEF IInv, Types, IndexTypeOK
  <2> QED
    BY <1>1, <1>2, <2>1, <2>2, QuietMove
<1>4. CASE UpsertReads(s) /\ Goes(s, "upsert")
  <2>1. PICK r \in Sweep : /\ sweep' = [sweep EXCEPT ![s] = r] /\ Place(r)
                           /\ r.at = "upsert" /\ r.todo = sweep[s].todo
    BY <1>1, <1>4, GoesMoves, GroupIsGroup
  <2>2. IndexTypeOK'
    BY <1>1, <1>4, UpsertReadsTypes DEF IInv, Types
  <2> QED
    BY <1>1, <1>2, <2>1, <2>2, QuietMove
<1> QED
  BY <1>3, <1>4 DEF Store

LEMMA StoreSavesKeeps ==
    ASSUME IInv, NEW s \in Sweeps, StoreSaves(s)
    PROVE  IInv'
<1>1. /\ UNCHANGED <<enrich, table, ledger, sweeping, ask, faults>>
      /\ sweep[s].at = "upsert" /\ sweep[s].at \in WithKeyword /\ s \in Writers
      /\ UpsertSaves(s) \/ UpsertClears(s)
  BY IngestionAssumption DEF StoreSaves, WithKeyword
<1>2. Queued' /\ aged' \subseteq Groups /\ faults' \in 0 .. MaxFaults /\ faults' >= faults
  BY <1>1, NoFault DEF IInv, Types, Queued, table
<1>3. IndexTypeOK'
  BY <1>1, UpsertSavesTypes, UpsertClearsTypes DEF IInv, Types
<1>4. PICK r \in Sweep : sweep' = [sweep EXCEPT ![s] = r] /\ Place(r) /\ r.at \in {"keyword", "upsert"}
  <2>1. CASE NextKeyword(s, TRUE)
    BY <1>1, <2>1, NextKeywordMoves
  <2>2. CASE UNCHANGED sweep
    <3>1. sweep[s] \in Sweep /\ Place(sweep[s]) /\ sweep' = [sweep EXCEPT ![s] = sweep[s]]
      BY <2>2 DEF IInv, Types
    <3> QED
      BY <1>1, <3>1
  <2> QED
    BY <2>1, <2>2 DEF StoreSaves
<1> QED
  BY <1>1, <1>2, <1>3, <1>4, QuietMove

LEMMA StoreThrowsKeeps ==
    ASSUME IInv, NEW s \in Sweeps, StoreThrows(s)
    PROVE  IInv'
<1>1. /\ UNCHANGED <<jobs, enrich, table, ledger, sweeping, ask>>
      /\ sweep[s].at \in {"store", "upsert"} /\ sweep[s].at \in WithGroup /\ sweep[s].at \in WithKeyword
      /\ s \in Writers /\ upsert' = [upsert EXCEPT ![s] = NoUpsert] /\ Goes(s, "recordFailure")
      /\ Fault \/ UNCHANGED faults
  BY IngestionAssumption DEF StoreThrows, WithGroup, WithKeyword
<1>2. Queued' /\ aged' \subseteq Groups /\ faults' \in 0 .. MaxFaults /\ faults' >= faults
  BY <1>1, NoFault, FaultCounts DEF IInv, Types, Queued, table
<1>3. IndexTypeOK'
  BY <1>1, UpsertDroppedTypes DEF IInv, Types
<1>4. PICK r \in Sweep : /\ sweep' = [sweep EXCEPT ![s] = r] /\ Place(r)
                         /\ r.at = "recordFailure" /\ r.todo = sweep[s].todo
  BY <1>1, GoesMoves, GroupIsGroup
<1> QED
  BY <1>1, <1>2, <1>3, <1>4, QuietMove

-----------------------------------------------------------------------------
(* The end of a sweep.                                                     *)
LEMMA SweepEnrichesKeeps ==
    ASSUME IInv, NEW s \in Sweeps, SweepEnriches(s)
    PROVE  IInv'
<1>1. UNCHANGED <<table, ledger, ask, faults>> /\ s \in Enrichers /\ sweep[s].at \in {"enrich", "enriching"}
  BY IngestionAssumption DEF SweepEnriches
<1>2. Queued' /\ aged' \subseteq Groups /\ faults' \in 0 .. MaxFaults /\ faults' >= faults
      /\ faults' \in Nat /\ faults' = faults
  BY <1>1, NoFault DEF IInv, Types, Queued, table
<1>3. CASE EnrichFinds(s) /\ Goes(s, "enriching") /\ UNCHANGED sweeping
  <2>1. PICK r \in Sweep : /\ sweep' = [sweep EXCEPT ![s] = r] /\ Place(r)
                           /\ r.at = "enriching" /\ r.todo = sweep[s].todo
    BY <1>3, GoesMoves DEF WithGroup, WithKeyword
  <2>2. IndexTypeOK'
    BY <1>1, <1>3, EnrichFindsTypes DEF IInv, Types
  <2> QED
    BY <1>1, <1>2, <1>3, <2>1, <2>2, QuietMove
<1>4. CASE (\E j \in Postings : EnrichSaves(s, j)) /\ UNCHANGED <<sweep, sweeping>>
  <2>1. IndexTypeOK'
    BY <1>1, <1>4, EnrichSavesTypes DEF IInv, Types
  <2>2. OneSweep' /\ (\A t \in Sweeps : Place(sweep[t])') /\ Logged' /\ Bounded'
    BY <1>1, <1>2, <1>4, SweepsStay
  <2>3. Types'
    BY <1>1, <1>2, <1>4, <2>1 DEF IInv, Types, ledger
  <2> QED
    BY <1>2, <2>2, <2>3 DEF IInv
<1>5. CASE SweepEnds(s) /\ UNCHANGED indexVars
  <2>1. /\ sweep' \in [Sweeps -> Sweep] /\ sweeping' \subseteq Processes
        /\ OneSweep' /\ (\A t \in Sweeps : Place(sweep[t])') /\ Logged' /\ Bounded'
    BY <1>1, <1>2, <1>5, EndsUncounted
  <2>2. Types'
    BY <1>1, <1>2, <1>5, <2>1 DEF IInv, Types, IndexTypeOK, indexVars, ledger
  <2> QED
    BY <1>2, <2>1, <2>2 DEF IInv
<1> QED
  BY <1>3, <1>4, <1>5 DEF SweepEnriches

LEMMA SweepThrowsKeeps ==
    ASSUME IInv, NEW s \in Sweeps, SweepThrows(s)
    PROVE  IInv'
<1>1. /\ UNCHANGED <<table, ledger, ask>> /\ s \in Enrichers /\ sweep[s].at # "idle"
      /\ Fault /\ SweepEnds(s)
  BY IngestionAssumption DEF SweepThrows
<1>2. Queued' /\ aged' \subseteq Groups /\ faults' \in 0 .. MaxFaults
      /\ faults' \in Nat /\ faults' = faults + 1
  BY <1>1, FaultCounts DEF IInv, Types, Queued, table
<1>3. IndexTypeOK'
  <2>1. CASE UNCHANGED indexVars
    BY <2>1 DEF IInv, Types, IndexTypeOK, indexVars
  <2>2. CASE EnrichThrows(s)
    BY <1>1, <2>2, EnrichThrowsTypes DEF IInv, Types
  <2> QED
    BY <2>1, <2>2 DEF SweepThrows
<1>4. /\ sweep' \in [Sweeps -> Sweep] /\ sweeping' \subseteq Processes
      /\ OneSweep' /\ (\A t \in Sweeps : Place(sweep[t])') /\ Logged' /\ Bounded'
  BY <1>1, <1>2, EndsUncounted
<1>5. Types'
  BY <1>1, <1>2, <1>3, <1>4 DEF IInv, Types, ledger
<1> QED
  BY <1>2, <1>4, <1>5 DEF IInv

LEMMA CrashKeeps ==
    ASSUME IInv, NEW p \in Processes, Crash(p)
    PROVE  IInv'
<1>1. UNCHANGED <<jobs, table, ledger>> /\ Fault /\ sweeping' = sweeping \ {p}
  BY DEF Crash
<1>2. Queued' /\ aged' \subseteq Groups /\ faults' \in 0 .. MaxFaults
      /\ faults' \in Nat /\ faults' = faults + 1 /\ faults' >= faults
  BY <1>1, FaultCounts DEF IInv, Types, Queued, table
<1>3. NoSweep \in Sweep /\ Place(NoSweep) /\ NoSweep.at = "idle"
  BY IngestionAssumption DEF NoSweep, Sweep, Place, WithGroup, WithKeyword
<1>4. /\ sweep' \in [Sweeps -> Sweep]
      /\ \A s \in Sweeps : sweep'[s] = IF ProcessOf[s] = p THEN NoSweep ELSE sweep[s]
      /\ \A s \in Sweeps : Place(sweep'[s])
  BY <1>3 DEF Crash, IInv, Types
<1>5. OneSweep'
  BY <1>1, <1>3, <1>4 DEF IInv, OneSweep
<1>6. IndexTypeOK'
  <2>1. upsert' \in [Writers -> Upsert]
    BY IngestionAssumption DEF Crash, IInv, Types, IndexTypeOK, Upsert, NoUpsert
  <2>2. enrich' \in [Enrichers -> [Postings -> Texts \cup {None}]]
    BY DEF Crash, IInv, Types, IndexTypeOK, Nothing
  <2> QED
    BY <1>1, <2>1, <2>2 DEF IInv, Types, IndexTypeOK
<1>7. Types'
  <2>1. ask' \in [Asks -> Ask] /\ \A a \in Asks : ask'[a].at # "idle" => ask'[a].group \in Groups
    BY DEF Crash, Ask, NoAsk
  <2> QED
    BY <1>1, <1>2, <1>4, <1>6, <2>1 DEF IInv, Types, ledger
<1>8. ASSUME NEW c \in Countries
      PROVE  Calling(c)' \subseteq Calling(c) /\ Recording(c) \ {p} \subseteq Recording(c)'
  BY <1>3, <1>4 DEF Calling, Recording, At, Group
<1>9. Logged' /\ Bounded'
  BY <1>1, <1>2, <1>8, LedgerStays
<1>10. \A s \in Sweeps : Place(sweep[s])'
  BY <1>4 DEF Place
<1> QED
  BY <1>2, <1>5, <1>7, <1>9, <1>10 DEF IInv

LEMMA StutterKeeps == IInv /\ UNCHANGED vars => IInv'
<1> SUFFICES ASSUME IInv, UNCHANGED vars
             PROVE  IInv'
  OBVIOUS
<1>1. Types' /\ Queued'
  BY DEF IInv, Types, IndexTypeOK, Queued, vars, indexVars
<1>2. OneSweep' /\ (\A s \in Sweeps : Place(sweep[s])') /\ Logged' /\ Bounded'
  <2>1. UNCHANGED <<ledger, sweep, sweeping, faults>>
    BY DEF vars, ledger
  <2> QED
    BY <2>1, NoFault, SweepsStay DEF IInv
<1> QED
  BY <1>1, <1>2 DEF IInv

LEMMA StepKeeps == IInv /\ [Next]_vars => IInv'
BY AskReadsKeeps, AskSavesKeeps, AgeKeeps, MatchEnrichesKeeps, SweepStartsKeeps, TakeGroupKeeps,
   LeavesGroupKeeps, CheckBudgetKeeps, SearchKeeps, RecordCallKeeps, RecordFailureKeeps, StoreKeeps,
   StoreSavesKeeps, StoreThrowsKeeps, SweepEnrichesKeeps, SweepThrowsKeeps, CrashKeeps, StutterKeeps
   DEF Next, SweepStep

LEMMA InitIsSound == Init => IInv
<1> SUFFICES ASSUME Init
             PROVE  IInv
  OBVIOUS
<1>1. NoSweep \in Sweep /\ Place(NoSweep) /\ NoSweep.at = "idle"
  BY IngestionAssumption DEF NoSweep, Sweep, Place, WithGroup, WithKeyword
<1>2. sweep \in [Sweeps -> Sweep] /\ \A s \in Sweeps : sweep[s] = NoSweep
  BY <1>1 DEF Init
<1>3. Queued
  BY DEF Init, Queued, Statuses
<1>4. IndexTypeOK
  BY DEF Init, IndexInit, IndexTypeOK, Job, Absent, Upsert, NoUpsert, Nothing
<1>5. Types
  BY <1>2, <1>4, IngestionAssumption DEF Init, Types, Ask, NoAsk
<1>6. OneSweep /\ \A s \in Sweeps : Place(sweep[s])
  BY <1>1, <1>2 DEF Init, OneSweep
<1>7. ASSUME NEW c \in Countries
      PROVE  Calling(c) = {} /\ Cardinality(Recording(c)) \in Nat /\ Cardinality(Calling(c)) = 0
             /\ Cardinality(Processes) \in Nat \ {0}
  <2>1. Calling(c) = {}
    BY <1>1, <1>2 DEF Calling, At
  <2> QED
    BY <2>1, CountIsNat, FS_EmptySet DEF Recording
<1>8. Logged /\ Bounded
  BY <1>7, IngestionAssumption DEF Init, Logged, Bounded
<1> QED
  BY <1>3, <1>5, <1>6, <1>8 DEF IInv

LEMMA InvariantHolds == Spec => []IInv
BY InitIsSound, StepKeeps, PTL DEF Spec

-----------------------------------------------------------------------------
(* The variables have their types, the queue holds each pending group      *)
(* once, and a process has its flag set exactly while it sweeps            *)
(* (runSweepOnce's `finally`).                                             *)
THEOREM TypeCorrect == Spec => []TypeOK
<1>1. IInv => TypeOK
  <2> SUFFICES ASSUME IInv
               PROVE  TypeOK
    OBVIOUS
  <2>1. ASSUME NEW g \in Groups
        PROVE  cache[g] = "pending" <=> Cardinality({i \in DOMAIN pending : pending[i] = g}) = 1
    <3> DEFINE places == {i \in DOMAIN pending : pending[i] = g}
    <3>1. CASE cache[g] = "pending"
      <4>1. PICK i \in DOMAIN pending : pending[i] = g
        BY <3>1 DEF IInv, Queued
      <4>2. places = {i}
        BY <4>1 DEF IInv, Queued
      <4> QED
        BY <3>1, <4>2, FS_Singleton
    <3>2. CASE cache[g] # "pending"
      <4>1. places = {}
        BY <3>2 DEF IInv, Queued
      <4>2. Cardinality(places) = 0
        BY <4>1, FS_EmptySet
      <4> QED
        BY <3>2, <4>2
    <3> QED
      BY <3>1, <3>2
  <2>2. sweeping = {ProcessOf[s] : s \in {t \in Sweeps : sweep[t].at # "idle"}}
    BY DEF IInv, OneSweep
  <2> QED
    BY <2>1, <2>2 DEF IInv, Types, Queued, TypeOK, Ledger
<1> QED
  BY <1>1, InvariantHolds, PTL

(* Whatever several processes, errors and crashes do, the calls that went  *)
(* out with a country's key exceed its budget by no more than one per      *)
(* fault and one per further process (job-ingestion.service.ts:26).        *)
THEOREM BudgetIsKept == Spec => []BudgetHolds
<1>1. IInv => BudgetHolds
  <2> SUFFICES ASSUME IInv, NEW c \in Countries
               PROVE  calls[c] <= MAX_CALLS + faults + Cardinality(Processes) - 1
    BY DEF BudgetHolds
  <2>1. /\ Cardinality(Calling(c)) \in Nat /\ Cardinality(Processes) \in Nat
        /\ calls[c] \in Nat /\ faults \in Nat /\ MAX_CALLS \in Nat
    BY CountIsNat, IngestionAssumption DEF IInv, Types, Calling
  <2>2. calls[c] + Cardinality(Calling(c)) <= MAX_CALLS + faults + Cardinality(Processes) - 1
    BY DEF IInv, Bounded
  <2> QED
    BY <2>1, <2>2
<1> QED
  BY <1>1, InvariantHolds, PTL

(* No two sweeps of a process have one group before them                   *)
(* (job-ingestion.service.ts:34).                                          *)
THEOREM GroupsAreFetchedOnce == Spec => []NotFetchedTwice
<1>1. IInv => NotFetchedTwice
  <2> SUFFICES ASSUME IInv, NEW s \in Sweeps, NEW t \in Sweeps, s # t, ProcessOf[s] = ProcessOf[t],
                      NEW i \in DOMAIN sweep[s].todo, NEW k \in DOMAIN sweep[t].todo
               PROVE  FALSE
    BY DEF NotFetchedTwice
  <2>1. sweep[s].todo = <<>> \/ sweep[t].todo = <<>>
    BY DEF IInv, OneSweep, Place
  <2> QED
    BY <2>1
<1> QED
  BY <1>1, InvariantHolds, PTL
=============================================================================
