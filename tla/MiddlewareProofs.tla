-------------------------- MODULE MiddlewareProofs --------------------------
(* Proofs about the rate limit, the samples and the percentile.  They speak *)
(* of lists that are filtered, cut and sorted: the first sections prove what *)
(* these operators do to any list.                                          *)
EXTENDS Middleware, FiniteSetTheorems, SequenceTheorems, TLAPS

-----------------------------------------------------------------------------
(* Induction, with a set of numbers for the predicate. *)

LEMMA NatSetInduction ==
    ASSUME NEW S \in SUBSET Nat, 0 \in S, \A n \in Nat : n \in S => n + 1 \in S
    PROVE  Nat \subseteq S
<1> DEFINE T == Nat \ S
<1> SUFFICES ASSUME T # {} PROVE FALSE
  OBVIOUS
<1>1. PICK x \in T : \A y \in T : ~(<<y, x>> \in OpToRel(<, Nat))
  BY NatLessThanWellFounded, WFMin
<1>2. x \in Nat /\ x # 0 /\ x - 1 \in Nat
  OBVIOUS
<1>3. x - 1 \in T
  BY <1>2, (x - 1) + 1 = x
<1>4. <<x - 1, x>> \in OpToRel(<, Nat)
  BY <1>2 DEF OpToRel
<1> QED
  BY <1>1, <1>3, <1>4

-----------------------------------------------------------------------------
(* Filtering a list. *)

\* Places are counted without gaps and in order.
LEMMA PlacesCount ==
    ASSUME NEW I \in SUBSET Int, IsFiniteSet(I)
    PROVE  [i \in I |-> Place(I, i)] \in Bijection(I, 1..Cardinality(I))
<1> DEFINE f == [i \in I |-> Place(I, i)]
           UpTo(i) == {k \in I : k <= i}
<1>1. \A i \in I : IsFiniteSet(UpTo(i)) /\ Cardinality(UpTo(i)) \in 1..Cardinality(I)
  <2> SUFFICES ASSUME NEW i \in I
               PROVE  IsFiniteSet(UpTo(i)) /\ Cardinality(UpTo(i)) \in 1..Cardinality(I)
    OBVIOUS
  <2>1. UpTo(i) \in SUBSET I
    OBVIOUS
  <2>2. i \in UpTo(i)
    OBVIOUS
  <2>3. /\ IsFiniteSet(UpTo(i)) /\ Cardinality(UpTo(i)) <= Cardinality(I)
        /\ Cardinality(UpTo(i)) \in Nat /\ Cardinality(I) \in Nat
    BY <2>1, FS_Subset, FS_CardinalityType
  <2>4. Cardinality(UpTo(i)) # 0
    BY <2>2, <2>3, FS_EmptySet
  <2> QED
    BY <2>3, <2>4
<1>2. \A i, j \in I : i < j => Cardinality(UpTo(i)) < Cardinality(UpTo(j))
  <2> SUFFICES ASSUME NEW i \in I, NEW j \in I, i < j
               PROVE  Cardinality(UpTo(i)) < Cardinality(UpTo(j))
    OBVIOUS
  <2>1. UpTo(i) \subseteq UpTo(j) /\ j \in UpTo(j) /\ j \notin UpTo(i)
    <3>1. i \in Int /\ j \in Int /\ \A k \in I : k \in Int
      OBVIOUS
    <3>2. j \in UpTo(j) /\ j \notin UpTo(i)
      BY <3>1
    <3>3. \A k \in UpTo(i) : k \in I /\ k <= j
      BY <3>1
    <3> QED
      BY <3>2, <3>3
  <2>2. /\ Cardinality(UpTo(i)) <= Cardinality(UpTo(j))
        /\ Cardinality(UpTo(i)) # Cardinality(UpTo(j))
    BY <1>1, <2>1, FS_Subset
  <2> HIDE DEF UpTo
  <2> QED
    BY <1>1, <2>2
<1>3. f \in Injection(I, 1..Cardinality(I))
  <2> HIDE DEF UpTo
  <2>1. \A i \in I : f[i] = Cardinality(UpTo(i))
    BY DEF Place, UpTo
  <2>2. f \in [I -> 1..Cardinality(I)]
    BY <1>1, <2>1
  <2>3. \A i, j \in I : f[i] = f[j] => i = j
    BY <1>1, <1>2, <2>1
  <2> QED
    BY <2>2, <2>3 DEF Injection, IsInjective
<1>4. Cardinality(I) \in Nat /\ IsFiniteSet(1..Cardinality(I))
      /\ Cardinality(1..Cardinality(I)) = Cardinality(I)
  BY FS_CardinalityType, FS_Interval
<1>5. f \in Surjection(I, 1..Cardinality(I))
  <2> HIDE DEF f
  <2> QED
    BY <1>3, <1>4, FS_Injection
<1> QED
  BY <1>3, <1>5 DEF Bijection

\* What is kept of a list is the elements at the places to keep, each once.
LEMMA KeptList ==
    ASSUME NEW S, NEW list \in Seq(S), NEW I \in SUBSET DOMAIN list
    PROVE  /\ IsFiniteSet(I) /\ Cardinality(I) \in Nat
           /\ Kept(list, I) \in Seq(S)
           /\ Len(Kept(list, I)) = Cardinality(I)
           /\ \A i \in I : Place(I, i) \in 1..Cardinality(I) /\ Kept(list, I)[Place(I, i)] = list[i]
<1>1. DOMAIN list = 1..Len(list) /\ Len(list) \in Nat /\ list \in [1..Len(list) -> S]
  BY LenProperties
<1>2. IsFiniteSet(I) /\ Cardinality(I) \in Nat /\ I \in SUBSET Int
  <2>1. I \in SUBSET (1..Len(list)) /\ IsFiniteSet(1..Len(list))
    BY <1>1, FS_Interval
  <2>2. IsFiniteSet(I)
    BY <2>1, FS_Subset
  <2> QED
    BY <2>1, <2>2, FS_CardinalityType
<1> DEFINE f == [i \in I |-> Place(I, i)]
<1>3. f \in Bijection(I, 1..Cardinality(I))
  BY <1>2, PlacesCount
<1>4. /\ f \in [I -> 1..Cardinality(I)]
      /\ \A i, j \in I : f[i] = f[j] => i = j
      /\ \A n \in 1..Cardinality(I) : \E i \in I : f[i] = n
  <2> HIDE DEF f
  <2> QED
    BY <1>3 DEF Bijection, Injection, Surjection, IsInjective
<1>5. \A i \in I : f[i] = Place(I, i)
  OBVIOUS
<1> HIDE DEF f
<1> DEFINE At(n) == CHOOSE i \in I : Place(I, i) = n
<1>6. \A n \in 1..Cardinality(I) : At(n) \in I /\ Place(I, At(n)) = n
  BY <1>4, <1>5
<1>7. \A i \in I : At(Place(I, i)) = i
  BY <1>4, <1>5, <1>6
<1>8. Kept(list, I) = [n \in 1..Cardinality(I) |-> list[At(n)]]
  BY DEF Kept
<1> HIDE DEF At
<1>9. Kept(list, I) \in [1..Cardinality(I) -> S]
  BY <1>1, <1>6, <1>8
<1>10. Kept(list, I) \in Seq(S) /\ Len(Kept(list, I)) = Cardinality(I)
  BY <1>2, <1>9
<1>11. \A i \in I : Place(I, i) \in 1..Cardinality(I) /\ Kept(list, I)[Place(I, i)] = list[i]
  BY <1>4, <1>5, <1>7, <1>8
<1> QED
  BY <1>2, <1>10, <1>11

-----------------------------------------------------------------------------
(* Types. *)

\* A time the clock may have shown stays one while time passes and the clock is set back.
LEMMA RangesGrow ==
    ASSUME NEW r \in Int, NEW s \in Int, NEW r2 \in Int, NEW s2 \in Int, r <= r2, s <= s2
    PROVE  -s..r \subseteq -s2..r2 /\ 0..r \subseteq 0..r2
OBVIOUS

LEMMA TimesGrow ==
    ASSUME real \in Int, setback \in Int, real' \in Int, setback' \in Int,
           real <= real', setback <= setback'
    PROVE  /\ Times \subseteq Times'
           /\ \A s \in Seq(Times) : s \in Seq(Times')
           /\ \A s \in Seq(0..real) : s \in Seq(0..real')
<1>1. Times \subseteq Times' /\ 0..real \subseteq 0..real'
  BY RangesGrow DEF Times
<1>2. \A s \in Seq(Times) : s \in Seq(Times')
  BY <1>1, SeqMonotonic
<1>3. \A s \in Seq(0..real) : s \in Seq(0..real')
  BY <1>1, SeqMonotonic
<1> QED
  BY <1>1, <1>2, <1>3

LEMMA InitTypeOK == Init => TypeOK
BY LimitAssumption, SamplesAssumption, BoundsAssumption DEF Init, TypeOK, Times

\* The requests of the last minute, as a list and as places in the client's list.
FreshPlaces(c) == {i \in DOMAIN stamps[c] : now - stamps[c][i] < Window}

LEMMA FreshList ==
    ASSUME TypeOK, NEW c \in Client
    PROVE  /\ FreshPlaces(c) \in SUBSET DOMAIN stamps[c]
           /\ IsFiniteSet(FreshPlaces(c))
           /\ FreshStamps(c) \in Seq(Times)
           /\ Len(FreshStamps(c)) = Cardinality(FreshPlaces(c))
           /\ Len(FreshStamps(c)) <= Limit
           /\ \A i \in FreshPlaces(c) :
                /\ Place(FreshPlaces(c), i) \in 1..Cardinality(FreshPlaces(c))
                /\ FreshStamps(c)[Place(FreshPlaces(c), i)] = stamps[c][i]
<1>1. stamps[c] \in Seq(Times) /\ Len(stamps[c]) <= Limit
  BY DEF TypeOK
<1>2. FreshPlaces(c) \in SUBSET DOMAIN stamps[c]
  BY DEF FreshPlaces
<1>3. FreshStamps(c) = Kept(stamps[c], FreshPlaces(c))
  BY DEF FreshStamps, FreshPlaces
<1>4. Cardinality(FreshPlaces(c)) <= Limit
  <2>1. DOMAIN stamps[c] = 1..Len(stamps[c]) /\ Len(stamps[c]) \in Nat
    BY <1>1, LenProperties
  <2>2. IsFiniteSet(DOMAIN stamps[c]) /\ Cardinality(DOMAIN stamps[c]) = Len(stamps[c])
    BY <2>1, FS_Interval
  <2>3. Cardinality(FreshPlaces(c)) <= Cardinality(DOMAIN stamps[c])
    BY <1>2, <2>2, FS_Subset
  <2>4. Cardinality(FreshPlaces(c)) \in Nat
    BY <1>1, <1>2, KeptList
  <2> QED
    BY <1>1, <2>1, <2>2, <2>3, <2>4, LimitAssumption
<1> QED
  BY <1>1, <1>2, <1>3, <1>4, KeptList

\* The samples are cut to a number that is allowed.
LEMMA TrimmedList ==
    ASSUME NEW S, NEW samples \in Seq(S)
    PROVE  /\ Trimmed(samples) \in Seq(S)
           /\ Len(Trimmed(samples)) <= MaxSamples
           /\ Len(Trimmed(samples)) <= Len(samples)
           /\ Len(Trimmed(samples)) >= KeepSamples \/ Trimmed(samples) = samples
           /\ \A i \in 1..Len(Trimmed(samples)) :
                Trimmed(samples)[i] = samples[Len(samples) - Len(Trimmed(samples)) + i]
<1>1. Len(samples) \in Nat /\ \A i \in 1..Len(samples) : samples[i] \in S
  BY LenProperties, ElementOfSeq
<1>2. CASE Len(samples) > MaxSamples
  <2> DEFINE m == Len(samples) - KeepSamples + 1
  <2>1. Trimmed(samples) = SubSeq(samples, m, Len(samples))
    BY <1>2 DEF Trimmed
  <2>2. m \in 1..Len(samples) + 1 /\ m \in Int
    BY <1>1, <1>2, SamplesAssumption
  <2>3. \A i \in m..Len(samples) : samples[i] \in S
    BY <1>1, <2>2
  <2>4. /\ SubSeq(samples, m, Len(samples)) \in Seq(S)
        /\ Len(SubSeq(samples, m, Len(samples))) = IF m <= Len(samples) THEN Len(samples) - m + 1 ELSE 0
        /\ \A i \in 1..Len(samples) - m + 1 : SubSeq(samples, m, Len(samples))[i] = samples[m + i - 1]
    BY <1>1, <2>2, <2>3, SubSeqProperties
  <2>5. Len(Trimmed(samples)) = KeepSamples
    BY <1>1, <2>1, <2>2, <2>4, SamplesAssumption
  <2> QED
    BY <1>1, <1>2, <2>1, <2>2, <2>4, <2>5, SamplesAssumption
<1>3. CASE ~(Len(samples) > MaxSamples)
  BY <1>1, <1>3, SamplesAssumption DEF Trimmed
<1> QED
  BY <1>2, <1>3

LEMMA RecordTypes ==
    ASSUME TypeOK, NEW latency \in Times, NEW isError \in BOOLEAN,
           record_request(latency, isError)
    PROVE  /\ latencies' \in Seq(Times) /\ Len(latencies') <= MaxSamples
           /\ recorded' \in Seq(Times) /\ Len(recorded') <= MaxRecords
           /\ errors' \in 0..Len(recorded')
<1>1. Append(latencies, latency) \in Seq(Times)
  BY AppendProperties DEF TypeOK
<1>2. latencies' = Trimmed(Append(latencies, latency))
  BY DEF record_request
<1>3. recorded' \in Seq(Times) /\ Len(recorded') = Len(recorded) + 1 /\ Len(recorded) \in Nat
  BY AppendProperties, LenProperties DEF TypeOK, record_request
<1>4. latencies' \in Seq(Times) /\ Len(latencies') <= MaxSamples
  BY <1>1, <1>2, TrimmedList
<1>5. Len(recorded') <= MaxRecords
  BY <1>3, BoundsAssumption DEF record_request
<1>6. errors \in 0..Len(recorded) /\ errors' = IF isError THEN errors + 1 ELSE errors
  BY DEF TypeOK, record_request
<1>7. errors' \in 0..Len(recorded')
  BY <1>3, <1>6
<1> QED
  BY <1>3, <1>4, <1>5, <1>7

LEMMA NextTypeOK == TypeOK /\ [Next]_vars => TypeOK'
<1> SUFFICES ASSUME TypeOK, [Next]_vars PROVE TypeOK'
  OBVIOUS
<1>0. real \in Int /\ setback \in Nat /\ now \in Times /\ 0 \in Times /\ real \in 0..real
  BY BoundsAssumption DEF TypeOK, Times, now
<1>1. ASSUME TooLarge PROVE TypeOK'
  BY <1>0, <1>1, RecordTypes DEF TooLarge, TypeOK, Times
<1>2. ASSUME NEW c \in Client, Limited(c) PROVE TypeOK'
  <2>1. stamps' = [stamps EXCEPT ![c] = FreshStamps(c)]
    BY <1>2 DEF Limited
  <2>2. stamps' \in [Client -> Seq(Times)] /\ \A d \in Client : Len(stamps'[d]) <= Limit
    BY <2>1, FreshList DEF TypeOK
  <2> QED
    BY <1>0, <1>2, <2>2, RecordTypes DEF Limited, TypeOK, Times
<1>3. ASSUME NEW c \in Client, NEW r \in Req, Admit(r, c) PROVE TypeOK'
  <2>1. /\ Append(FreshStamps(c), now) \in Seq(Times)
        /\ Len(Append(FreshStamps(c), now)) = Len(FreshStamps(c)) + 1
    BY <1>0, FreshList, AppendProperties
  <2>2. Len(FreshStamps(c)) \in Nat /\ Len(FreshStamps(c)) < Limit
    BY <1>3, FreshList, LenProperties DEF Admit
  <2>3. stamps' \in [Client -> Seq(Times)] /\ \A d \in Client : Len(stamps'[d]) <= Limit
    BY <1>3, <2>1, <2>2, LimitAssumption DEF Admit, TypeOK
  <2>4. Append(admitted[c], real) \in Seq(0..real)
    BY <1>0, AppendProperties DEF TypeOK
  <2>5. admitted' \in [Client -> Seq(0..real)]
    BY <1>3, <2>4 DEF Admit, TypeOK
  <2>6. started' \in [Req -> Times \cup {NotStarted}]
    BY <1>0, <1>3 DEF Admit, TypeOK
  <2> QED
    BY <1>3, <2>3, <2>5, <2>6 DEF Admit, TypeOK, Times
<1>4. ASSUME NEW r \in Req, NEW isError \in BOOLEAN, Respond(r, isError) PROVE TypeOK'
  <2>1. started[r] \in Times
    BY <1>4 DEF Respond, TypeOK
  <2>2. now - started[r] \in Times
    BY <1>0, <2>1 DEF Times, now
  <2> QED
    BY <1>4, <2>2, RecordTypes DEF Respond, TypeOK, Times
<1>5. ASSUME NEW r \in Req, Escape(r) PROVE TypeOK'
  BY <1>5 DEF Escape, TypeOK, Times
<1>6. ASSUME Tick \/ ClockSetBack PROVE TypeOK'
  <2>1. /\ real' \in 0..MaxTime /\ setback' \in 0..MaxSetback
        /\ real <= real' /\ setback <= setback'
        /\ UNCHANGED <<stamps, admitted, started, latencies, recorded, errors>>
    BY <1>6, BoundsAssumption DEF Tick, ClockSetBack, TypeOK
  <2>2. /\ Times \subseteq Times'
        /\ \A s \in Seq(Times) : s \in Seq(Times')
        /\ \A s \in Seq(0..real) : s \in Seq(0..real')
    BY <1>0, <2>1, BoundsAssumption, TimesGrow
  <2>3. stamps' \in [Client -> Seq(Times')] /\ admitted' \in [Client -> Seq(0..real')]
    BY <2>1, <2>2 DEF TypeOK
  <2>4. started' \in [Req -> Times' \cup {NotStarted}]
    BY <2>1, <2>2 DEF TypeOK
  <2>5. latencies' \in Seq(Times') /\ recorded' \in Seq(Times')
    BY <2>1, <2>2 DEF TypeOK
  <2> QED
    BY <2>1, <2>3, <2>4, <2>5 DEF TypeOK
<1>7. CASE UNCHANGED vars
  BY <1>7 DEF vars, TypeOK, Times
<1> QED
  BY <1>1, <1>2, <1>3, <1>4, <1>5, <1>6, <1>7 DEF Next

\* Every time kept is one the clock may have shown, no list is longer than it may
\* be, and no more errors are counted than requests (main.py 207-222, metrics.py 18-30).
THEOREM MiddlewareTypeCorrect == Spec => []TypeOK
BY InitTypeOK, NextTypeOK, PTL DEF Spec

-----------------------------------------------------------------------------
(* The rate.  A list of stamps stands for the admissions it has not         *)
(* forgotten: each stamp for one of them, made at most a setback before it, *)
(* and what is forgotten is older than the window.                          *)

Links(c, list, D, f) ==
    /\ D \in SUBSET DOMAIN admitted[c]
    /\ f \in Bijection(D, DOMAIN list)
    /\ \A i \in D : list[f[i]] \in admitted[c][i] - setback .. admitted[c][i]
    /\ \A i \in DOMAIN admitted[c] \ D : admitted[c][i] <= real - Window

Linked(c, list) == \E D, f : Links(c, list, D, f)

AllLinked == \A c \in Client : Linked(c, stamps[c])

\* What a bijection is, without the names of the library.
LEMMA BijectionMeans ==
    ASSUME NEW S, NEW T, NEW f
    PROVE  f \in Bijection(S, T) <=>
             /\ f \in [S -> T]
             /\ \A x, y \in S : f[x] = f[y] => x = y
             /\ \A t \in T : \E x \in S : f[x] = t
BY DEF Bijection, Injection, Surjection, IsInjective

LEMMA ListNumbers ==
    ASSUME TypeOK, NEW c \in Client
    PROVE  /\ real \in Nat /\ setback \in Nat /\ now \in Int /\ now = real - setback
           /\ Len(stamps[c]) \in Nat /\ DOMAIN stamps[c] = 1..Len(stamps[c])
           /\ \A i \in DOMAIN stamps[c] : stamps[c][i] \in Int
           /\ Len(admitted[c]) \in Nat /\ DOMAIN admitted[c] = 1..Len(admitted[c])
           /\ \A i \in DOMAIN admitted[c] : admitted[c][i] \in 0..real
<1>1. stamps[c] \in Seq(Times) /\ admitted[c] \in Seq(0..real)
  BY DEF TypeOK
<1>2. real \in Nat /\ setback \in Nat
  BY BoundsAssumption DEF TypeOK
<1> QED
  BY <1>1, <1>2, LenProperties, ElementOfSeq DEF now, Times

\* Trimming forgets nothing of the window, though the clock may have been set back.
LEMMA TrimmingKeepsLink ==
    ASSUME TypeOK, NEW c \in Client, Linked(c, stamps[c])
    PROVE  Linked(c, FreshStamps(c))
<1>1. PICK D, f : Links(c, stamps[c], D, f)
  BY DEF Linked
<1> DEFINE P == FreshPlaces(c)
           E == {i \in D : f[i] \in P}
           g == [i \in E |-> Place(P, f[i])]
<1>2. /\ D \in SUBSET DOMAIN admitted[c]
      /\ f \in [D -> DOMAIN stamps[c]]
      /\ \A x, y \in D : f[x] = f[y] => x = y
      /\ \A t \in DOMAIN stamps[c] : \E x \in D : f[x] = t
      /\ \A i \in D : stamps[c][f[i]] \in admitted[c][i] - setback .. admitted[c][i]
      /\ \A i \in DOMAIN admitted[c] \ D : admitted[c][i] <= real - Window
  BY <1>1, BijectionMeans DEF Links
<1>3. /\ P \in SUBSET DOMAIN stamps[c] /\ IsFiniteSet(P)
      /\ DOMAIN FreshStamps(c) = 1..Cardinality(P)
      /\ \A i \in P : Place(P, i) \in 1..Cardinality(P) /\ FreshStamps(c)[Place(P, i)] = stamps[c][i]
  BY FreshList, LenProperties
<1>4. /\ \A i, j \in P : Place(P, i) = Place(P, j) => i = j
      /\ \A n \in 1..Cardinality(P) : \E i \in P : Place(P, i) = n
  <2>1. P \in SUBSET Int
    BY <1>3, ListNumbers
  <2> DEFINE h == [i \in P |-> Place(P, i)]
  <2>2. h \in Bijection(P, 1..Cardinality(P))
    BY <1>3, <2>1, PlacesCount
  <2>3. \A i \in P : h[i] = Place(P, i)
    OBVIOUS
  <2> HIDE DEF h, P
  <2>4. /\ \A i, j \in P : h[i] = h[j] => i = j
        /\ \A n \in 1..Cardinality(P) : \E i \in P : h[i] = n
    BY <2>2 DEF Bijection, Injection, Surjection, IsInjective
  <2> QED
    BY <2>3, <2>4
<1>5. g \in Bijection(E, DOMAIN FreshStamps(c))
  <2> HIDE DEF P
  <2>1. \A i \in E : g[i] = Place(P, f[i]) /\ f[i] \in P /\ i \in D
    OBVIOUS
  <2>2. g \in [E -> DOMAIN FreshStamps(c)]
    BY <1>3
  <2>3. \A i, j \in E : g[i] = g[j] => i = j
    BY <1>2, <1>4, <2>1
  <2>4. \A n \in DOMAIN FreshStamps(c) : \E i \in E : g[i] = n
    <3> SUFFICES ASSUME NEW n \in 1..Cardinality(P) PROVE \E i \in E : g[i] = n
      BY <1>3
    <3>1. PICK p \in P : Place(P, p) = n
      BY <1>4
    <3>2. PICK i \in D : f[i] = p
      BY <1>2, <1>3
    <3> QED
      BY <3>1, <3>2
  <2> HIDE DEF g, E
  <2> QED
    BY <2>2, <2>3, <2>4, BijectionMeans
<1>6. \A i \in E : FreshStamps(c)[g[i]] \in admitted[c][i] - setback .. admitted[c][i]
  <2> HIDE DEF P
  <2> QED
    BY <1>2, <1>3
<1>7. \A i \in DOMAIN admitted[c] \ E : admitted[c][i] <= real - Window
  <2> SUFFICES ASSUME NEW i \in DOMAIN admitted[c], i \notin E
               PROVE  admitted[c][i] <= real - Window
    OBVIOUS
  <2>1. CASE i \notin D
    BY <1>2, <2>1
  <2>2. CASE i \in D
    <3>1. f[i] \in DOMAIN stamps[c] /\ f[i] \notin P
      BY <1>2, <2>2
    <3>2. ~(now - stamps[c][f[i]] < Window)
      BY <3>1 DEF FreshPlaces
    <3>3. /\ stamps[c][f[i]] >= admitted[c][i] - setback
          /\ stamps[c][f[i]] \in Int /\ admitted[c][i] \in Int
          /\ real \in Int /\ setback \in Int /\ now = real - setback
      BY <1>2, <2>2, <3>1, ListNumbers
    <3> QED
      BY <3>2, <3>3, LimitAssumption
  <2> QED
    BY <2>1, <2>2
<1>8. Links(c, FreshStamps(c), E, g)
  <2>1. E \in SUBSET DOMAIN admitted[c]
    BY <1>2
  <2> HIDE DEF E, g
  <2> QED
    BY <1>5, <1>6, <1>7, <2>1 DEF Links
<1> HIDE DEF E, g
<1> QED
  BY <1>8 DEF Linked

\* At most Limit requests were admitted in the window that ends now.
LEMMA WindowBounded ==
    ASSUME TypeOK, NEW c \in Client, Linked(c, stamps[c])
    PROVE  AdmittedBefore(c, real) <= Limit
<1>1. PICK D, f : Links(c, stamps[c], D, f)
  BY DEF Linked
<1>2. /\ D \in SUBSET DOMAIN admitted[c] /\ f \in Bijection(D, DOMAIN stamps[c])
      /\ \A i \in DOMAIN admitted[c] \ D : admitted[c][i] <= real - Window
  BY <1>1 DEF Links
<1>3. IsFiniteSet(D) /\ Cardinality(D) = Len(stamps[c]) /\ Len(stamps[c]) <= Limit
  <2>1. IsFiniteSet(DOMAIN stamps[c]) /\ Cardinality(DOMAIN stamps[c]) = Len(stamps[c])
    <3>1. Len(stamps[c]) \in Nat /\ DOMAIN stamps[c] = 1..Len(stamps[c])
      BY ListNumbers
    <3>2. \A n \in Nat : IsFiniteSet(1..n) /\ Cardinality(1..n) = n
      BY FS_Interval
    <3> QED
      BY <3>1, <3>2
  <2>2. f \in Injection(D, DOMAIN stamps[c]) /\ f \in Surjection(D, DOMAIN stamps[c])
    BY <1>2 DEF Bijection
  <2>3. IsFiniteSet(D) /\ Cardinality(D) = Cardinality(DOMAIN stamps[c])
    BY <2>1, <2>2, FS_Injection
  <2> QED
    BY <2>1, <2>3 DEF TypeOK
<1> DEFINE Recent == {i \in DOMAIN admitted[c] : admitted[c][i] \in real - Window + 1 .. real}
<1>4. Recent \in SUBSET D
  <2> SUFFICES ASSUME NEW i \in Recent PROVE i \in D
    OBVIOUS
  <2>1. i \in DOMAIN admitted[c] /\ admitted[c][i] > real - Window
    BY ListNumbers, LimitAssumption
  <2> QED
    BY <1>2, <2>1, ListNumbers, LimitAssumption
<1>5. Cardinality(Recent) <= Cardinality(D) /\ Cardinality(Recent) \in Nat
  BY <1>3, <1>4, FS_Subset, FS_CardinalityType
<1> QED
  BY <1>3, <1>5, ListNumbers, LimitAssumption DEF AdmittedBefore

\* Every step keeps each stamp linked to its admission.
LEMMA InitLinked == Init => AllLinked
<1> SUFFICES ASSUME Init, NEW c \in Client PROVE Linked(c, stamps[c])
  BY DEF AllLinked
<1>1. stamps[c] = <<>> /\ admitted[c] = <<>>
  BY DEF Init
<1>2. DOMAIN stamps[c] = {} /\ DOMAIN admitted[c] = {}
  BY <1>1
<1> DEFINE none == [i \in {} |-> i]
<1>3. none \in Bijection({}, {})
  BY DEF Bijection, Injection, Surjection, IsInjective
<1>4. Links(c, stamps[c], {}, none)
  BY <1>2, <1>3 DEF Links
<1> QED
  BY <1>4 DEF Linked

\* A step that changes neither a client's lists nor the clock.
LEMMA LinkUntouched ==
    ASSUME NEW c, NEW list, Linked(c, list),
           UNCHANGED <<real, setback>>, admitted'[c] = admitted[c], stamps'[c] = list
    PROVE  Linked(c, stamps[c])'
BY DEF Linked, Links

\* Time passes, or the clock is set back.
LEMMA LinkOverTime ==
    ASSUME TypeOK, NEW c \in Client, Linked(c, stamps[c]), Tick \/ ClockSetBack
    PROVE  Linked(c, stamps[c])'
<1>1. PICK D, f : Links(c, stamps[c], D, f)
  BY DEF Linked
<1>2. /\ UNCHANGED <<stamps, admitted>>
      /\ real' \in Int /\ setback' \in Int /\ real' >= real /\ setback' >= setback
  BY BoundsAssumption DEF Tick, ClockSetBack, TypeOK
<1>3. \A i \in D : stamps'[c][f[i]] \in admitted'[c][i] - setback' .. admitted'[c][i]
  <2> SUFFICES ASSUME NEW i \in D
               PROVE  stamps'[c][f[i]] \in admitted'[c][i] - setback' .. admitted'[c][i]
    OBVIOUS
  <2>1. /\ i \in DOMAIN admitted[c] /\ f[i] \in DOMAIN stamps[c]
        /\ stamps[c][f[i]] \in admitted[c][i] - setback .. admitted[c][i]
    BY <1>1, BijectionMeans DEF Links
  <2>2. admitted[c][i] \in Int /\ setback \in Int
    BY <2>1, ListNumbers
  <2> QED
    BY <1>2, <2>1, <2>2
<1>4. \A i \in DOMAIN admitted'[c] \ D : admitted'[c][i] <= real' - Window
  <2> SUFFICES ASSUME NEW i \in DOMAIN admitted[c] \ D
               PROVE  admitted[c][i] <= real' - Window
    BY <1>2
  <2>1. admitted[c][i] <= real - Window /\ admitted[c][i] \in Int /\ real \in Int
    BY <1>1, ListNumbers DEF Links
  <2> QED
    BY <1>2, <2>1, LimitAssumption
<1>5. Links(c, stamps[c], D, f)'
  BY <1>1, <1>2, <1>3, <1>4 DEF Links
<1> QED
  BY <1>5 DEF Linked

\* A request is admitted: the lists both grow by one.
LEMMA LinkWhenAdmitted ==
    ASSUME TypeOK, NEW c \in Client, Linked(c, stamps[c]), NEW r \in Req, Admit(r, c)
    PROVE  Linked(c, stamps[c])'
<1> DEFINE list == FreshStamps(c)
           n == Len(admitted[c])
           m == Len(FreshStamps(c))
<1>1. PICK D, f : Links(c, list, D, f)
  BY TrimmingKeepsLink DEF Linked
<1>2. /\ stamps'[c] = Append(list, now) /\ admitted'[c] = Append(admitted[c], real)
      /\ UNCHANGED <<real, setback>>
  BY DEF Admit, TypeOK
<1>3. list \in Seq(Times) /\ admitted[c] \in Seq(0..real) /\ now \in Times /\ real \in 0..real
  BY FreshList, ListNumbers DEF TypeOK, Times
<1>4. /\ m \in Nat /\ DOMAIN list = 1..m /\ DOMAIN stamps'[c] = 1..m + 1
      /\ \A i \in 1..m : stamps'[c][i] = list[i]
      /\ stamps'[c][m + 1] = now
  BY <1>2, <1>3, AppendProperties, LenProperties
<1>5. /\ n \in Nat /\ DOMAIN admitted[c] = 1..n /\ DOMAIN admitted'[c] = 1..n + 1
      /\ \A i \in 1..n : admitted'[c][i] = admitted[c][i]
      /\ admitted'[c][n + 1] = real
  BY <1>2, <1>3, AppendProperties, LenProperties
<1> HIDE DEF n, m, list
<1> DEFINE E == D \cup {n + 1}
           g == [i \in E |-> IF i = n + 1 THEN m + 1 ELSE f[i]]
<1>6. /\ D \in SUBSET 1..n /\ f \in [D -> 1..m]
      /\ \A x, y \in D : f[x] = f[y] => x = y
      /\ \A t \in 1..m : \E x \in D : f[x] = t
      /\ \A i \in D : list[f[i]] \in admitted[c][i] - setback .. admitted[c][i]
      /\ \A i \in 1..n \ D : admitted[c][i] <= real - Window
  <2>1. f \in Bijection(D, 1..m) /\ D \in SUBSET 1..n
    BY <1>1, <1>4, <1>5 DEF Links
  <2>2. /\ f \in [D -> 1..m]
        /\ \A x, y \in D : f[x] = f[y] => x = y
        /\ \A t \in 1..m : \E x \in D : f[x] = t
    BY <2>1 DEF Bijection, Injection, Surjection, IsInjective
  <2>3. /\ \A i \in D : list[f[i]] \in admitted[c][i] - setback .. admitted[c][i]
        /\ \A i \in 1..n \ D : admitted[c][i] <= real - Window
    BY <1>1, <1>5 DEF Links
  <2> QED
    BY <2>1, <2>2, <2>3
<1>7. /\ n + 1 \notin D /\ g[n + 1] = m + 1
      /\ \A i \in D : g[i] = f[i] /\ g[i] \in 1..m /\ i \in 1..n
  BY <1>4, <1>5, <1>6
<1>8. g \in Bijection(E, DOMAIN stamps'[c])
  <2>1. g \in [E -> 1..m + 1]
    BY <1>4, <1>5, <1>6
  <2> HIDE DEF g
  <2>2. \A x, y \in E : g[x] = g[y] => x = y
    BY <1>4, <1>6, <1>7
  <2>3. \A t \in 1..m + 1 : \E x \in E : g[x] = t
    <3> SUFFICES ASSUME NEW t \in 1..m + 1 PROVE \E x \in E : g[x] = t
      OBVIOUS
    <3>1. CASE t = m + 1
      BY <1>7, <3>1
    <3>2. CASE t \in 1..m
      <4>1. PICK x \in D : f[x] = t
        BY <1>6, <3>2
      <4> QED
        BY <1>7, <4>1
    <3> QED
      BY <1>4, <3>1, <3>2
  <2> HIDE DEF E
  <2> QED
    BY <1>4, <2>1, <2>2, <2>3, BijectionMeans
<1>9. \A i \in E : stamps'[c][g[i]] \in admitted'[c][i] - setback' .. admitted'[c][i]
  <2> SUFFICES ASSUME NEW i \in E
               PROVE  stamps'[c][g[i]] \in admitted'[c][i] - setback .. admitted'[c][i]
    BY <1>2
  <2>1. CASE i = n + 1
    BY <1>4, <1>5, <1>7, <2>1, ListNumbers
  <2>2. CASE i \in D
    BY <1>4, <1>5, <1>6, <1>7, <2>2
  <2> QED
    BY <2>1, <2>2
<1>10. \A i \in DOMAIN admitted'[c] \ E : admitted'[c][i] <= real' - Window
  BY <1>2, <1>5, <1>6
<1>11. E \in SUBSET DOMAIN admitted'[c]
  BY <1>5, <1>6
<1> HIDE DEF E, g
<1>12. PICK F, h : F = E /\ h = g
  OBVIOUS
<1>13. Links(c, stamps[c], F, h)'
  BY <1>8, <1>9, <1>10, <1>11, <1>12 DEF Links
<1> QED
  BY <1>13 DEF Linked

LEMMA NextLinked == TypeOK /\ AllLinked /\ [Next]_vars => AllLinked'
<1> SUFFICES ASSUME TypeOK, AllLinked, [Next]_vars, NEW c \in Client
             PROVE  Linked(c, stamps[c])'
  BY DEF AllLinked
<1>0. Linked(c, stamps[c])
  BY DEF AllLinked
<1>1. ASSUME UNCHANGED <<real, setback>>, admitted'[c] = admitted[c], stamps'[c] = stamps[c]
      PROVE  Linked(c, stamps[c])'
  BY <1>0, <1>1, LinkUntouched
<1>2. ASSUME NEW d \in Client, Limited(d) PROVE Linked(c, stamps[c])'
  <2>1. CASE d = c
    <3>1. stamps'[c] = FreshStamps(c) /\ UNCHANGED <<real, setback, admitted>>
      BY <1>2, <2>1 DEF Limited, TypeOK
    <3> QED
      BY <1>0, <3>1, TrimmingKeepsLink, LinkUntouched
  <2>2. CASE d # c
    BY <1>1, <1>2, <2>2 DEF Limited, TypeOK
  <2> QED
    BY <2>1, <2>2
<1>3. ASSUME NEW d \in Client, NEW r \in Req, Admit(r, d) PROVE Linked(c, stamps[c])'
  <2>1. CASE d = c
    BY <1>0, <1>3, <2>1, LinkWhenAdmitted
  <2>2. CASE d # c
    BY <1>1, <1>3, <2>2 DEF Admit, TypeOK
  <2> QED
    BY <2>1, <2>2
<1>4. ASSUME \/ TooLarge \/ UNCHANGED vars
             \/ \E r \in Req : Escape(r) \/ \E isError \in BOOLEAN : Respond(r, isError)
      PROVE  Linked(c, stamps[c])'
  BY <1>1, <1>4 DEF TooLarge, Escape, Respond, vars
<1>5. ASSUME Tick \/ ClockSetBack PROVE Linked(c, stamps[c])'
  BY <1>0, <1>5, LinkOverTime
<1> QED
  BY <1>2, <1>3, <1>4, <1>5 DEF Next

LEMMA WindowNowBounded ==
    TypeOK /\ AllLinked => \A c \in Client : AdmittedBefore(c, real) <= Limit
BY WindowBounded DEF AllLinked

LEMMA WindowNowBoundedNext ==
    (TypeOK /\ AllLinked => \A c \in Client : AdmittedBefore(c, real) <= Limit)'
BY WindowNowBounded, PTL

LEMMA InitRateBounded == Init => RateBounded
<1> SUFFICES ASSUME Init, NEW c \in Client, NEW t \in 0..real PROVE AdmittedBefore(c, t) <= Limit
  BY DEF RateBounded
<1>1. DOMAIN admitted[c] = {}
  BY DEF Init
<1>2. {i \in DOMAIN admitted[c] : admitted[c][i] \in t - Window + 1 .. t} = {}
  BY <1>1
<1> QED
  BY <1>2, FS_EmptySet, LimitAssumption DEF AdmittedBefore

\* A window that ended earlier gets no admission any more.
LEMMA NextRateBounded == TypeOK /\ AllLinked /\ RateBounded /\ [Next]_vars => RateBounded'
<1> SUFFICES ASSUME TypeOK, AllLinked, RateBounded, [Next]_vars,
                    NEW c \in Client, NEW t \in 0..real'
             PROVE  AdmittedBefore(c, t)' <= Limit
  BY DEF RateBounded
<1>1. real \in Nat /\ real' \in Nat
  BY NextTypeOK DEF TypeOK
<1>2. CASE t = real'
  BY <1>2, NextTypeOK, NextLinked, WindowNowBoundedNext
<1>3. CASE t # real'
  <2>1. \/ real' = real + 1 /\ admitted' = admitted
        \/ real' = real /\ admitted'[c] \in {admitted[c], Append(admitted[c], real)}
    <3>1. ASSUME NEW d \in Client, NEW r \in Req, Admit(r, d)
          PROVE  real' = real /\ admitted'[c] \in {admitted[c], Append(admitted[c], real)}
      BY <3>1 DEF Admit, TypeOK
    <3>2. ASSUME NEW d \in Client, Limited(d) PROVE real' = real /\ admitted' = admitted
      BY <3>2 DEF Limited
    <3>3. ASSUME NEW r \in Req, NEW isError \in BOOLEAN, Escape(r) \/ Respond(r, isError)
          PROVE  real' = real /\ admitted' = admitted
      BY <3>3 DEF Escape, Respond
    <3>4. CASE TooLarge \/ ClockSetBack \/ UNCHANGED vars
      BY <3>4 DEF TooLarge, ClockSetBack, vars
    <3>5. CASE Tick
      BY <3>5 DEF Tick
    <3> QED
      BY <3>1, <3>2, <3>3, <3>4, <3>5 DEF Next
  <2>2. t \in 0..real /\ (real' = real => t < real)
    BY <1>1, <1>3, <2>1
  <2> DEFINE n == Len(admitted[c])
             Before == {i \in DOMAIN admitted[c] : admitted[c][i] \in t - Window + 1 .. t}
             After == {i \in DOMAIN admitted'[c] : admitted'[c][i] \in t - Window + 1 .. t}
  <2>3. n \in Nat /\ DOMAIN admitted[c] = 1..n /\ admitted[c] \in Seq(0..real) /\ real \in 0..real
    BY <1>1, ListNumbers DEF TypeOK
  <2>4. CASE admitted'[c] = admitted[c]
    <3>1. After = Before
      BY <2>4
    <3> QED
      BY <2>2, <3>1 DEF RateBounded, AdmittedBefore
  <2>5. CASE real' = real /\ admitted'[c] = Append(admitted[c], real)
    <3>1. /\ DOMAIN admitted'[c] = 1..n + 1 /\ admitted'[c][n + 1] = real
          /\ \A i \in 1..n : admitted'[c][i] = admitted[c][i]
      BY <2>3, <2>5, AppendProperties, LenProperties
    <3>2. admitted'[c][n + 1] \notin t - Window + 1 .. t
      BY <1>1, <2>2, <2>5, <3>1, LimitAssumption
    <3> HIDE DEF n
    <3>3. After = Before
      BY <2>3, <3>1, <3>2
    <3> QED
      BY <2>2, <3>3 DEF RateBounded, AdmittedBefore
  <2> QED
    BY <2>1, <2>4, <2>5
<1> QED
  BY <1>2, <1>3

\* In no minute of real time does a client get more than REQUESTS_PER_MINUTE
\* requests through, however its requests interleave with others' and even when
\* the clock is set back (rate_limit_middleware, main.py 207-222).
THEOREM MiddlewareRateBounded == Spec => []RateBounded
<1>1. Init => TypeOK /\ AllLinked /\ RateBounded
  BY InitTypeOK, InitLinked, InitRateBounded
<1>2. TypeOK /\ AllLinked /\ RateBounded /\ [Next]_vars => (TypeOK /\ AllLinked /\ RateBounded)'
  BY NextTypeOK, NextLinked, NextRateBounded
<1> QED
  BY <1>1, <1>2, PTL DEF Spec

\* While the clock has never been set back, the list holds what was admitted in
\* the last minute and nothing else.
LEMMA LinkedCounts ==
    ASSUME TypeOK, NEW c \in Client, Linked(c, stamps[c]), setback = 0
    PROVE  Len(FreshStamps(c)) = AdmittedBefore(c, real)
<1>1. PICK D, f : Links(c, stamps[c], D, f)
  BY DEF Linked
<1> DEFINE P == FreshPlaces(c)
           E == {i \in DOMAIN admitted[c] : admitted[c][i] \in real - Window + 1 .. real}
           g == [i \in E |-> f[i]]
<1>2. /\ D \in SUBSET DOMAIN admitted[c] /\ f \in Bijection(D, DOMAIN stamps[c])
      /\ \A i \in D : stamps[c][f[i]] \in admitted[c][i] - setback .. admitted[c][i]
      /\ \A i \in DOMAIN admitted[c] \ D : admitted[c][i] <= real - Window
  BY <1>1 DEF Links
<1>3. /\ f \in [D -> DOMAIN stamps[c]]
      /\ \A x, y \in D : f[x] = f[y] => x = y
      /\ \A t \in DOMAIN stamps[c] : \E x \in D : f[x] = t
  BY <1>2 DEF Bijection, Injection, Surjection, IsInjective
<1>4. \A i \in D : stamps[c][f[i]] = admitted[c][i]
  BY <1>2, ListNumbers
<1>5. \A i \in E : i \in D
  BY <1>2, ListNumbers, LimitAssumption
<1>6. \A i \in D : i \in E <=> f[i] \in P
  <2> SUFFICES ASSUME NEW i \in D PROVE i \in E <=> f[i] \in P
    OBVIOUS
  <2>1. i \in DOMAIN admitted[c] /\ f[i] \in DOMAIN stamps[c] /\ stamps[c][f[i]] = admitted[c][i]
    BY <1>2, <1>3, <1>4
  <2>2. admitted[c][i] \in 0..real /\ real \in Int /\ now = real
    BY <2>1, ListNumbers
  <2>3. f[i] \in P <=> now - stamps[c][f[i]] < Window
    BY <2>1 DEF FreshPlaces
  <2> QED
    BY <2>1, <2>2, <2>3, LimitAssumption
<1> HIDE DEF E, P
<1>7. P \in SUBSET DOMAIN stamps[c] /\ IsFiniteSet(P) /\ Len(FreshStamps(c)) = Cardinality(P)
  BY FreshList DEF P
<1>8. g \in Bijection(E, P)
  <2>1. \A i \in E : g[i] = f[i] /\ i \in D /\ g[i] \in P
    BY <1>5, <1>6
  <2>2. \A p \in P : \E i \in E : g[i] = p
    BY <1>3, <1>6, <1>7
  <2>3. g \in [E -> P]
    BY <2>1
  <2>4. \A x, y \in E : g[x] = g[y] => x = y
    BY <1>3, <2>1
  <2> HIDE DEF g
  <2> QED
    BY <2>2, <2>3, <2>4 DEF Bijection, Injection, Surjection, IsInjective
<1>9. Cardinality(E) = Cardinality(P)
  <2>1. g \in Injection(E, P) /\ g \in Surjection(E, P)
    BY <1>8 DEF Bijection
  <2> HIDE DEF g
  <2> QED
    BY <1>7, <2>1, FS_Injection
<1> QED
  BY <1>7, <1>9 DEF AdmittedBefore, E

\* A client is refused only for requests it was granted within the last minute
\* (rate_limit_middleware, main.py 210-218), unless the clock was set back.
THEOREM MiddlewareRefusedForCause == Spec => []RefusedForCause
<1>1. Init => TypeOK /\ AllLinked
  BY InitTypeOK, InitLinked
<1>2. TypeOK /\ AllLinked /\ [Next]_vars => (TypeOK /\ AllLinked)'
  BY NextTypeOK, NextLinked
<1>3. TypeOK /\ AllLinked => RefusedForCause
  BY LinkedCounts DEF AllLinked, RefusedForCause
<1> QED
  BY <1>1, <1>2, <1>3, PTL DEF Spec

-----------------------------------------------------------------------------
(* The samples. *)

\* A suffix, element by element.
LEMMA SuffixMeans ==
    ASSUME NEW S, NEW s \in Seq(S), NEW t \in Seq(S)
    PROVE  IsSuffix(s, t) <=>
             /\ Len(s) <= Len(t)
             /\ \A i \in 1..Len(s) : s[i] = t[Len(t) - Len(s) + i]
<1> DEFINE m == Len(s)
           n == Len(t)
           u == Reverse(s)
           v == Reverse(t)
<1>1. /\ m \in Nat /\ n \in Nat
      /\ \A i \in 1..m : s[i] \in S
      /\ \A i \in 1..n : t[i] \in S
  BY LenProperties, ElementOfSeq
<1> HIDE DEF m, n
<1>2. u = [i \in 1..m |-> s[(m - i) + 1]] /\ v = [i \in 1..n |-> t[(n - i) + 1]]
  BY DEF Reverse, m, n
<1>3. \A i \in 1..m : (m - i) + 1 \in 1..m
  BY <1>1
<1>4. \A i \in 1..n : (n - i) + 1 \in 1..n
  BY <1>1
<1>5. u \in [1..m -> S] /\ v \in [1..n -> S]
  BY <1>1, <1>2, <1>3, <1>4
<1>6. u \in Seq(S) /\ v \in Seq(S) /\ Len(u) = m /\ Len(v) = n
  BY <1>1, <1>5
<1>7. IsSuffix(s, t) <=> m <= n /\ SubSeq(u, 1, m) = SubSeq(v, 1, m)
  BY <1>6 DEF IsSuffix, IsPrefix
<1> SUFFICES ASSUME m <= n
             PROVE  SubSeq(u, 1, m) = SubSeq(v, 1, m) <=> \A i \in 1..m : s[i] = t[n - m + i]
  BY <1>7 DEF m, n
<1>8. /\ \A i \in 1..m : u[i] = s[(m - i) + 1] /\ u[i] \in S
      /\ \A i \in 1..m : v[i] = t[(n - i) + 1] /\ v[i] \in S
  BY <1>1, <1>2, <1>5
<1> HIDE DEF u, v
<1>9. /\ SubSeq(u, 1, m) \in Seq(S) /\ Len(SubSeq(u, 1, m)) = m
      /\ \A i \in 1..m : SubSeq(u, 1, m)[i] = u[i]
  BY <1>1, <1>8, SubSeqProperties
<1>10. /\ SubSeq(v, 1, m) \in Seq(S) /\ Len(SubSeq(v, 1, m)) = m
       /\ \A i \in 1..m : SubSeq(v, 1, m)[i] = v[i]
  BY <1>1, <1>8, SubSeqProperties
<1>11. SubSeq(u, 1, m) = SubSeq(v, 1, m) <=> \A i \in 1..m : u[i] = v[i]
  BY <1>9, <1>10, SeqEqual
<1>12. ASSUME \A i \in 1..m : u[i] = v[i], NEW i \in 1..m PROVE s[i] = t[n - m + i]
  <2>1. (m - i) + 1 \in 1..m /\ (m - ((m - i) + 1)) + 1 = i /\ (n - ((m - i) + 1)) + 1 = n - m + i
    BY <1>1
  <2> QED
    BY <1>8, <1>12, <2>1
<1>13. ASSUME \A i \in 1..m : s[i] = t[n - m + i], NEW i \in 1..m PROVE u[i] = v[i]
  <2>1. (m - i) + 1 \in 1..m /\ n - m + ((m - i) + 1) = (n - i) + 1
    BY <1>1
  <2> QED
    BY <1>8, <1>13, <2>1
<1> QED
  BY <1>11, <1>12, <1>13

LEMMA InitSamplesAreLatest == Init => SamplesAreLatest
<1> SUFFICES ASSUME Init PROVE SamplesAreLatest
  OBVIOUS
<1>1. latencies \in Seq(Int) /\ recorded \in Seq(Int) /\ Len(latencies) = 0 /\ Len(recorded) = 0
  BY EmptySeq DEF Init
<1>2. ASSUME NEW s \in Seq(Int), NEW t \in Seq(Int), Len(s) = 0, Len(t) = 0 PROVE IsSuffix(s, t)
  <2>1. Len(s) <= Len(t) /\ 1..Len(s) = {}
    BY <1>2
  <2> QED
    BY <2>1, SuffixMeans
<1>3. IsSuffix(latencies, recorded)
  BY <1>1, <1>2
<1> QED
  BY <1>1, <1>3, SamplesAssumption DEF SamplesAreLatest

\* A request recorded: the samples may be cut, at their old end.
LEMMA RecordSamplesAreLatest ==
    ASSUME TypeOK, SamplesAreLatest, NEW latency \in Times, NEW isError \in BOOLEAN,
           record_request(latency, isError)
    PROVE  SamplesAreLatest'
<1> DEFINE m == Len(latencies)
           n == Len(recorded)
           longer == Append(latencies, latency)
           k == Len(Trimmed(longer))
<1>1. latencies \in Seq(Times) /\ recorded \in Seq(Times) /\ m \in Nat /\ n \in Nat
  BY LenProperties DEF TypeOK
<1>2. /\ m <= n
      /\ \A i \in 1..m : latencies[i] = recorded[n - m + i]
      /\ m >= (IF n < KeepSamples THEN n ELSE KeepSamples)
  BY <1>1, SuffixMeans DEF SamplesAreLatest
<1>3. latencies' = Trimmed(longer) /\ recorded' = Append(recorded, latency)
  BY DEF record_request
<1>4. /\ longer \in Seq(Times) /\ Len(longer) = m + 1
      /\ \A i \in 1..m : longer[i] = latencies[i]
      /\ longer[m + 1] = latency
  BY <1>1, AppendProperties
<1>5. /\ recorded' \in Seq(Times) /\ Len(recorded') = n + 1
      /\ \A i \in 1..n : recorded'[i] = recorded[i]
      /\ recorded'[n + 1] = latency
  BY <1>1, <1>3, AppendProperties
<1> HIDE DEF longer
<1>6. /\ latencies' \in Seq(Times) /\ Len(latencies') = k
      /\ k \in Nat /\ k <= m + 1 /\ (k >= KeepSamples \/ k = m + 1)
      /\ \A i \in 1..k : latencies'[i] = longer[m + 1 - k + i]
  <2>1. /\ Trimmed(longer) \in Seq(Times) /\ k <= m + 1
        /\ k >= KeepSamples \/ Trimmed(longer) = longer
        /\ \A i \in 1..k : Trimmed(longer)[i] = longer[m + 1 - k + i]
    BY <1>4, TrimmedList
  <2>2. k \in Nat
    BY <2>1, LenProperties
  <2> QED
    BY <1>3, <1>4, <2>1, <2>2
<1> HIDE DEF m, n, k
<1>7. \A j \in 1..m + 1 : longer[j] = recorded'[n - m + j]
  <2> SUFFICES ASSUME NEW j \in 1..m + 1 PROVE longer[j] = recorded'[n - m + j]
    OBVIOUS
  <2>1. CASE j = m + 1
    BY <1>1, <1>2, <1>4, <1>5, <2>1
  <2>2. CASE j \in 1..m
    <3>1. n - m + j \in 1..n
      BY <1>1, <1>2, <2>2
    <3> QED
      BY <1>2, <1>4, <1>5, <2>2, <3>1
  <2> QED
    BY <1>1, <2>1, <2>2
<1>8. \A i \in 1..k : latencies'[i] = recorded'[(n + 1) - k + i]
  <2> SUFFICES ASSUME NEW i \in 1..k PROVE latencies'[i] = recorded'[(n + 1) - k + i]
    OBVIOUS
  <2>1. m + 1 - k + i \in 1..m + 1 /\ n - m + (m + 1 - k + i) = (n + 1) - k + i
    BY <1>1, <1>6
  <2> QED
    BY <1>6, <1>7, <2>1
<1>9. k <= n + 1 /\ k >= (IF n + 1 < KeepSamples THEN n + 1 ELSE KeepSamples)
  BY <1>1, <1>2, <1>6, SamplesAssumption
<1>10. IsSuffix(latencies', recorded')
  BY <1>5, <1>6, <1>8, <1>9, SuffixMeans
<1> QED
  BY <1>5, <1>6, <1>9, <1>10 DEF SamplesAreLatest

\* The latencies kept are the latest there were, and enough of them, however
\* often the list has been cut (metrics.py 23-25).
THEOREM MiddlewareSamplesAreLatest == Spec => []SamplesAreLatest
<1>1. Init => TypeOK /\ SamplesAreLatest
  BY InitTypeOK, InitSamplesAreLatest
<1>2. TypeOK /\ SamplesAreLatest /\ [Next]_vars => (TypeOK /\ SamplesAreLatest)'
  <2> SUFFICES ASSUME TypeOK, SamplesAreLatest, [Next]_vars PROVE SamplesAreLatest'
    BY NextTypeOK
  <2>1. 0 \in Times
    BY BoundsAssumption DEF TypeOK, Times
  <2>2. CASE TooLarge
    BY <2>1, <2>2, RecordSamplesAreLatest DEF TooLarge
  <2>3. ASSUME NEW c \in Client, Limited(c) PROVE SamplesAreLatest'
    BY <2>1, <2>3, RecordSamplesAreLatest DEF Limited
  <2>4. ASSUME NEW r \in Req, NEW isError \in BOOLEAN, Respond(r, isError)
        PROVE  SamplesAreLatest'
    <3>1. started[r] \in Times /\ real \in Nat /\ setback \in Nat
      BY <2>4, BoundsAssumption DEF Respond, TypeOK
    <3>2. now - started[r] \in Times
      BY <3>1 DEF Times, now
    <3> QED
      BY <2>4, <3>2, RecordSamplesAreLatest DEF Respond
  <2>5. ASSUME UNCHANGED <<latencies, recorded>> PROVE SamplesAreLatest'
    BY <2>5 DEF SamplesAreLatest
  <2> QED
    BY <2>2, <2>3, <2>4, <2>5 DEF Next, Admit, Escape, Tick, ClockSetBack, vars
<1> QED
  BY <1>1, <1>2, PTL DEF Spec

-----------------------------------------------------------------------------
(* The percentile.  Any list of numbers can be sorted: by induction on how  *)
(* many of its places are in order, the greatest value going last.          *)

LEMMA GreatestExists ==
    ASSUME NEW list \in Seq(Int), NEW I \in SUBSET DOMAIN list, I # {}
    PROVE  \E x \in I : \A y \in I : list[y] <= list[x]
<1> DEFINE Greatest(J) == \E x \in J : \A y \in J : list[y] <= list[x]
           S == {m \in Nat : \A J \in SUBSET DOMAIN list :
                    Cardinality(J) = m + 1 => Greatest(J)}
<1>1. /\ \A i \in DOMAIN list : list[i] \in Int
      /\ \A J \in SUBSET DOMAIN list : IsFiniteSet(J) /\ Cardinality(J) \in Nat
  BY KeptList, LenProperties, ElementOfSeq
<1>2. 0 \in S
  <2> SUFFICES ASSUME NEW J \in SUBSET DOMAIN list, Cardinality(J) = 1 PROVE Greatest(J)
    OBVIOUS
  <2>1. PICK x : J = {x}
    BY <1>1, FS_Singleton
  <2> QED
    BY <1>1, <2>1
<1>3. \A m \in Nat : m \in S => m + 1 \in S
  <2> SUFFICES ASSUME NEW m \in S, NEW J \in SUBSET DOMAIN list, Cardinality(J) = (m + 1) + 1
               PROVE  Greatest(J)
    OBVIOUS
  <2>1. PICK z \in J : TRUE
    BY <1>1, FS_EmptySet
  <2>2. Cardinality(J \ {z}) = m + 1
    BY <1>1, FS_RemoveElement
  <2>3. PICK x \in J \ {z} : \A y \in J \ {z} : list[y] <= list[x]
    BY <2>2
  <2>4. CASE list[z] <= list[x]
    BY <2>3, <2>4
  <2>5. CASE ~(list[z] <= list[x])
    <3>1. \A y \in J : list[y] <= list[z]
      BY <1>1, <2>3, <2>5
    <3> QED
      BY <3>1
  <2> QED
    BY <2>4, <2>5
<1>4. Nat \subseteq S
  <2> HIDE DEF S
  <2>1. S \in SUBSET Nat
    BY DEF S
  <2> QED
    BY <1>2, <1>3, <2>1, NatSetInduction
<1>5. Cardinality(I) - 1 \in Nat
  BY <1>1, FS_EmptySet
<1>6. Cardinality(I) - 1 \in S /\ (Cardinality(I) - 1) + 1 = Cardinality(I)
  BY <1>1, <1>4, <1>5
<1> QED
  BY <1>6

LEMMA PlacesCanBeSorted ==
    ASSUME NEW list \in Seq(Int), NEW I \in SUBSET DOMAIN list
    PROVE  \E o \in Bijection(1..Cardinality(I), I) :
              \A i, j \in 1..Cardinality(I) : i < j => list[o[i]] <= list[o[j]]
<1> DEFINE Ordered(o, m) == \A i, j \in 1..m : i < j => list[o[i]] <= list[o[j]]
           Sortable(m) == \A J \in SUBSET DOMAIN list :
               Cardinality(J) = m => \E o \in Bijection(1..m, J) : Ordered(o, m)
           S == {m \in Nat : Sortable(m)}
<1>1. /\ \A i \in DOMAIN list : list[i] \in Int
      /\ \A J \in SUBSET DOMAIN list : IsFiniteSet(J) /\ Cardinality(J) \in Nat
  BY KeptList, LenProperties, ElementOfSeq
<1>2. Sortable(0)
  <2> SUFFICES ASSUME NEW J \in SUBSET DOMAIN list, Cardinality(J) = 0
               PROVE  \E o \in Bijection(1..0, J) : Ordered(o, 0)
    OBVIOUS
  <2>1. J = {} /\ 1..0 = {}
    BY <1>1, FS_EmptySet
  <2> DEFINE none == [i \in {} |-> i]
  <2>2. none \in Bijection({}, {})
    BY DEF Bijection, Injection, Surjection, IsInjective
  <2> QED
    BY <2>1, <2>2
<1>3. ASSUME NEW m \in Nat, Sortable(m) PROVE Sortable(m + 1)
  <2> SUFFICES ASSUME NEW J \in SUBSET DOMAIN list, Cardinality(J) = m + 1
               PROVE  \E o \in Bijection(1..m + 1, J) : Ordered(o, m + 1)
    OBVIOUS
  <2>1. J # {} /\ Cardinality(J) = m + 1
    BY <1>1, FS_EmptySet
  <2>2. PICK x \in J : \A y \in J : list[y] <= list[x]
    BY <2>1, GreatestExists
  <2>3. Cardinality(J \ {x}) = m
    <3>1. IsFiniteSet(J)
      BY <1>1
    <3>2. Cardinality(J \ {x}) = Cardinality(J) - 1
      BY <3>1, FS_RemoveElement
    <3> QED
      BY <2>1, <3>2
  <2>4. PICK o \in Bijection(1..m, J \ {x}) : Ordered(o, m)
    BY <1>3, <2>3
  <2>5. /\ o \in [1..m -> J \ {x}]
        /\ \A i, j \in 1..m : o[i] = o[j] => i = j
        /\ \A y \in J \ {x} : \E i \in 1..m : o[i] = y
    BY <2>4 DEF Bijection, Injection, Surjection, IsInjective
  <2> DEFINE q == [i \in 1..m + 1 |-> IF i = m + 1 THEN x ELSE o[i]]
  <2>6. q \in [1..m + 1 -> J]
    BY <2>1, <2>5
  <2>7. q[m + 1] = x /\ \A i \in 1..m : q[i] = o[i] /\ q[i] \in J /\ q[i] # x /\ i # m + 1
    BY <2>1, <2>5
  <2>8. \A i \in 1..m + 1 : i = m + 1 \/ i \in 1..m
    BY <2>1
  <2>9. m + 1 \in 1..m + 1 /\ \A i \in 1..m : i \in 1..m + 1
    BY <2>1
  <2> HIDE DEF q
  <2>10. \A i, j \in 1..m + 1 : q[i] = q[j] => i = j
    BY <2>5, <2>7, <2>8
  <2>11. \A y \in J : \E i \in 1..m + 1 : q[i] = y
    <3> SUFFICES ASSUME NEW y \in J PROVE \E i \in 1..m + 1 : q[i] = y
      OBVIOUS
    <3>1. CASE y = x
      BY <2>7, <2>9, <3>1
    <3>2. CASE y # x
      <4>1. PICK i \in 1..m : o[i] = y
        BY <2>5, <3>2
      <4> QED
        BY <2>7, <2>9, <4>1
    <3> QED
      BY <3>1, <3>2
  <2>12. Ordered(q, m + 1)
    <3> SUFFICES ASSUME NEW i \in 1..m + 1, NEW j \in 1..m + 1, i < j
                 PROVE  list[q[i]] <= list[q[j]]
      OBVIOUS
    <3>1. i \in 1..m
      BY <2>1
    <3>2. CASE j = m + 1
      BY <2>2, <2>7, <3>1, <3>2
    <3>3. CASE j \in 1..m
      BY <2>4, <2>7, <3>1, <3>3
    <3> QED
      BY <2>8, <3>2, <3>3
  <2>13. q \in Bijection(1..m + 1, J)
    BY <2>6, <2>10, <2>11 DEF Bijection, Injection, Surjection, IsInjective
  <2> QED
    BY <2>12, <2>13
<1>4. Nat \subseteq S
  <2> HIDE DEF Sortable
  <2>1. S \in SUBSET Nat /\ 0 \in S /\ \A m \in Nat : m \in S => m + 1 \in S
    BY <1>2, <1>3
  <2> QED
    BY <2>1, NatSetInduction
<1>5. Sortable(Cardinality(I))
  <2> HIDE DEF Sortable
  <2> QED
    BY <1>1, <1>4
<1> QED
  BY <1>5

\* Sorted holds the values of the list, each as often, in ascending order.
LEMMA SortedList ==
    ASSUME NEW list \in Seq(Int)
    PROVE  \E o \in Bijection(DOMAIN list, DOMAIN list) :
             /\ \A i \in DOMAIN list : Sorted(list)[i] = list[o[i]]
             /\ \A i, j \in DOMAIN list : i < j => list[o[i]] <= list[o[j]]
<1>1. DOMAIN list = 1..Len(list) /\ Len(list) \in Nat
  BY LenProperties
<1>2. Cardinality(DOMAIN list) = Len(list)
  <2>1. \A n \in Nat : Cardinality(1..n) = n
    BY FS_Interval
  <2> QED
    BY <1>1, <2>1
<1>3. \E o \in Bijection(DOMAIN list, DOMAIN list) : Ascends(list, o)
  BY <1>1, <1>2, PlacesCanBeSorted DEF Ascends
<1> DEFINE o == CHOOSE q \in Bijection(DOMAIN list, DOMAIN list) : Ascends(list, q)
<1>4. o \in Bijection(DOMAIN list, DOMAIN list) /\ Ascends(list, o)
  BY <1>3
<1>5. Sorted(list) = [i \in DOMAIN list |-> list[o[i]]]
  BY DEF Sorted
<1> HIDE DEF o
<1> QED
  BY <1>4, <1>5 DEF Ascends

\* The share of n, in hundredths, that p of 100 make.
Share(n, p) == p * n

\* The index is a place of the list, and the share of places before it and up to
\* it are right, whatever the rounding.
LEMMA IndexRank ==
    ASSUME NEW n \in Nat, n # 0, NEW p \in Nat, p = 50 \/ p = 90 \/ p = 95 \/ p = 99
    PROVE  /\ PercentileIndex(n, p) \in 0..n - 1 /\ Share(n, p) \in Nat
           /\ 100 * (PercentileIndex(n, p) + 1) >= Share(n, p)
           /\ 100 * PercentileIndex(n, p) <= Share(n, p)
<1>1. CASE p = 50
  BY <1>1 DEF PercentileIndex, Share
<1>2. CASE p = 90
  BY <1>2 DEF PercentileIndex, Share
<1>3. CASE p = 95
  BY <1>3 DEF PercentileIndex, Share
<1>4. CASE p = 99
  BY <1>4 DEF PercentileIndex, Share
<1> QED
  BY <1>1, <1>2, <1>3, <1>4

PlacesUpTo(list, w) == {i \in DOMAIN list : list[i] <= w}

\* The value at a place of the sorted list: how many values are up to it, and how
\* many are below it.
LEMMA SortedRank ==
    ASSUME NEW list \in Seq(Int), NEW k \in DOMAIN list
    PROVE  /\ Sorted(list)[k] \in Int /\ Sorted(list)[k] \in ToSet(list)
           /\ Cardinality(PlacesUpTo(list, Sorted(list)[k])) >= k
           /\ Cardinality(PlacesUpTo(list, Sorted(list)[k] - 1)) <= k - 1
<1> DEFINE n == Len(list)
           v == Sorted(list)[k]
           UpTo(w) == PlacesUpTo(list, w)
<1>1. /\ DOMAIN list = 1..n /\ n \in Nat /\ k \in Nat \ {0} /\ k <= n
      /\ \A i \in DOMAIN list : list[i] \in Int
      /\ \A w : IsFiniteSet(UpTo(w)) /\ Cardinality(UpTo(w)) \in Nat
  <2>1. DOMAIN list = 1..n /\ n \in Nat /\ \A i \in DOMAIN list : list[i] \in Int
    BY LenProperties, ElementOfSeq
  <2>2. \A w : UpTo(w) \in SUBSET DOMAIN list
    BY DEF PlacesUpTo
  <2>3. \A w : IsFiniteSet(UpTo(w)) /\ Cardinality(UpTo(w)) \in Nat
    BY <2>2, KeptList
  <2>4. k \in 1..n
    BY <2>1
  <2> HIDE DEF n, UpTo
  <2>5. k \in Nat \ {0} /\ k <= n
    BY <2>1, <2>4
  <2> QED
    BY <2>1, <2>3, <2>5
<1>2. PICK o \in Bijection(DOMAIN list, DOMAIN list) :
        /\ \A i \in DOMAIN list : Sorted(list)[i] = list[o[i]]
        /\ \A i, j \in DOMAIN list : i < j => list[o[i]] <= list[o[j]]
  BY SortedList
<1>3. /\ o \in [DOMAIN list -> DOMAIN list]
      /\ \A x, y \in DOMAIN list : o[x] = o[y] => x = y
      /\ \A t \in DOMAIN list : \E x \in DOMAIN list : o[x] = t
  BY <1>2 DEF Bijection, Injection, Surjection, IsInjective
<1>4. v = list[o[k]] /\ v \in Int /\ o[k] \in DOMAIN list
  BY <1>1, <1>2, <1>3
<1>5. v \in ToSet(list)
  BY <1>4 DEF ToSet
<1> HIDE DEF v, n
<1>6. Cardinality(UpTo(v)) >= k
  <2> DEFINE f == [i \in 1..k |-> o[i]]
  <2>1. \A i \in 1..k : i \in DOMAIN list /\ (i < k \/ i = k)
    BY <1>1
  <2>2. \A i \in 1..k : o[i] \in DOMAIN list /\ list[o[i]] <= v
    <3> SUFFICES ASSUME NEW i \in 1..k PROVE o[i] \in DOMAIN list /\ list[o[i]] <= v
      OBVIOUS
    <3>1. i \in DOMAIN list /\ o[i] \in DOMAIN list
      BY <1>3, <2>1
    <3>2. CASE i < k
      BY <1>2, <1>4, <3>1, <3>2
    <3>3. CASE i = k
      BY <1>4, <3>1, <3>3
    <3> QED
      BY <2>1, <3>1, <3>2, <3>3
  <2>3. f \in [1..k -> UpTo(v)]
    BY <2>2 DEF PlacesUpTo
  <2>4. \A i, j \in 1..k : f[i] = f[j] => i = j
    BY <1>3, <2>1
  <2> HIDE DEF f
  <2>5. f \in Injection(1..k, UpTo(v))
    BY <2>3, <2>4 DEF Injection, IsInjective
  <2>6. Cardinality(1..k) <= Cardinality(UpTo(v))
    <3> HIDE DEF UpTo
    <3> QED
      BY <1>1, <2>5, FS_Injection
  <2>7. Cardinality(1..k) = k
    BY <1>1, FS_Interval
  <2> QED
    BY <1>1, <2>6, <2>7
<1>7. Cardinality(UpTo(v - 1)) <= k - 1
  <2> DEFINE At(i) == CHOOSE x \in DOMAIN list : o[x] = i
             g == [i \in UpTo(v - 1) |-> At(i)]
  <2>1. \A i \in DOMAIN list : At(i) \in DOMAIN list /\ o[At(i)] = i
    BY <1>3
  <2> HIDE DEF At
  <2>2. \A i \in UpTo(v - 1) : At(i) \in 1..k - 1
    <3> SUFFICES ASSUME NEW i \in DOMAIN list, list[i] <= v - 1 PROVE At(i) \in 1..k - 1
      BY DEF PlacesUpTo
    <3>1. At(i) \in DOMAIN list /\ o[At(i)] = i /\ list[i] \in Int
      BY <1>1, <2>1
    <3>2. ~(k < At(i)) /\ At(i) # k
      BY <1>2, <1>4, <3>1
    <3> QED
      BY <1>1, <3>1, <3>2
  <2>3. g \in [UpTo(v - 1) -> 1..k - 1]
    BY <2>2
  <2>4. \A i, j \in UpTo(v - 1) : g[i] = g[j] => i = j
    <3>1. \A i \in UpTo(v - 1) : i \in DOMAIN list
      BY DEF PlacesUpTo
    <3> QED
      BY <2>1, <3>1
  <2> HIDE DEF g, UpTo
  <2>5. g \in Injection(UpTo(v - 1), 1..k - 1)
    BY <2>3, <2>4 DEF Injection, IsInjective
  <2>6. IsFiniteSet(1..k - 1) /\ Cardinality(1..k - 1) = k - 1
    <3>1. \A m \in Nat : IsFiniteSet(1..m) /\ Cardinality(1..m) = m
      BY FS_Interval
    <3>2. k - 1 \in Nat
      BY <1>1
    <3> QED
      BY <3>1, <3>2
  <2> QED
    BY <2>5, <2>6, FS_Injection
<1> QED
  BY <1>4, <1>5, <1>6, <1>7 DEF v

LEMMA PercentileRank ==
    ASSUME NEW list \in Seq(Int), list # <<>>,
           NEW p \in Nat, p = 50 \/ p = 90 \/ p = 95 \/ p = 99
    PROVE  /\ Percentile(list, p) \in ToSet(list)
           /\ 100 * Cardinality(PlacesUpTo(list, Percentile(list, p))) >= Share(Len(list), p)
           /\ 100 * Cardinality(PlacesUpTo(list, Percentile(list, p) - 1)) <= Share(Len(list), p)
<1>1. Len(list) \in Nat \ {0} /\ DOMAIN list = 1..Len(list)
  BY EmptySeq, LenProperties
<1>2. PICK n \in Nat : n = Len(list) /\ n # 0
  BY <1>1
<1>3. PICK k : k = PercentileIndex(n, p) + 1
  OBVIOUS
<1>4. k \in 1..n /\ Share(n, p) \in Nat /\ 100 * k >= Share(n, p) /\ 100 * (k - 1) <= Share(n, p)
  <2>1. PercentileIndex(n, p) \in 0..n - 1 /\ Share(n, p) \in Nat
    BY <1>2, IndexRank
  <2>2. 100 * (PercentileIndex(n, p) + 1) >= Share(n, p) /\ 100 * PercentileIndex(n, p) <= Share(n, p)
    BY <1>2, IndexRank
  <2>3. PercentileIndex(n, p) = k - 1 /\ k \in 1..n
    BY <1>3, <2>1
  <2> QED
    BY <1>3, <2>1, <2>2, <2>3
<1>5. Percentile(list, p) = Sorted(list)[k]
  BY <1>2, <1>3 DEF Percentile
<1>6. PICK a, b \in Nat :
        /\ a = Cardinality(PlacesUpTo(list, Sorted(list)[k])) /\ a >= k
        /\ b = Cardinality(PlacesUpTo(list, Sorted(list)[k] - 1)) /\ b <= k - 1
  <2>1. \A w : Cardinality(PlacesUpTo(list, w)) \in Nat
    <3>1. \A w : PlacesUpTo(list, w) \in SUBSET DOMAIN list
      BY DEF PlacesUpTo
    <3> QED
      BY <3>1, KeptList
  <2>2. k \in DOMAIN list
    BY <1>1, <1>2, <1>4
  <2> QED
    BY <2>1, <2>2, SortedRank
<1>7. Sorted(list)[k] \in ToSet(list)
  BY <1>1, <1>2, <1>4, SortedRank
<1>8. 100 * a >= Share(n, p) /\ 100 * b <= Share(n, p)
  BY <1>4, <1>6
<1> QED
  BY <1>2, <1>5, <1>6, <1>7, <1>8

LEMMA TypeOKPercentileRight == TypeOK => PercentileRight
<1> SUFFICES ASSUME TypeOK, latencies # <<>>, NEW p \in {50, 90, 95, 99}
             PROVE  LET v == Percentile(latencies, p)
                        UpTo(w) == Cardinality({i \in DOMAIN latencies : latencies[i] <= w})
                        n == Len(latencies)
                    IN  /\ v \in ToSet(latencies)
                        /\ 100 * UpTo(v) >= p * n /\ 100 * UpTo(v - 1) <= p * n
  BY DEF PercentileRight
<1>1. latencies \in Seq(Int)
  <2>1. latencies \in Seq(Times) /\ Times \subseteq Int
    BY BoundsAssumption DEF TypeOK, Times
  <2> QED
    BY <2>1, SeqMonotonic
<1>2. /\ Percentile(latencies, p) \in ToSet(latencies)
      /\ 100 * Cardinality(PlacesUpTo(latencies, Percentile(latencies, p))) >= Share(Len(latencies), p)
      /\ 100 * Cardinality(PlacesUpTo(latencies, Percentile(latencies, p) - 1)) <= Share(Len(latencies), p)
  BY <1>1, PercentileRank
<1> QED
  BY <1>2 DEF PlacesUpTo, Share

\* A percentile is one of the samples, with at least p of 100 of them up to it and
\* at most p of 100 below it, for every list of samples (_calculate_percentile,
\* metrics.py 54-60).
THEOREM MiddlewarePercentileRight == Spec => []PercentileRight
BY MiddlewareTypeCorrect, TypeOKPercentileRight, PTL
=============================================================================
