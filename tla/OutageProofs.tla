---------------------------- MODULE OutageProofs ----------------------------
(* Who is locked out and when the loop sleeps, for any number of users,     *)
(* outages and probes.                                                      *)
EXTENDS Outage, TLAPS

\* A pod that is there to stay.
Stays(u) == pod[u] \notin {"none", "going"}

\* The Booleans among the types; the rest of TypeOK is sets and numbers.
Flags == asleep \in BOOLEAN /\ met \in BOOLEAN

LEMMA InitTypeOK == Init => TypeOK
<1>1. Init => Flags
  BY DEF Init, Flags
<1> QED
  BY <1>1, NobodyAssumption, NumbersAssumption DEF Init, TypeOK, Flags

\* Deleting terminals, whether or not it succeeds.
LEMMA DeleteTypes ==
    ASSUME TypeOK, NEW gone, Delete(gone)
    PROVE  /\ pod' \in [User -> {"none", "starting", "running", "failed", "going"}]
           /\ secret' \subseteq User /\ secret \ gone \subseteq secret' /\ secret' \subseteq secret
           /\ table' \subseteq table /\ adopted' \subseteq table' /\ table \ gone \subseteq table'
           /\ \A u \in User : pod'[u] \notin {"none", "going"} => pod'[u] = pod[u]
           /\ api = "up" => \A u \in User \cap gone : pod'[u] \in {"none", "going"}
BY DEF TypeOK, Delete, Stopped, objects

LEMMA NextTypeOK == TypeOK /\ [Next]_vars => TypeOK'
<1> SUFFICES ASSUME TypeOK, [Next]_vars PROVE TypeOK'
  OBVIOUS
<1> USE NobodyAssumption, NumbersAssumption DEF TypeOK, objects, manager
<1>1. CASE ApiGoes \/ ApiReturns
  <2>1. met' \in BOOLEAN
    BY <1>1 DEF ApiGoes, ApiReturns
  <2> QED
    BY <1>1, <2>1 DEF ApiGoes, ApiReturns
<1>2. ASSUME NEW u \in User, PodRuns(u) \/ PodFails(u) \/ PodDrained(u) \/ PodRemoved(u)
      PROVE  TypeOK'
  BY <1>2 DEF PodRuns, PodFails, PodDrained, PodRemoved, PodChanges
<1>3. CASE Start
  BY <1>3 DEF Start, Stopped
<1>4. CASE ProbePasses \/ ProbeFails \/ ProbeKills
  <2>1. Flags'
    BY <1>4 DEF ProbePasses, ProbeFails, ProbeKills, Flags
  <2> QED
    BY <1>4, <2>1 DEF ProbePasses, ProbeFails, ProbeKills, Flags
<1>5. ASSUME NEW u \in User, Reuse(u) \/ PollRaises(u) PROVE TypeOK'
  BY <1>5 DEF Reuse, PollRaises, Raising, MayAsk, LoopFree
<1>6. ASSUME NEW u \in User, Refuse(u) PROVE TypeOK'
  BY <1>6, DeleteTypes DEF Refuse, Raising, MayAsk, LoopFree
<1>7. ASSUME NEW u \in User, MakesSecret(u), creating' \in {u, Nobody}, asleep' \in BOOLEAN
      PROVE  TypeOK'
  BY <1>7 DEF MakesSecret, Victims, MayAsk, LoopFree
<1>8. ASSUME NEW u \in User, Create(u) \/ Collide(u) PROVE TypeOK'
  BY <1>7, <1>8 DEF Create, Collide, MakesSecret, MayAsk
<1>9. ASSUME NEW u \in User, Ready(u) \/ NotReady(u) PROVE TypeOK'
  BY <1>9 DEF Ready, NotReady, Stopped, LoopFree
<1>10. CASE CleanupIdle
  BY <1>10, DeleteTypes DEF CleanupIdle, Raising, LoopFree
<1>11. CASE HealthCheck
  <2>1. /\ pod' \in [User -> {"none", "starting", "running", "failed", "going"}]
        /\ secret' \subseteq User /\ table' \subseteq table /\ adopted' \subseteq table'
    BY <1>11, DeleteTypes DEF HealthCheck
  <2> QED
    BY <1>11, <2>1 DEF HealthCheck, Raising, LoopFree
<1>12. CASE Wake \/ UNCHANGED vars
  BY <1>12 DEF Wake, vars
<1> QED
  BY <1>1, <1>2, <1>3, <1>4, <1>5, <1>6, <1>8, <1>9, <1>10, <1>11, <1>12 DEF Next

\* Every state of the proxy in an outage has the types of the variables; nobody is in
\* the table and being created at once.
THEOREM OutageTypeCorrect == Spec => []TypeOK
BY InitTypeOK, NextTypeOK, PTL DEF Spec

-----------------------------------------------------------------------------
(* Who is locked out. *)

\* A process that has not met the API away finds it there, and knows every pod that
\* stays.
KnowsPods ==
    mode = "up" /\ ~met =>
        /\ api = "up"
        /\ \A u \in User : Stays(u) => u \in table \/ creating = u

LEMMA NextKnowsPods ==
    ASSUME TypeOK, KnowsPods, [Next]_vars
    PROVE  KnowsPods'
<1> USE DEF TypeOK, KnowsPods, Stays, objects, manager
<1>1. CASE ApiGoes \/ ApiReturns
  BY <1>1 DEF ApiGoes, ApiReturns
<1>2. ASSUME NEW u \in User, PodRuns(u) \/ PodFails(u) \/ PodDrained(u) \/ PodRemoved(u)
      PROVE  KnowsPods'
  BY <1>2 DEF PodRuns, PodFails, PodDrained, PodRemoved, PodChanges
<1>3. CASE Start
  <2>1. ~met' => api = "up" /\ api' = "up"
    BY <1>3 DEF Start
  <2>2. ASSUME api = "up", NEW u \in User, Stays(u)' PROVE u \in table'
    BY <1>3, <2>2 DEF Start, Stopped
  <2> SUFFICES ASSUME ~met' PROVE api' = "up" /\ \A u \in User : Stays(u)' => u \in table'
    OBVIOUS
  <2> QED
    BY <2>1, <2>2 DEF Stays
<1>4. CASE ProbePasses \/ ProbeFails \/ ProbeKills
  BY <1>4 DEF ProbePasses, ProbeFails, ProbeKills
<1>5. ASSUME NEW u \in User, Reuse(u) \/ PollRaises(u) PROVE KnowsPods'
  BY <1>5 DEF Reuse, PollRaises, MayAsk, LoopFree
<1>6. ASSUME NEW u \in User, Refuse(u) PROVE KnowsPods'
  BY <1>6, DeleteTypes DEF Refuse, MayAsk, LoopFree
<1>7. ASSUME NEW u \in User, Create(u) \/ Collide(u) PROVE KnowsPods'
  <2>1. UNCHANGED <<api, mode, met>>
    BY <1>7 DEF Create, Collide, MakesSecret
  <2>2. PICK gone \in Victims :
          /\ table' = table \ gone
          /\ pod' = [v \in User |-> IF v = u /\ pod[v] = "none" THEN "starting"
                                   ELSE IF v \in gone /\ pod[v] # "none" THEN "going"
                                   ELSE pod[v]]
    BY <1>7 DEF Create, Collide, MakesSecret
  <2>3. creating' = IF pod[u] = "none" THEN u ELSE creating
    BY <1>7 DEF Create, Collide
  <2>4. creating = Nobody
    BY <1>7 DEF Create, Collide, MakesSecret, MayAsk
  <2>5. ASSUME KnowsPods, ~met, mode = "up", NEW v \in User, Stays(v)'
        PROVE  v \in table' \/ creating' = v
    BY <2>2, <2>3, <2>4, <2>5, NobodyAssumption
  <2> QED
    BY <2>1, <2>5
<1>8. ASSUME NEW u \in User, Ready(u) \/ NotReady(u) PROVE KnowsPods'
  BY <1>8 DEF Ready, NotReady, Stopped, LoopFree
<1>9. CASE CleanupIdle
  BY <1>9, DeleteTypes DEF CleanupIdle, LoopFree
<1>10. CASE HealthCheck
  BY <1>10, DeleteTypes DEF HealthCheck, LoopFree
<1>11. CASE Wake \/ UNCHANGED vars
  BY <1>11 DEF Wake, vars
<1> QED
  BY <1>1, <1>2, <1>3, <1>4, <1>5, <1>6, <1>7, <1>8, <1>9, <1>10, <1>11 DEF Next

\* A user with a pod is locked out only by a process that has met an outage, for any
\* number of users, slots and outages (pod_manager.py 58-93, 208-241).
THEOREM LockedOutByOutage == Spec => []LockedOutOnlyByOutage
<1>1. Init => KnowsPods
  BY DEF Init, KnowsPods
<1>2. KnowsPods => LockedOutOnlyByOutage
  BY DEF KnowsPods, LockedOutOnlyByOutage, LockedOut, Stays
<1> QED
  BY InitTypeOK, NextTypeOK, NextKnowsPods, <1>1, <1>2, PTL DEF Spec

-----------------------------------------------------------------------------
(* How long. *)

\* No step but the process's end takes a locked-out user's secret, or the proxy's
\* ignorance of it.
LEMMA StaysLockedOut ==
    ASSUME TypeOK, [Next]_vars, NEW u \in User, LockedOut(u), mode' # "down"
    PROVE  LockedOut(u)'
<1> USE DEF TypeOK, LockedOut, objects, manager
<1>1. CASE ApiGoes \/ ApiReturns \/ Start \/ ProbePasses \/ ProbeFails \/ ProbeKills \/ Wake
  BY <1>1 DEF ApiGoes, ApiReturns, Start, ProbePasses, ProbeFails, ProbeKills, Wake
<1>2. ASSUME NEW v \in User, PodRuns(v) \/ PodFails(v) \/ PodDrained(v) \/ PodRemoved(v)
      PROVE  LockedOut(u)'
  BY <1>2 DEF PodRuns, PodFails, PodDrained, PodRemoved, PodChanges
<1>3. ASSUME NEW v \in User, Reuse(v) \/ PollRaises(v) PROVE LockedOut(u)'
  BY <1>3, NobodyAssumption DEF Reuse, PollRaises
<1>4. ASSUME NEW gone \in SUBSET table, Delete(gone) PROVE u \in secret' /\ u \notin table'
  BY <1>4, DeleteTypes
<1>5. ASSUME NEW v \in User, Refuse(v) PROVE LockedOut(u)'
  <2>1. PICK gone \in Victims : Delete(gone)
    BY <1>5 DEF Refuse
  <2>2. gone \in SUBSET table
    BY DEF Victims
  <2> QED
    BY <1>4, <1>5, <2>1, <2>2 DEF Refuse
<1>6. ASSUME NEW v \in User, Create(v) \/ Collide(v) PROVE LockedOut(u)'
  BY <1>6 DEF Create, Collide, MakesSecret, Victims
<1>7. ASSUME NEW v \in User, Ready(v) \/ NotReady(v) PROVE LockedOut(u)'
  BY <1>7, NobodyAssumption DEF Ready, NotReady, Stopped
<1>8. CASE CleanupIdle
  BY <1>4, <1>8 DEF CleanupIdle
<1>9. CASE HealthCheck
  <2>1. CASE api = "up"
    BY <1>4, <1>9, <2>1 DEF HealthCheck
  <2>2. CASE api # "up"
    BY <1>9, <2>2 DEF HealthCheck
  <2> QED
    BY <2>1, <2>2
<1>10. CASE UNCHANGED vars
  BY <1>10 DEF vars
<1> QED
  BY <1>1, <1>2, <1>3, <1>5, <1>6, <1>7, <1>8, <1>9, <1>10 DEF Next

\* A locked-out user stays so as long as the process lives, whoever asks, whatever
\* sweeps run and whether or not the API is back.
THEOREM LockedOutForTheProcess == Spec => LockoutLasts
<1>1. TypeOK /\ [Next]_vars => [\A u \in User : LockedOut(u) => LockedOut(u)' \/ mode' = "down"]_vars
  BY StaysLockedOut
<1> QED
  BY InitTypeOK, NextTypeOK, <1>1, PTL DEF Spec, LockoutLasts

-----------------------------------------------------------------------------
(* When the loop sleeps. *)

Somebody == met \/ \E u \in User : LockedOut(u)

\* The loop runs, the last probe passed and the API is there.
Quiet == ~asleep /\ ~(failed > 0) /\ api = "up"

\* Outside the shared modes a process sleeps, and is found unhealthy, for a reason;
\* no sleep and no failed probe outlives it.
SleepsForCause ==
    /\ mode = "down" => ~asleep /\ failed = 0
    /\ StorageMode # "shared" /\ mode = "up" => Quiet \/ Somebody

LEMMA SomebodyStays ==
    ASSUME TypeOK, [Next]_vars, mode = "up", mode' = "up", Somebody
    PROVE  Somebody'
<1>1. CASE met
  <2>1. met'
    BY <1>1 DEF Next, vars, ApiGoes, ApiReturns, PodRuns, PodFails, PodDrained, PodRemoved,
       PodChanges, Start, ProbePasses, ProbeFails, ProbeKills, Reuse, Refuse, Create, Collide,
       MakesSecret, Ready, NotReady, PollRaises, CleanupIdle, HealthCheck, Wake
  <2> QED
    BY <2>1 DEF Somebody
<1>2. ASSUME NEW u \in User, LockedOut(u) PROVE Somebody'
  BY <1>2, StaysLockedOut DEF Somebody
<1> QED
  BY <1>1, <1>2 DEF Somebody

\* A step that makes a healthy process sleep, or finds it unhealthy, has a reason.
LEMMA SleepHasCause ==
    ASSUME TypeOK, [Next]_vars, StorageMode # "shared", mode = "up", Quiet, ~Somebody
    PROVE  Quiet' \/ Somebody'
<1>1. ASSUME UNCHANGED <<asleep, failed, api>> PROVE Quiet'
  BY <1>1 DEF Quiet
<1>2. ASSUME asleep' = FALSE, failed' = 0 \/ UNCHANGED failed, UNCHANGED api PROVE Quiet'
  BY <1>2 DEF Quiet
<1>3. CASE ApiGoes
  BY <1>3 DEF ApiGoes, Somebody
<1>4. CASE ProbePasses
  <2>1. failed' = 0 /\ UNCHANGED <<asleep, api>>
    BY <1>4 DEF ProbePasses
  <2> QED
    BY <2>1 DEF Quiet
<1>5. ~ApiReturns /\ ~Start /\ ~ProbeFails /\ ~ProbeKills
  BY DEF ApiReturns, Start, ProbeFails, ProbeKills, Healthy, Quiet
<1>6. ASSUME NEW u \in User,
             PodRuns(u) \/ PodFails(u) \/ PodDrained(u) \/ PodRemoved(u) \/ Ready(u) \/ NotReady(u)
             \/ Create(u)
      PROVE  Quiet'
  <2>1. UNCHANGED <<asleep, failed, api>>
    BY <1>6 DEF PodRuns, PodFails, PodDrained, PodRemoved, PodChanges, Ready, NotReady,
       Create, MakesSecret
  <2> QED
    BY <1>1, <2>1
<1>7. ASSUME NEW u \in User, Reuse(u) PROVE Quiet'
  <2>1. ~TouchRaises(u)
    BY DEF TouchRaises, Quiet
  <2>2. asleep' = FALSE /\ UNCHANGED <<failed, api>>
    BY <1>7, <2>1 DEF Reuse
  <2> QED
    BY <1>2, <2>2
<1>8. ASSUME NEW u \in User, Refuse(u) PROVE FALSE
  <2>1. LockedOut(u)
    BY <1>8, NobodyAssumption DEF Refuse, MayAsk, LoopFree, LockedOut, Quiet
  <2> QED
    BY <2>1 DEF Somebody
<1>9. ASSUME NEW u \in User, Collide(u) PROVE Somebody'
  <2>1. LockedOut(u)'
    BY <1>9, NobodyAssumption DEF Collide, MakesSecret, MayAsk, LoopFree, LockedOut, TypeOK, Victims
  <2> QED
    BY <2>1 DEF Somebody
<1>10. ASSUME NEW u \in User, PollRaises(u) PROVE FALSE
  BY <1>10 DEF PollRaises, Quiet
<1>11. CASE CleanupIdle \/ HealthCheck \/ Wake
  <2>1. asleep' = FALSE /\ UNCHANGED <<failed, api>>
    BY <1>11 DEF CleanupIdle, HealthCheck, Wake, Quiet
  <2> QED
    BY <1>2, <2>1
<1>12. CASE UNCHANGED vars
  BY <1>1, <1>12 DEF vars
<1> QED
  BY <1>3, <1>4, <1>5, <1>6, <1>7, <1>8, <1>9, <1>10, <1>11, <1>12 DEF Next

LEMMA NextSleepsForCause ==
    ASSUME TypeOK, SleepsForCause, [Next]_vars
    PROVE  SleepsForCause'
<1>1. CASE ProbeKills
  BY <1>1 DEF ProbeKills, SleepsForCause
<1>2. CASE Start
  <2>1. mode' = "up" /\ met' = (api = "down") /\ UNCHANGED <<asleep, failed, api>> /\ mode = "down"
    BY <1>2 DEF Start
  <2>2. CASE api = "up"
    <3>1. Quiet'
      BY <2>1, <2>2 DEF SleepsForCause, Quiet
    <3> QED
      BY <2>1, <3>1 DEF SleepsForCause
  <2>3. CASE api = "down"
    BY <2>1, <2>3 DEF SleepsForCause, Somebody
  <2> QED
    BY <2>2, <2>3 DEF TypeOK
<1>3. CASE ~ProbeKills /\ ~Start
  <2>1. mode' = mode
    BY <1>3 DEF Next, vars, ApiGoes, ApiReturns, PodRuns, PodFails, PodDrained,
       PodRemoved, PodChanges, ProbePasses, ProbeFails, Reuse, Refuse, Create,
       Collide, MakesSecret, Ready, NotReady, PollRaises, CleanupIdle, HealthCheck, Wake
  <2>2. CASE mode = "up"
    <3>1. CASE Somebody
      BY <2>1, <2>2, <3>1, SomebodyStays DEF SleepsForCause
    <3>2. CASE ~Somebody
      BY <2>1, <2>2, <3>2, SleepHasCause DEF SleepsForCause
    <3> QED
      BY <3>1, <3>2
  <2>3. CASE mode = "down"
    <3>1. UNCHANGED <<asleep, failed>>
      BY <1>3, <2>3 DEF Next, vars, ApiGoes, ApiReturns, PodRuns, PodFails, PodDrained,
         PodRemoved, PodChanges, ProbePasses, ProbeFails, Reuse, Refuse, Create,
         Collide, MakesSecret, Ready, NotReady, PollRaises, CleanupIdle, HealthCheck, Wake,
         MayAsk, LoopFree, SleepsForCause
    <3> QED
      BY <2>1, <2>3, <3>1 DEF SleepsForCause
  <2> QED
    BY <2>2, <2>3 DEF TypeOK
<1> QED
  BY <1>1, <1>2, <1>3

\* Outside the shared modes the liveness probe fails only in a process that has met an
\* outage or has locked a user out (client.py 69-292, storage.py 108-115).
THEOREM UnhealthyForCause == Spec => []NeverKilledUnprovoked
<1>1. Init => SleepsForCause
  BY DEF Init, SleepsForCause
<1>2. TypeOK /\ SleepsForCause => NeverKilledUnprovoked
  BY DEF TypeOK, SleepsForCause, NeverKilledUnprovoked, Somebody, Quiet
<1> QED
  BY InitTypeOK, NextTypeOK, NextSleepsForCause, <1>1, <1>2, PTL DEF Spec
=============================================================================
