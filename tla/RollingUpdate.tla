---------------------------- MODULE RollingUpdate ----------------------------
(***************************************************************************)
(* Two pod managers on one namespace.  deployment.yaml leaves the update   *)
(* strategy to Kubernetes, whose default starts the new proxy before it    *)
(* stops the old one.  Each has a table, a lock and sweeps of its own; the *)
(* objects in the cluster are the same.                                    *)
(*                                                                         *)
(* The old proxy is the PodManager this module extends, the new one an     *)
(* instance of it with variables of its own.  Clients reach either.  The   *)
(* old one stops once, when the new one serves, and does not come back.    *)
(***************************************************************************)
EXTENDS PodManager

VARIABLES
    newMode, newPods, newApiKey, newIdleFor, newWork,
    newLock, newWaiters, newPc, newJob, newCrashes

oldVars == <<mode, managerVars, work, requestVars, crashes>>
newVars == <<newMode, newPods, newApiKey, newIdleFor, newWork,
             newLock, newWaiters, newPc, newJob, newCrashes>>

New == INSTANCE PodManager WITH
    mode <- newMode, pods <- newPods, apiKey <- newApiKey, idleFor <- newIdleFor,
    work <- newWork, lock <- newLock, waiters <- newWaiters, pc <- newPc,
    job <- newJob, crashes <- newCrashes

OverlapInit == Init /\ New!Init

\* The old proxy has served and is gone.
OldGone == mode = "down" /\ crashes > 0

\* What a proxy does of its own, and on behalf of its clients.
OldStep ==
    /\ \/ ~OldGone /\ Reconciles
       \/ \E r \in Req : Arrive(r) \/ Takes(r) \/ Creates(r) \/ Finish(r)
       \/ \E u \in User : Deletes(u)
       \/ CleanupIdle \/ HealthCheck \/ PvcSweep
       \/ newMode = "up" /\ Crash
    /\ UNCHANGED newVars

\* The new proxy is started when the old one is up.
NewStep ==
    /\ \/ mode = "up" /\ New!Start
       \/ newMode # "down" /\ New!Reconciles
       \/ \E r \in Req : New!Arrive(r) \/ New!Takes(r) \/ New!Creates(r) \/ New!Finish(r)
       \/ \E u \in User : New!Deletes(u)
       \/ New!CleanupIdle \/ New!HealthCheck \/ New!PvcSweep
    /\ UNCHANGED oldVars

OverlapNext ==
    \/ OldStep \/ NewStep
    \/ ClusterMoves /\ UNCHANGED newVars
    \/ Tick /\ New!Tick

OverlapSpec == OverlapInit /\ [][OverlapNext]_<<vars, newVars>>

-----------------------------------------------------------------------------
\* "Manages pod lifecycle (idle timeout, cleanup, eviction)" (README.md:10): when
\* the old proxy is gone and no call has raised, the new one knows every live pod;
\* a pod it does not know is never idle, never evicted and never deleted.
HandedOver == OldGone => New!NoLeakedPod
=============================================================================
