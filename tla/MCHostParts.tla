------------------------------ MODULE MCHostParts ------------------------------
(***************************************************************************)
(* TLC instance of three parts that share no state: the overlay of an      *)
(* expanded widget (ExpandOverlay), the overlay of plans (PlansOverlay)    *)
(* and the records of a host session in Redis (RedisHostStore), where the  *)
(* session and the bootstrap token do not depend on each other either.  A  *)
(* behaviour is one of one part.                                           *)
(***************************************************************************)
EXTENDS ExpandOverlay, PlansOverlay, RedisHostStore, TLC

CONSTANTS f1, f2, q1, q2, k1

VARIABLE part   \* the part that the behaviour is of
partVars == <<part, expandVars, planVars, storeVars>>

MCFrames == {f1, f2}
MCInPlace == {f2}
MCRequests == {q1, q2}
MCClicks == {k1}

\* The calls of touch are alike, and so are the overlays, tasks and intents of the plans.
PartsSymmetry ==
  Permutations(Touches) \cup Permutations(Overlays) \cup Permutations(Tasks)
    \cup Permutations(Intents)

PartsInit ==
  /\ part \in {"expand", "plans", "session", "replay"}
  /\ ExpandInit /\ PlansInit /\ StoreInit

\* Bound: two requests, or one and a click; q1 is asked first.
ExpandBound ==
  /\ Cardinality({r \in Handled : run'[r].step # "idle"}) <= 2
  /\ run'[q2].step # "idle" => run'[q1].step # "idle"

\* Bound: a page is mounted again while its URL carries a paid return, and shows no
\* history tab then or later.
PlansBound ==
  mounts' > 1 => /\ mounts' > mounts => url \in [intent : Intents, status : {"paid"}]
                 /\ \A o \in Overlays : view'[o] = "plans"

PartsNext ==
  /\ UNCHANGED part
  /\ \/ part = "expand" /\ ExpandNext /\ ExpandBound /\ UNCHANGED <<planVars, storeVars>>
     \/ part = "plans" /\ PlansNext /\ PlansBound /\ UNCHANGED <<expandVars, storeVars>>
     \/ /\ \/ part = "session" /\ (Tick \/ SessionNext)
           \/ part = "replay" /\ (Tick \/ ReplayNext)
        /\ UNCHANGED <<expandVars, planVars>>

PartsSpec == PartsInit /\ [][PartsNext]_partVars

\* The state of each part has the types the code gives it (ExpandOverlay, PlansOverlay,
\* RedisHostStore).
PartsTypeOK == ExpandTypeOK /\ PlansTypeOK /\ StoreTypeOK
=============================================================================
