---------------------------- MODULE MCRuntimeFlags ----------------------------
(***************************************************************************)
(* A small instance of RuntimeFlags for TLC: one web app with two loops at  *)
(* most, each beside one that drains, or one app and a standalone worker.   *)
(***************************************************************************)
EXTENDS RuntimeFlags

CONSTANTS app, worker, s1, s2, s3, q1, q2

\* One app and two requests; a loop may drain while the row asks for two others.
AppHomes == [x \in {s1, s2, s3, q1, q2} |-> app]
AppSymmetry == Permutations({s1, s2, s3}) \cup Permutations({q1, q2})

\* Pause, resume, no embedded loops, one loop more than allowed.
AppPatches ==
    {"processingEnabled" :> FALSE, "processingEnabled" :> TRUE,
     "embeddedWorker" :> FALSE, "embeddedWorkerCount" :> 3}

\* An app and a standalone worker with a loop each, and a request.
BothHomes == (s1 :> app) @@ (s3 :> worker) @@ (q1 :> app)
BothPatches ==
    {"processingEnabled" :> FALSE, "processingEnabled" :> TRUE, "embeddedWorker" :> FALSE}
=============================================================================
