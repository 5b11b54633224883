--------------------------- MODULE DownloadPromise ---------------------------
(***************************************************************************)
(* What the service promises about a download, for someone who sees only   *)
(* the state of a job and the file under its final name, and nothing of    *)
(* workers, engines, attempts, permits and restarts.                       *)
(*                                                                         *)
(* The service creates a final file only for an open job and only where    *)
(* there is none; it reports a job completed only while its own file is    *)
(* there; removed and completed are final.  The file system belongs to     *)
(* others too: they may change what is under the final name at any time,   *)
(* but the file the service made, once gone, only the service brings back. *)
(***************************************************************************)
CONSTANT Jobs

VARIABLES
  stage,   \* "absent", "open", "removed" or "completed"
  final    \* what is under the final name: "none", "ours", "foreign"

promiseVars == <<stage, final>>

PromiseInit ==
  /\ stage = [j \in Jobs |-> "absent"]
  /\ final = [j \in Jobs |-> "none"]

Move(j, from, to) == stage[j] = from /\ stage' = [stage EXCEPT ![j] = to]

Submit(j)   == Move(j, "absent", "open") /\ UNCHANGED final
Remove(j)   == Move(j, "open", "removed") /\ UNCHANGED final
Complete(j) == Move(j, "open", "completed") /\ final[j] = "ours" /\ UNCHANGED final

Publish(j) ==
  /\ stage[j] = "open" /\ final[j] = "none"
  /\ final' = [final EXCEPT ![j] = "ours"]
  /\ UNCHANGED stage

Others(j) ==
  /\ \E f \in {"none", "foreign"} : final' = [final EXCEPT ![j] = f]
  /\ UNCHANGED stage

PromiseNext ==
  \E j \in Jobs : Submit(j) \/ Remove(j) \/ Complete(j) \/ Publish(j) \/ Others(j)

PromiseSpec == PromiseInit /\ [][PromiseNext]_promiseVars
=============================================================================
