--------------------------- MODULE ResearchSystem ----------------------------
(***************************************************************************)
(* The deployment, the loads and the research half of the worker together. *)
(* The services and one-shot jobs start when the migrations of their stack *)
(* have ended well; here (bound) when those of all stacks have, as the two *)
(* share no state afterwards.                                              *)
(***************************************************************************)
EXTENDS Deployment, ResearchWorker

systemVars == <<deployVars, loadVars, workerVars>>

SystemInit == DeployInit /\ LoadsInit /\ WorkerInit

Up == \A m \in Migrators : stage[m] = "done"

SystemNext ==
  \/ DeployNext /\ UNCHANGED <<loadVars, workerVars>>
  \/ Up /\ LoadsNext /\ UNCHANGED <<deployVars, workerVars>>
  \/ Up /\ WorkerNext /\ UNCHANGED <<deployVars, loadVars>>

SystemSpec == SystemInit /\ [][SystemNext]_systemVars

\* The clock runs and the worker, a loop that never returns, takes its next
\* step.  Jobs, which people start and which may stop, need not do anything.
SystemFairness ==
  /\ WF_systemVars(Up /\ WorkerStep /\ UNCHANGED <<deployVars, loadVars>>)
  /\ WF_systemVars(Up /\ HourPasses /\ UNCHANGED <<deployVars, loadVars>>)

\* If from some time on no rank or publication fails and the worker is not
\* restarted, the published ranks become those of the newest session and of
\* every fact known to it, and stay so, whatever loads stopped half-way before
\* and though a configured strategy does not exist
\* (worker.py:72-107, research_scoring.py:28-36).
RanksCatchUp ==
  <>[][~ WorkerFails]_systemVars => <>[]RanksCurrent

=============================================================================
