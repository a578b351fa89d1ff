------------------------------ MODULE RunLife ------------------------------
(***************************************************************************)
(* What the sync run engine promises of the life of a run, whatever        *)
(* goroutines, polls and crashes bring it about: its job is started at     *)
(* most once, and only while the run is still being decided; the run goes  *)
(* from pending through running to an end, never back; it is running or    *)
(* finished only when its start was accepted, and it ends as its job did,  *)
(* if the rcd still knows; its alert is fired at most once, after it       *)
(* failed.  A run of which the start was refused says failed, and its job  *)
(* may execute all the same: the answer was lost.                          *)
(***************************************************************************)
EXTENDS Naturals

CONSTANTS
    Run,       \* ids
    Inherited  \* runs older than node attribution, of which less is promised

VARIABLES
    issued,    \* the last id given out
    status,    \* by run; "none" where there is no row
    deciding,  \* runs that may still be started
    accepted,  \* runs of which the rcd has confirmed the start
    refused,   \* runs of which it has not
    jobs,      \* what the rcds know: at most one job of each run
    alerts     \* by run, firing webhooks delivered

lifeVars == <<issued, status, deciding, accepted, refused, jobs, alerts>>

Held == deciding \cup accepted \cup refused

LifeInit ==
    /\ issued \in Nat /\ Inherited = 1 .. issued
    /\ status = [r \in Run |-> IF r \in Inherited THEN "running" ELSE "none"]
    /\ deciding = {} /\ accepted = {} /\ refused = {}
    /\ jobs = [run : Inherited, state : {"executing"}]
    /\ alerts = [r \in Run |-> 0]

\* Row r is written; a row that was deleted before comes back.
Becomes(r, from, to) ==
    /\ status[r] \in {from, "none"} /\ status' = [status EXCEPT ![r] = to]

\* A run is recorded, to be decided on or skipped at once.
Record ==
    /\ issued + 1 \in Run /\ issued' = issued + 1
    /\ \/ /\ status' = [status EXCEPT ![issued'] = "skipped"]
          /\ UNCHANGED deciding
       \/ /\ status' = [status EXCEPT ![issued'] = "pending"]
          /\ deciding' = deciding \cup {issued'}
    /\ UNCHANGED <<accepted, refused, jobs, alerts>>

\* Decided against: no job of it is ever started.
Skip(r) ==
    /\ r \in deciding /\ Becomes(r, "pending", "skipped")
    /\ deciding' = deciding \ {r}
    /\ UNCHANGED <<issued, accepted, refused, jobs, alerts>>

\* The job is started; its answer comes or is lost.
Start(r) ==
    /\ r \in deciding /\ \A j \in jobs : j.run # r
    /\ jobs' = jobs \cup {[run |-> r, state |-> "executing"]}
    /\ deciding' = deciding \ {r}
    /\ \/ accepted' = accepted \cup {r} /\ UNCHANGED refused
       \/ refused' = refused \cup {r} /\ UNCHANGED accepted
    /\ UNCHANGED <<issued, status, alerts>>

Refuse(r) ==
    /\ r \in deciding
    /\ deciding' = deciding \ {r} /\ refused' = refused \cup {r}
    /\ UNCHANGED <<issued, status, accepted, jobs, alerts>>

\* What became of the start is saved, or that fails.
Confirm(r) ==
    /\ r \in accepted /\ accepted' = accepted \ {r}
    /\ Becomes(r, "pending", "running") \/ UNCHANGED status
    /\ UNCHANGED <<issued, deciding, refused, jobs, alerts>>

Fail(r) ==
    /\ r \in refused /\ refused' = refused \ {r}
    /\ Becomes(r, "pending", "failed") \/ UNCHANGED status
    /\ UNCHANGED <<issued, deciding, accepted, jobs, alerts>>

\* A run that nobody holds any more ends as its job did, if that is known.
Verdict(r, end) ==
    \A j \in jobs : j.run = r => j.state = IF end = "success" THEN "ok" ELSE "error"

Finish(r, end) ==
    /\ r <= issued /\ r \notin Held
    /\ r \in Inherited \/ Verdict(r, end)
    /\ Becomes(r, "running", end)
    /\ UNCHANGED <<issued, deciding, accepted, refused, jobs, alerts>>

\* The alert of a failed run is delivered, once.
Alert(r) ==
    /\ status[r] \in {"failed", "none"} /\ r <= issued /\ r \notin Held
    /\ alerts[r] = 0 /\ alerts' = [alerts EXCEPT ![r] = 1]
    /\ UNCHANGED <<issued, status, deciding, accepted, refused, jobs>>

\* Whoever writes down that the alert was delivered, or resolved, brings back a
\* row deleted meanwhile: as failed.
Remember(r) ==
    /\ alerts[r] = 1 /\ r \notin Held /\ Becomes(r, "failed", "failed")
    /\ UNCHANGED <<issued, deciding, accepted, refused, jobs, alerts>>

-----------------------------------------------------------------------------
(* What happens to runs *)

JobEnd(j, end) ==
    /\ j \in jobs /\ j.state = "executing"
    /\ jobs' = (jobs \ {j}) \cup {[j EXCEPT !.state = end]}
    /\ UNCHANGED <<issued, status, deciding, accepted, refused, alerts>>

\* A rcd forgets its jobs.
Forget ==
    /\ jobs' \in SUBSET jobs
    /\ UNCHANGED <<issued, status, deciding, accepted, refused, alerts>>

\* A process dies with the runs it held.
Abandon ==
    /\ deciding' \in SUBSET deciding
    /\ accepted' \in SUBSET accepted /\ refused' \in SUBSET refused
    /\ UNCHANGED <<issued, status, jobs, alerts>>

Delete ==
    /\ \E gone \in SUBSET Run :
         status' = [r \in Run |-> IF r \in gone THEN "none" ELSE status[r]]
    /\ UNCHANGED <<issued, deciding, accepted, refused, jobs, alerts>>

LifeNext ==
    \/ Record \/ Forget \/ Abandon \/ Delete
    \/ \E r \in Run :
         \/ Skip(r) \/ Start(r) \/ Refuse(r) \/ Confirm(r) \/ Fail(r)
         \/ \E end \in {"success", "failed"} : Finish(r, end)
         \/ Alert(r) \/ Remember(r)
    \/ \E j \in jobs, end \in {"ok", "error"} : JobEnd(j, end)

LifeSpec == LifeInit /\ [][LifeNext]_lifeVars
=============================================================================
