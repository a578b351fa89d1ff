----------------------------- MODULE CheckEngine -----------------------------
(***************************************************************************)
(* Consistency checks and the pre-check of a sync: internal/services/      *)
(* checker.go, runPreCheck of runner.go, the check alerts of alerts.go.    *)
(*                                                                         *)
(* A check run is polled by everybody who is interested in it: the node's  *)
(* poll-running-checks job and the goroutine that waits for a pre-check,   *)
(* which gives up at its deadline.  Both read the row, ask the rcd and     *)
(* save their whole copy of the row.  Only the node that submitted a check *)
(* touches it (module RunEngine), so there is one node here.               *)
(***************************************************************************)
EXTENDS Naturals, Sequences

CONSTANTS
    Waiter,         \* goroutines of RunTask with a pre-check
    Poller,         \* the poll-running-checks job
    MaxChecks,      \* model bound: check runs ever created
    MaxCrashes,     \* model bound: process crashes
    MaxRcdRestarts  \* model bound: rcd restarts

ASSUME CheckAssumption ==
    /\ Poller \notin Waiter
    /\ MaxChecks \in Nat \ {0} /\ MaxCrashes \in Nat /\ MaxRcdRestarts \in Nat

VARIABLES
    check,     \* check_runs, by id
    lastId,    \* AUTO_INCREMENT of check_runs
    rcd,       \* the rcd's check jobs, by job id
    at,        \* where each goroutine is, with its copy of a row
    todo,      \* the running checks the poll job has listed and not yet polled
    sync,      \* each waiter's check, and what its trigger came to
    budget,    \* crashes and rcd restarts that may still happen
    fired,     \* history: firing webhooks delivered, by check run
    truth      \* history: what the check's own job found

vars == <<check, lastId, rcd, at, todo, sync, budget, fired, truth>>

Actor == Waiter \cup {Poller}
CheckId == 1 .. MaxChecks
NoJob == 0

\* What a job comes to: both sides agree; they differ; nothing was found to differ,
\* but some files could not be read and compared; the job itself failed.
Outcome == {"same", "differ", "unread", "error"}

\* The result says success = false, whichever of the two it was.
Unsuccessful == {"differ", "unread"}

\* The result column is empty unless a finished job left one.
Row == [status : {"none", "pending", "running", "success", "failed"}, job : Nat,
        result : {"none"} \cup Outcome, notified : BOOLEAN]
NoRow == [status |-> "none", job |-> NoJob, result |-> "none", notified |-> FALSE]
Job == [check : CheckId, state : {"executing"} \cup Outcome]

Pc == {"idle", "pending", "submitted", "unstarted", "poll", "save", "late", "notify",
       "mark", "resolve", "clear", "return"}
Idle == [pc |-> "idle", id |-> 1, copy |-> NoRow]

Verdict == {"none", "synced", "skipped", "blocked", "failed"}

TypeOK ==
    /\ check \in [CheckId -> Row]
    /\ lastId \in 0 .. MaxChecks
    /\ rcd \in Seq(Job)
    /\ at \in [Actor -> [pc : Pc, id : CheckId, copy : Row]]
    /\ todo \subseteq CheckId
    /\ sync \in [Waiter -> [verdict : Verdict, id : CheckId]]
    /\ budget \in [crash : Nat, rcd : Nat]
    /\ fired \in [CheckId -> Nat]
    /\ truth \in [CheckId -> {"none"} \cup Outcome]

Init ==
    /\ check = [c \in CheckId |-> NoRow]
    /\ lastId = 0
    /\ rcd = << >>
    /\ at = [a \in Actor |-> Idle]
    /\ todo = {}
    /\ sync = [w \in Waiter |-> [verdict |-> "none", id |-> 1]]
    /\ budget = [crash |-> MaxCrashes, rcd |-> MaxRcdRestarts]
    /\ fired = [c \in CheckId |-> 0]
    /\ truth = [c \in CheckId |-> "none"]

-----------------------------------------------------------------------------
Goes(a, pc, copy) == at' = [at EXCEPT ![a].pc = pc, ![a].copy = copy]
Stops(a) == at' = [at EXCEPT ![a] = Idle]
Save(c, rec) == check' = [check EXCEPT ![c] = rec]

\* A database call may fail, and the caller go on without the write.
TrySave(c, rec) == Save(c, rec) \/ UNCHANGED check

\* The pre-check of waiter w is decided, one way or the other.
Decides(w, verdict) == sync' = [sync EXCEPT ![w].verdict = verdict]

-----------------------------------------------------------------------------
(* RunCheck: a waiter's own check.  (A scheduled or manual check is one whose *)
(* waiter has died: the poll job is all that is left of it.)                  *)

Insert(w) ==
    /\ at[w].pc = "idle" /\ lastId < MaxChecks
    /\ LET pending == [NoRow EXCEPT !.status = "pending"]
       IN  /\ lastId' = lastId + 1
           /\ Save(lastId + 1, pending)
           /\ at' = [at EXCEPT ![w] = [pc |-> "pending", id |-> lastId + 1, copy |-> pending]]
    /\ sync' = [sync EXCEPT ![w] = [verdict |-> "none", id |-> lastId + 1]]
    /\ UNCHANGED <<rcd, todo, budget, fired, truth>>

\* StartCheck: the rcd starts a job; its answer, the job id, may be lost, and
\* then the check has not started as far as RunCheck can tell.
Submit(w) ==
    /\ at[w].pc = "pending"
    /\ rcd' = Append(rcd, [check |-> at[w].id, state |-> "executing"])
    /\ \/ Goes(w, "submitted", [at[w].copy EXCEPT !.status = "running", !.job = Len(rcd) + 1])
       \/ Goes(w, "unstarted", [at[w].copy EXCEPT !.status = "failed"])
    /\ UNCHANGED <<check, lastId, todo, sync, budget, fired, truth>>

\* A side that does not resolve, or a rcd that refuses the job.
StartFails(w) ==
    /\ at[w].pc = "pending"
    /\ Goes(w, "unstarted", [at[w].copy EXCEPT !.status = "failed"])
    /\ UNCHANGED <<check, lastId, rcd, todo, sync, budget, fired, truth>>

\* A failed save fails the trigger.
SaveStarted(w) ==
    /\ at[w].pc \in {"submitted", "unstarted"}
    /\ \/ /\ Save(at[w].id, at[w].copy)
          /\ Goes(w, IF at[w].pc = "submitted" THEN "poll" ELSE "notify", at[w].copy)
          /\ UNCHANGED sync
       \/ Stops(w) /\ Decides(w, "failed") /\ UNCHANGED check
    /\ UNCHANGED <<lastId, rcd, todo, budget, fired, truth>>

-----------------------------------------------------------------------------
(* PollCheck, by the waiter or by the poll job *)

\* The poll job takes its list, then one check of it after the other.
PollBegin ==
    /\ at[Poller].pc = "idle" /\ todo = {}
    /\ todo' = {c \in CheckId : check[c].status = "running"}
    /\ todo' # {}
    /\ UNCHANGED <<check, lastId, rcd, at, sync, budget, fired, truth>>

PollTake(c) ==
    /\ at[Poller].pc = "idle" /\ c \in todo
    /\ todo' = todo \ {c}
    /\ at' = [at EXCEPT ![Poller] = [pc |-> "poll", id |-> c, copy |-> NoRow]]
    /\ UNCHANGED <<check, lastId, rcd, sync, budget, fired, truth>>

\* Mutant of Answer: a 404 is retried like an unreachable rcd.
AnswerRetries404(id) == IF id \in 1 .. Len(rcd) THEN rcd[id].state ELSE "executing"

\* What the rcd answers for a job id: a job, or a definite "not found".
Answer(id) == IF id \in 1 .. Len(rcd) THEN rcd[id].state ELSE "gone"

\* Mutant of Finished: the outcome becomes the status.
FinishedRaw(rec, answer) == [rec EXCEPT !.status = answer, !.result = answer]

\* The row a poll saves after the answer of its job: the result is kept, and
\* whatever is not a success counts as a failure, which the message calls a
\* difference, errors included.
Finished(rec, answer) ==
    [rec EXCEPT !.status = IF answer = "same" THEN "success" ELSE "failed",
                !.result = IF answer = "gone" THEN @ ELSE answer]

\* A row that is not running, an unreachable rcd and an unfinished job end the
\* poll with the row as it was read.
PollRead(a) ==
    /\ at[a].pc = "poll"
    /\ LET rec == check[at[a].id]
       IN  \/ Goes(a, "return", rec)
           \/ /\ rec.status = "running" /\ Answer(rec.job) # "executing"
              /\ Goes(a, "save", Finished(rec, Answer(rec.job)))
    /\ UNCHANGED <<check, lastId, rcd, todo, sync, budget, fired, truth>>

PollSave(a) ==
    /\ at[a].pc \in {"save", "late"}
    /\ Save(at[a].id, at[a].copy)
    /\ Goes(a, IF at[a].copy.status = "failed" THEN "notify" ELSE "resolve", at[a].copy)
    /\ UNCHANGED <<lastId, rcd, todo, sync, budget, fired, truth>>

\* The poll job goes on; a waiter's trigger fails.
PollSaveFails(a) ==
    /\ at[a].pc \in {"save", "late"}
    /\ Stops(a)
    /\ IF a = Poller THEN UNCHANGED sync ELSE Decides(a, "failed")
    /\ UNCHANGED <<check, lastId, rcd, todo, budget, fired, truth>>

-----------------------------------------------------------------------------
(* NotifyCheckRunFailure and NotifyCheckRunResolved *)

Notify(a) ==
    /\ at[a].pc = "notify"
    /\ \/ /\ ~at[a].copy.notified
          /\ fired' = [fired EXCEPT ![at[a].id] = @ + 1]
          /\ Goes(a, "mark", [at[a].copy EXCEPT !.notified = TRUE])
       \/ Goes(a, "return", at[a].copy) /\ UNCHANGED fired
    /\ UNCHANGED <<check, lastId, rcd, todo, sync, budget, truth>>

\* Mutant of Mark: a save that fails repeats the notification.
MarkRetries(a) ==
    /\ at[a].pc = "mark"
    /\ \/ Save(at[a].id, at[a].copy) /\ Goes(a, "return", at[a].copy)
       \/ UNCHANGED check /\ Goes(a, "notify", [at[a].copy EXCEPT !.notified = FALSE])
    /\ UNCHANGED <<lastId, rcd, todo, sync, budget, fired, truth>>

Mark(a) ==
    /\ at[a].pc = "mark"
    /\ TrySave(at[a].id, at[a].copy)
    /\ Goes(a, "return", at[a].copy)
    /\ UNCHANGED <<lastId, rcd, todo, sync, budget, fired, truth>>

\* A success clears notified_at of the latest failed check that had fired: read
\* here, saved once the webhook is through, or not.
Unresolved == {c \in CheckId : check[c].status = "failed" /\ check[c].notified}

\* Mutant of Resolve: the earlier check is saved from a struct that was never filled.
ResolveRewrites(a) ==
    /\ at[a].pc = "resolve"
    /\ \/ \E prev \in Unresolved :
            /\ \A c \in Unresolved : c <= prev
            /\ at' = [at EXCEPT ![a] = [pc |-> "clear", id |-> prev,
                                       copy |-> [NoRow EXCEPT !.status = "failed"]]]
       \/ Goes(a, "return", at[a].copy)
    /\ UNCHANGED <<check, lastId, rcd, todo, sync, budget, fired, truth>>

Resolve(a) ==
    /\ at[a].pc = "resolve"
    /\ \/ \E prev \in Unresolved :
            /\ \A c \in Unresolved : c <= prev
            /\ at' = [at EXCEPT ![a] = [pc |-> "clear", id |-> prev,
                                       copy |-> [check[prev] EXCEPT !.notified = FALSE]]]
       \/ Goes(a, "return", at[a].copy)
    /\ UNCHANGED <<check, lastId, rcd, todo, sync, budget, fired, truth>>

\* The caller gets its own check back, a success.
Clear(a) ==
    /\ at[a].pc = "clear"
    /\ TrySave(at[a].id, at[a].copy)
    /\ Goes(a, "return", [NoRow EXCEPT !.status = "success"])
    /\ UNCHANGED <<lastId, rcd, todo, sync, budget, fired, truth>>

PollReturns ==
    /\ at[Poller].pc = "return"
    /\ Stops(Poller)
    /\ UNCHANGED <<check, lastId, rcd, todo, sync, budget, fired, truth>>

-----------------------------------------------------------------------------
(* WaitForCheck and runPreCheck *)

\* The row still runs: sleep and poll again.
WaitMore(w) ==
    /\ at[w].pc = "return" /\ at[w].copy.status = "running"
    /\ Goes(w, "poll", NoRow)
    /\ UNCHANGED <<check, lastId, rcd, todo, sync, budget, fired, truth>>

\* The deadline has passed, at the head of the loop: the row is read once more,
\* and a running one is given up.
Deadline(w) ==
    /\ at[w].pc = "poll"
    /\ LET rec == check[at[w].id]
       IN  IF rec.status = "running" THEN Goes(w, "late", [rec EXCEPT !.status = "failed"])
                                     ELSE Goes(w, "return", rec)
    /\ UNCHANGED <<check, lastId, rcd, todo, sync, budget, fired, truth>>

\* Mutant of Judge: every check that is not a success lets the sync go ahead.
JudgeByStatus(rec) == IF rec.status = "success" THEN "skipped" ELSE "synced"

\* The sync goes ahead when the check has a result and that says success = false;
\* a check without a result (failed, gone, timed out) blocks it.
Judge(rec) ==
    IF rec.status = "success" THEN "skipped"
    ELSE IF rec.result \in Unsuccessful THEN "synced" ELSE "blocked"

Decide(w) ==
    /\ at[w].pc = "return" /\ at[w].copy.status # "running"
    /\ Stops(w)
    /\ Decides(w, Judge(at[w].copy))
    /\ UNCHANGED <<check, lastId, rcd, todo, budget, fired, truth>>

\* The check's row cannot be read.
WaitFails(w) ==
    /\ at[w].pc = "poll"
    /\ Stops(w) /\ Decides(w, "failed")
    /\ UNCHANGED <<check, lastId, rcd, todo, budget, fired, truth>>

-----------------------------------------------------------------------------
(* Around the service *)

JobEnds(id) ==
    /\ id \in 1 .. Len(rcd) /\ rcd[id].state = "executing"
    /\ \E end \in Outcome :
         /\ rcd' = [rcd EXCEPT ![id].state = end]
         /\ truth' = [truth EXCEPT ![rcd[id].check] = end]
    /\ UNCHANGED <<check, lastId, at, todo, sync, budget, fired>>

\* A restarted rcd has forgotten its jobs and counts job ids from one again.
RcdRestart ==
    /\ budget.rcd > 0 /\ rcd # << >>
    /\ rcd' = << >>
    /\ budget' = [budget EXCEPT !.rcd = @ - 1]
    /\ UNCHANGED <<check, lastId, at, todo, sync, fired, truth>>

\* The process dies with its goroutines and starts again; the rcd lives on.
Crash ==
    /\ budget.crash > 0
    /\ at' = [a \in Actor |-> Idle] /\ todo' = {}
    /\ sync' = [w \in Waiter |->
                  IF at[w].pc = "idle" THEN sync[w]
                  ELSE [sync[w] EXCEPT !.verdict = "failed"]]
    /\ budget' = [budget EXCEPT !.crash = @ - 1]
    /\ UNCHANGED <<check, lastId, rcd, fired, truth>>

-----------------------------------------------------------------------------
WaiterStep(w) ==
    \/ Submit(w) \/ StartFails(w) \/ SaveStarted(w)
    \/ WaitMore(w) \/ Deadline(w) \/ Decide(w) \/ WaitFails(w)

PollStep(a) ==
    PollRead(a) \/ PollSave(a) \/ PollSaveFails(a) \/ Notify(a) \/ Mark(a)
    \/ Resolve(a) \/ Clear(a)

PollJob == PollBegin \/ PollReturns \/ \E c \in CheckId : PollTake(c)

Next ==
    \/ \E w \in Waiter : Insert(w) \/ WaiterStep(w)
    \/ \E a \in Actor : PollStep(a)
    \/ PollJob \/ RcdRestart \/ Crash
    \/ \E id \in 1 .. MaxChecks : JobEnds(id)

Spec == Init /\ [][Next]_vars

\* gocron starts the poll job every POLL_INTERVAL_SECONDS; jobs end, and neither
\* the rcd's answers nor the saves fail for ever.
Fairness ==
    /\ WF_vars(PollJob) /\ WF_vars(PollStep(Poller))
    /\ SF_vars(PollRead(Poller) /\ at'[Poller].pc = "save") /\ SF_vars(PollSave(Poller))
    /\ \A id \in 1 .. MaxChecks : WF_vars(JobEnds(id))

FairSpec == Spec /\ Fairness

-----------------------------------------------------------------------------
(* Properties *)

\* Job ids are unambiguous until the rcd restarts.
RcdLives == budget.rcd = MaxRcdRestarts

\* A sync is skipped as up to date only when the check's own job found agreement,
\* and goes ahead only when that job came through and did not: it found a
\* difference, or could not read what it had to compare.  A check whose job failed
\* or vanished, that never started or that timed out lets no sync go ahead, whoever
\* polled the job first and whatever was saved over.  (docs/api.md, pre_check_task_id,
\* would have every error of the check block the sync: the code does not do so for
\* files that could not be read, and "unread" is here because of that.)
VerdictIsTrue ==
    \A w \in Waiter : RcdLives =>
        /\ sync[w].verdict = "synced" => truth[sync[w].id] \in Unsuccessful
        /\ sync[w].verdict = "skipped" => truth[sync[w].id] = "same"

\* The check run a decision points to goes on saying what the decision was based
\* on: no whole-row save of the other poller wipes it out.
VerdictIsRecorded ==
    \A w \in Waiter : RcdLives =>
        /\ sync[w].verdict = "synced" =>
             /\ check[sync[w].id].result \in Unsuccessful
             /\ check[sync[w].id].result = truth[sync[w].id]
        /\ sync[w].verdict = "skipped" => check[sync[w].id].status = "success"

\* notified_at keeps a failed check from firing again: not from firing twice, as the
\* waiter and the poll job may both have read it unnotified, but from then on,
\* through failed saves, crashes and the polls of a restarted process.
CheckAlertsTwiceAtMost == \A c \in CheckId : fired[c] <= 2

-----------------------------------------------------------------------------
(* The inductive invariant behind these properties *)

Finals == {"success", "failed"}
Writes == {"save", "late", "notify", "mark", "clear"}

\* Waiter w has been given a check, and is polling it or about to.
Begun(w) == at[w].pc # "idle" \/ sync[w].verdict # "none"
Starts(w) == at[w].pc \in {"pending", "submitted", "unstarted"}
Waits(w) ==
    \/ Starts(w) \/ at[w].pc \in {"poll", "save", "late", "notify"}
    \/ at[w].pc = "return" /\ at[w].copy.status = "running"

\* A check has been given to one waiter, which works on no other one but when it
\* clears an alert, and is done when it has decided.
Ownership ==
    /\ \A v, w \in Waiter : Begun(v) /\ Begun(w) /\ sync[v].id = sync[w].id => v = w
    /\ \A w \in Waiter : Begun(w) => sync[w].id <= lastId
    /\ \A w \in Waiter : Waits(w) \/ at[w].pc \in {"mark", "resolve"} => at[w].id = sync[w].id
    /\ \A w \in Waiter : sync[w].verdict # "none" => at[w].pc = "idle"

\* Nothing is known of an id that has not been given out.
FreshIds ==
    /\ \A c \in CheckId : c > lastId =>
         check[c].status = "none" /\ fired[c] = 0 /\ truth[c] = "none" /\ c \notin todo
    /\ \A a \in Actor : at[a].pc # "idle" => at[a].id <= lastId
    /\ \A j \in DOMAIN rcd : rcd[j].check <= lastId

\* Until its job id is saved a check is its waiter's alone; a check that somebody
\* notifies has ended, for good.
Phases ==
    /\ \A w \in Waiter : Starts(w) =>
         /\ check[at[w].id].status = "pending" /\ at[w].id \notin todo
         /\ \A a \in Actor : at[a].pc # "idle" /\ at[a].id = at[w].id => a = w
    /\ \A a \in Actor :
         /\ at[a].pc \in {"notify", "mark", "resolve", "clear"} =>
              check[at[a].id].status \in Finals
         /\ at[a].pc \in {"save", "late"} => at[a].copy.status \in Finals
         /\ at[a].pc \in {"unstarted", "notify", "mark", "clear"} =>
              at[a].copy.status = "failed"
         /\ at[a].pc = "resolve" => at[a].copy.status = "success"
         /\ at[a].pc = "submitted" => at[a].copy.status = "running"
         /\ at[a].pc \in {"pending", "submitted", "unstarted"} => at[a].copy.result = "none"
    /\ at[Poller].pc \notin {"pending", "submitted", "unstarted", "late"}
    /\ at[Poller].pc \in {"poll", "save", "notify"} => at[Poller].id \notin todo

\* The waiter of c may still fire for it; the poll job may.
WaiterMayFire(c) == \E w \in Waiter : Waits(w) /\ sync[w].id = c
PollerMayFire(c) ==
    \/ check[c].status \in {"pending", "running"} \/ c \in todo
    \/ at[Poller].pc \in {"poll", "save", "notify"} /\ at[Poller].id = c

\* Each of the two has one shot.
Shots ==
    \A c \in CheckId :
        /\ fired[c] <= 2
        /\ WaiterMayFire(c) \/ PollerMayFire(c) => fired[c] <= 1
        /\ WaiterMayFire(c) /\ PollerMayFire(c) => fired[c] = 0

\* A check has one job, which row and waiter know by its id.
JobOf(c, j) == j \in DOMAIN rcd /\ rcd[j].check = c
Jobs ==
    /\ \A i, j \in DOMAIN rcd : rcd[i].check = rcd[j].check => i = j
    /\ \A j \in DOMAIN rcd :
         truth[rcd[j].check] = IF rcd[j].state = "executing" THEN "none" ELSE rcd[j].state
    /\ \A w \in Waiter :
         /\ at[w].pc = "pending" =>
              truth[at[w].id] = "none" /\ \A j \in DOMAIN rcd : rcd[j].check # at[w].id
         /\ at[w].pc = "submitted" => JobOf(at[w].id, at[w].copy.job)
    /\ \A c \in CheckId : check[c].status = "running" => JobOf(c, check[c].job)

\* What a row, or a copy that will be saved, says of the result of check c.
Sound(c, rec) ==
    /\ rec.result # "none" => rec.status \in Finals /\ truth[c] = rec.result
    /\ rec.status = "success" <=> rec.result = "same"

Results ==
    /\ \A c \in CheckId : Sound(c, check[c])
    /\ \A a \in Actor :
         /\ at[a].pc \in Writes \cup {"resolve"} => Sound(at[a].id, at[a].copy)
         /\ at[a].pc = "save" => at[a].copy.result # "none"
         /\ at[a].pc = "late" => at[a].copy.result = "none"
    /\ \A w \in Waiter :
         /\ at[w].pc = "clear" => truth[sync[w].id] = "same"
         /\ at[w].pc = "return" =>
              /\ at[w].copy.status = "success" => truth[sync[w].id] = "same"
              /\ at[w].copy.result \in Unsuccessful => truth[sync[w].id] \in Unsuccessful

\* A waiter that has not given its check up, and one that has seen its end.
Follows(w) ==
    \/ at[w].pc \in {"pending", "submitted", "poll", "save"}
    \/ at[w].pc = "return" /\ at[w].copy.status = "running"
Knows(w) ==
    \/ at[w].pc \in {"resolve", "clear"}
    \/ /\ at[w].pc \in {"notify", "mark", "return"}
       /\ at[w].copy.result # "none" \/ at[w].copy.status = "success"
    \/ at[w].pc = "idle" /\ sync[w].verdict \in {"synced", "skipped"}

\* Nobody will wipe out the result of a check that its waiter has not given up.
Kept ==
    \A w \in Waiter :
        /\ Knows(w) => check[sync[w].id].status \in Finals
        /\ Follows(w) \/ Knows(w) =>
             /\ check[sync[w].id].status \in Finals => check[sync[w].id].result # "none"
             /\ \A a \in Actor :
                  at[a].pc \in Writes /\ at[a].id = sync[w].id => at[a].copy.result # "none"

CheckInv ==
    /\ TypeOK /\ budget.rcd <= MaxRcdRestarts
    /\ Ownership /\ FreshIds /\ Phases /\ Shots
    /\ RcdLives => Jobs /\ Results /\ Kept
    /\ VerdictIsTrue

-----------------------------------------------------------------------------
\* A running check is completed, also when the goroutine that waited for it is
\* gone: by the poll job.
CheckEnds ==
    \A c \in CheckId : (check[c].status = "running") ~> (check[c].status # "running")
=============================================================================
