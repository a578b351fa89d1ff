------------------------------ MODULE RcdManager ------------------------------
(***************************************************************************)
(* The rclone daemon (rcd) that a server launches, waits for and kills     *)
(* (internal/rclone/manager.go), the server's start, failure and graceful  *)
(* end (internal/api/app.go, internal/cli/root.go), and the stop command   *)
(* (internal/cli/stop.go).                                                 *)
(*                                                                         *)
(* A server is one process with two goroutines: main runs App.Start, and a *)
(* signal starts App.Shutdown in another one; the process ends when either *)
(* comes to its end.  The rcd has a process group of its own and outlives  *)
(* it.  Servers share a directory, hence the two pid files, and the        *)
(* address of the rcd.                                                     *)
(***************************************************************************)
EXTENDS Naturals

CONSTANTS
    Servers,    \* model bound: server processes, numbered as they are started
    MaxFaults   \* model bound: crashes, and probes that time out

ASSUME RcdAssumption == Servers \in Nat /\ MaxFaults \in Nat

Server == 1..Servers
Nobody == 0     \* an absent pid file

RcdPc == {"none", "boot", "serve", "dead"}
Ended == {"failed", "returned", "signalled", "crashed"}
MainPc == Ended \cup {"off", "probe", "record", "wait", "abandon", "steps", "serve",
                      "return", "undo"}
SigPc == {"idle", "close", "stop", "kill", "exit"}
StopPc == {"server", "waitServer", "rcd", "waitRcd", "done"}

VARIABLES
    rcd,        \* the process that each server launched
    outside,    \* what somebody else runs on the address: nothing, an rcd with the
                \* same credentials, or something foreign
    main,       \* where each server's main goroutine is, or how it ended
    cmd,        \* Manager.cmd is set
    sig,        \* where each server's Shutdown goroutine is
    pidFile,    \* the server that the server's pid file names
    rcdPid,     \* the server whose rcd the file rcd.pid names
    stop,       \* the stop command
    faults,
    untracked   \* history: rcds that rcd.pid was kept from naming, see Tracked

rcds == <<rcd, outside>>
files == <<pidFile, rcdPid, untracked>>
vars == <<rcds, main, cmd, sig, files, stop, faults>>

TypeOK ==
    /\ rcd \in [Server -> RcdPc]
    /\ outside \in {"none", "rcd", "foreign"}
    /\ main \in [Server -> MainPc]
    /\ cmd \in [Server -> BOOLEAN]
    /\ sig \in [Server -> SigPc]
    /\ pidFile \in Server \cup {Nobody} /\ rcdPid \in Server \cup {Nobody}
    /\ stop \in [pc : StopPc, target : Server \cup {Nobody}]
    /\ faults \in Nat
    /\ untracked \subseteq Server

Live(s) == rcd[s] \in {"boot", "serve"}

Up(s) == main[s] \notin {"off"} \cup Ended

\* What a probe of the address finds: 200, another status, or nobody.
Answer ==
    IF \E s \in Server : rcd[s] = "serve" THEN "ok"
    ELSE IF outside = "rcd" THEN "ok"
    ELSE IF outside = "foreign" THEN "foreign" ELSE "down"

Init ==
    /\ rcd = [s \in Server |-> "none"]
    /\ outside \in {"none", "rcd", "foreign"}
    /\ main = [s \in Server |-> "off"]
    /\ cmd = [s \in Server |-> FALSE]
    /\ sig = [s \in Server |-> "idle"]
    /\ pidFile = Nobody /\ rcdPid = Nobody
    /\ stop = [pc |-> "server", target |-> Nobody]
    /\ faults = 0
    /\ untracked = {}

Fault == faults < MaxFaults /\ faults' = faults + 1

Goto(s, pc) == main' = [main EXCEPT ![s] = pc]

\* The process ends, and with it its goroutines and what they know.
Ends(s, how) ==
    /\ Goto(s, how)
    /\ cmd' = [cmd EXCEPT ![s] = FALSE]
    /\ sig' = [sig EXCEPT ![s] = "idle"]

\* os.Remove("rcd.pid") on behalf of s, or of s's rcd, whatever the file says.
Unlink(s) ==
    /\ rcdPid' = Nobody
    /\ untracked' = untracked \cup {t \in {rcdPid} \ {s, Nobody} : Live(t)}

-----------------------------------------------------------------------------
(* Manager.Start *)

\* App.Start: database, then the pid file, then the rcd.
Begin(s) ==
    /\ main[s] = "off" /\ \A t \in 1..(s - 1) : main[t] # "off"
    /\ Goto(s, "probe")
    /\ pidFile' = s
    /\ UNCHANGED <<rcds, cmd, sig, rcdPid, untracked, stop, faults>>

\* An rcd answers already: nothing is launched, and Stop will have nothing to do.
Adopt(s) ==
    /\ main[s] = "probe" /\ Answer = "ok"
    /\ Goto(s, "steps")
    /\ UNCHANGED <<rcds, cmd, sig, files, stop, faults>>

\* The address is taken by something else, or the binary cannot be started.
StartRefused(s) ==
    /\ main[s] = "probe" /\ Answer # "ok"
    /\ Ends(s, "failed")
    /\ UNCHANGED <<rcds, files, stop, faults>>

\* Mutant of LaunchRcd: Manager.cmd is only set when the rcd answers.
LaunchRcdUnowned(s) ==
    /\ main[s] = "probe"
    /\ IF Answer = "down" THEN UNCHANGED faults ELSE Fault
    /\ rcd' = [rcd EXCEPT ![s] = "boot"]
    /\ Goto(s, "record")
    /\ UNCHANGED <<outside, cmd, sig, files, stop>>

\* Nobody answers, or not in time.
LaunchRcd(s) ==
    /\ main[s] = "probe"
    /\ IF Answer = "down" THEN UNCHANGED faults ELSE Fault
    /\ rcd' = [rcd EXCEPT ![s] = "boot"]
    /\ cmd' = [cmd EXCEPT ![s] = TRUE]
    /\ Goto(s, "record")
    /\ UNCHANGED <<outside, sig, files, stop>>

\* rcd.pid is written, over whatever another server has written.
Record(s) ==
    /\ main[s] = "record"
    /\ rcdPid' = s
    /\ untracked' = untracked \cup {t \in {rcdPid} \ {s, Nobody} : Live(t)}
                              \cup {t \in {s} : stop.pc = "done"}
    /\ Goto(s, "wait")
    /\ UNCHANGED <<rcds, cmd, sig, pidFile, stop, faults>>

\* cmd.Wait has returned: the rcd could not bind, or died.
EarlyExit(s) ==
    /\ main[s] = "wait" /\ rcd[s] = "dead"
    /\ Unlink(s)
    /\ Ends(s, "failed")
    /\ UNCHANGED <<rcds, pidFile, stop, faults>>

\* A probe is answered: by this rcd, or by one this server did not launch.
Ready(s) ==
    /\ main[s] = "wait" /\ Answer = "ok"
    /\ Goto(s, "steps")
    /\ UNCHANGED <<rcds, cmd, sig, files, stop, faults>>

\* Mutant of Deadline: the loop goes on until the rcd answers.
NoDeadline(s) == FALSE /\ UNCHANGED vars

\* The deadline passes and the last probe was not answered: kill begins.
Deadline(s) ==
    /\ main[s] = "wait" /\ Answer # "ok"
    /\ Goto(s, "abandon")
    /\ UNCHANGED <<rcds, cmd, sig, files, stop, faults>>

\* kill returns when the process has ended, by a SIGKILL after ten seconds if
\* need be.  Neither Manager.cmd nor rcd.pid is cleared.
Abandon(s) ==
    /\ main[s] = "abandon"
    /\ rcd' = [rcd EXCEPT ![s] = "dead"]
    /\ Ends(s, "failed")
    /\ UNCHANGED <<outside, files, stop, faults>>

-----------------------------------------------------------------------------
(* The rest of App.Start *)

Serve(s) ==
    /\ main[s] = "steps"
    /\ Goto(s, "serve")
    /\ UNCHANGED <<rcds, cmd, sig, files, stop, faults>>

\* Mutant of StepFails: no deferred Manager.Stop.
StepFailsAtOnce(s) ==
    /\ main[s] \in {"steps", "serve"}
    /\ Ends(s, "failed")
    /\ UNCHANGED <<rcds, files, stop, faults>>

\* A later step fails, or the port of the API cannot be bound: the deferred
\* Manager.Stop kills the rcd if this server launched one.
StepFails(s) ==
    /\ main[s] \in {"steps", "serve"}
    /\ IF cmd[s] THEN Goto(s, "undo") /\ UNCHANGED <<cmd, sig>> ELSE Ends(s, "failed")
    /\ UNCHANGED <<rcds, files, stop, faults>>

Undo(s) ==
    /\ main[s] = "undo"
    /\ rcd' = [rcd EXCEPT ![s] = "dead"]
    /\ Unlink(s)
    /\ Ends(s, "failed")
    /\ UNCHANGED <<outside, pidFile, stop, faults>>

\* ListenAndServe returns as soon as srv.Shutdown has been called, Start returns
\* nil, and with main the process ends, wherever Shutdown has come to.
MainReturns(s) ==
    /\ main[s] = "return"
    /\ Ends(s, "returned")
    /\ UNCHANGED <<rcds, files, stop, faults>>

-----------------------------------------------------------------------------
(* App.Shutdown, in the goroutine of the signal handler *)

Signal(s) ==
    /\ Up(s) /\ sig[s] = "idle"
    /\ sig' = [sig EXCEPT ![s] = "close"]
    /\ UNCHANGED <<rcds, main, cmd, files, stop, faults>>

\* srv.Shutdown, if there is a server yet, then the elector and the scheduler.
Close(s) ==
    /\ Up(s) /\ sig[s] = "close"
    /\ main' = [main EXCEPT ![s] = IF @ = "serve" THEN "return" ELSE @]
    /\ sig' = [sig EXCEPT ![s] = "stop"]
    /\ UNCHANGED <<rcds, cmd, files, stop, faults>>

\* Manager.Stop, unless Manager.Start has not returned yet or launched nothing.
StopManager(s) ==
    /\ Up(s) /\ sig[s] = "stop"
    /\ IF cmd[s] /\ main[s] \in {"steps", "serve", "return", "undo"}
         THEN sig' = [sig EXCEPT ![s] = "kill"]
         ELSE sig' = [sig EXCEPT ![s] = "exit"]
    /\ UNCHANGED <<rcds, main, cmd, files, stop, faults>>

\* Mutant of Killed: no SIGKILL.
KilledByTerm(s) ==
    /\ Up(s) /\ sig[s] = "kill" /\ rcd[s] = "dead"
    /\ cmd' = [cmd EXCEPT ![s] = FALSE]
    /\ sig' = [sig EXCEPT ![s] = "exit"]
    /\ Unlink(s)
    /\ UNCHANGED <<rcds, main, pidFile, stop, faults>>

Killed(s) ==
    /\ Up(s) /\ sig[s] = "kill"
    /\ rcd' = [rcd EXCEPT ![s] = "dead"]
    /\ cmd' = [cmd EXCEPT ![s] = FALSE]
    /\ sig' = [sig EXCEPT ![s] = "exit"]
    /\ Unlink(s)
    /\ UNCHANGED <<outside, main, pidFile, stop, faults>>

\* A server whose rcd was launched but never recorded leaves it untracked.
Unrecorded(s) == {t \in {s} : main[t] = "record"}

\* The pid file is removed, then os.Exit.
OsExit(s) ==
    /\ Up(s) /\ sig[s] = "exit"
    /\ pidFile' = Nobody
    /\ untracked' = untracked \cup Unrecorded(s)
    /\ Ends(s, "signalled")
    /\ UNCHANGED <<rcds, rcdPid, stop, faults>>

Crash(s) ==
    /\ Up(s) /\ Fault
    /\ untracked' = untracked \cup Unrecorded(s)
    /\ Ends(s, "crashed")
    /\ UNCHANGED <<rcds, pidFile, rcdPid, stop>>

-----------------------------------------------------------------------------
(* The daemons *)

\* A second rcd ends with "address already in use".
Bind(s) ==
    /\ rcd[s] = "boot"
    /\ rcd' = [rcd EXCEPT ![s] = IF Answer = "down" THEN "serve" ELSE "dead"]
    /\ UNCHANGED <<outside, main, cmd, sig, files, stop, faults>>

\* By a SIGTERM it got, or by itself.
Exit(s) ==
    /\ Live(s)
    /\ rcd' = [rcd EXCEPT ![s] = "dead"]
    /\ UNCHANGED <<outside, main, cmd, sig, files, stop, faults>>

OutsideEnds ==
    /\ outside # "none" /\ outside' = "none"
    /\ UNCHANGED <<rcd, main, cmd, sig, files, stop, faults>>

-----------------------------------------------------------------------------
(* The stop command: stopPIDFile for the server, then for rcd.pid *)

StopServer ==
    /\ stop.pc = "server"
    /\ IF pidFile # Nobody /\ Up(pidFile)
         THEN /\ stop' = [pc |-> "waitServer", target |-> pidFile]
              /\ sig' = [sig EXCEPT ![pidFile] = IF @ = "idle" THEN "close" ELSE @]
              /\ UNCHANGED pidFile
         ELSE /\ stop' = [stop EXCEPT !.pc = "rcd"]
              /\ pidFile' = Nobody
              /\ UNCHANGED sig
    /\ UNCHANGED <<rcds, main, cmd, rcdPid, untracked, faults>>

\* The server has ended, or is killed after 15 seconds.
StopServerEnds ==
    LET s == stop.target
    IN  /\ stop.pc = "waitServer"
        /\ IF Up(s) THEN Ends(s, "crashed") ELSE UNCHANGED <<main, cmd, sig>>
        /\ untracked' = untracked \cup Unrecorded(s)
        /\ pidFile' = Nobody
        /\ stop' = [pc |-> "rcd", target |-> Nobody]
        /\ UNCHANGED <<rcds, rcdPid, faults>>

StopRcd ==
    /\ stop.pc = "rcd"
    /\ IF rcdPid # Nobody /\ Live(rcdPid)
         THEN /\ stop' = [pc |-> "waitRcd", target |-> rcdPid]
              /\ UNCHANGED rcdPid
         ELSE /\ stop' = [stop EXCEPT !.pc = "done"]
              /\ rcdPid' = Nobody
    /\ UNCHANGED <<rcds, main, cmd, sig, pidFile, untracked, faults>>

\* Mutant of StopRcdEnds: after ten seconds the file is removed all the same.
StopRcdForgets ==
    /\ stop.pc = "waitRcd"
    /\ Unlink(stop.target)
    /\ stop' = [pc |-> "done", target |-> Nobody]
    /\ UNCHANGED <<rcds, main, cmd, sig, pidFile, faults>>

\* The rcd has ended, or is killed after ten seconds.
StopRcdEnds ==
    /\ stop.pc = "waitRcd"
    /\ rcd' = [rcd EXCEPT ![stop.target] = "dead"]
    /\ Unlink(stop.target)
    /\ stop' = [pc |-> "done", target |-> Nobody]
    /\ UNCHANGED <<outside, main, cmd, sig, pidFile, faults>>

-----------------------------------------------------------------------------
Start(s) ==
    \/ Adopt(s) \/ StartRefused(s) \/ LaunchRcd(s) \/ Record(s)
    \/ EarlyExit(s) \/ Ready(s) \/ Deadline(s) \/ Abandon(s)
    \/ Serve(s) \/ Undo(s) \/ MainReturns(s)

Shutdown(s) == Close(s) \/ StopManager(s) \/ Killed(s) \/ OsExit(s)

StopCommand == StopServer \/ StopServerEnds \/ StopRcd \/ StopRcdEnds

Next ==
    \/ \E s \in Server : Begin(s) \/ Start(s) \/ StepFails(s) \/ Signal(s) \/ Shutdown(s) \/ Crash(s)
                        \/ Bind(s) \/ Exit(s)
    \/ OutsideEnds
    \/ StopCommand

Spec == Init /\ [][Next]_vars

\* Goroutines run on, and every wait in them has a time limit.  Nothing is
\* assumed of an rcd: it may neither bind nor end when it is asked to.  No later
\* step of App.Start has to fail.
FairSpec ==
    /\ Spec
    /\ \A s \in Server : WF_vars(Start(s)) /\ WF_vars(Shutdown(s))

-----------------------------------------------------------------------------
(* Correctness *)

\* A start that fails, at whatever step, and while a signal's Shutdown works on
\* the same Manager, leaves no rcd of its own behind.
FailedStartLeavesNoRcd == \A s \in Server : main[s] = "failed" => ~Live(s)

\* Whatever state servers have been left in by crashes, signals and failed
\* starts, and whatever they do meanwhile, the stop command leaves no rcd alive
\* but those it could not learn of: launched after it looked, never recorded, or
\* with their entry in rcd.pid overwritten or removed by another server.
StopLeavesNoRcd ==
    stop.pc = "done" => \A s \in Server : Live(s) => s \in untracked \/ main[s] = "record"

\* An rcd that is alive is the one rcd.pid names, or untracked.
Tracked ==
    \A s \in Server : Live(s) /\ main[s] # "record" => rcdPid = s \/ s \in untracked

\* A server that has launched nothing yet has no rcd, and one that is up knows
\* of its rcd for as long as it is alive.
Owned ==
    \A s \in Server : /\ main[s] \in {"off", "probe"} => rcd[s] = "none" /\ sig[s] # "kill"
                      /\ Up(s) /\ Live(s) => cmd[s]

\* The stop command waits for a process that there is, or was.
Target ==
    /\ stop.pc \in {"waitServer", "waitRcd"} => stop.target \in Server
    /\ stop.pc = "waitRcd" => main[stop.target] \notin {"off", "probe"}

\* The inductive invariant: the two promises hold because a live rcd is known to
\* its server, and to rcd.pid.
RcdInv ==
    /\ TypeOK
    /\ FailedStartLeavesNoRcd
    /\ StopLeavesNoRcd
    /\ Tracked
    /\ Owned
    /\ Target

\* The start of a server comes to an end, though its rcd may hang.
StartEnds ==
    \A s \in Server : main[s] = "probe" ~> main[s] \in {"serve", "return"} \cup Ended

\* A signal ends the server, though its rcd may ignore SIGTERM.
SignalEnds == \A s \in Server : sig[s] # "idle" ~> main[s] \in Ended

\* "serve launches and stops the rcd" (RCLONE_MANAGED), "graceful stop owns
\* cleanup": a server that served and was told to end has ended its rcd.
ServerEndsRcd == \A s \in Server : main[s] = "returned" => ~Live(s)
=============================================================================
