-------------------------- MODULE RcdManagerProofs --------------------------
(***************************************************************************)
(* RcdInv is inductive, for any number of servers and faults.              *)
(***************************************************************************)
EXTENDS RcdManager, TLAPS

\* Zero names nobody: servers are counted from one.
LEMMA NobodyIsNoServer == Nobody \notin Server
BY DEF Nobody, Server

\* No rcd is alive before servers start.
LEMMA InitInv == Init => RcdInv
<1> SUFFICES ASSUME Init PROVE RcdInv
  OBVIOUS
<1>1. TypeOK
  BY RcdAssumption DEF Init, TypeOK, RcdAssumption, RcdPc, MainPc, SigPc, StopPc
<1>2. \A s \in Server : main[s] = "off" /\ rcd[s] = "none"
  BY DEF Init
<1>3. stop.pc = "server" /\ \A s \in Server : sig[s] = "idle"
  BY DEF Init
<1> QED
  BY <1>1, <1>2, <1>3 DEF RcdInv, FailedStartLeavesNoRcd, StopLeavesNoRcd, Tracked,
     Owned, Target, Live, Up

\* What a process forgets when it ends.
LEMMA UpdateTypes ==
    ASSUME TypeOK, NEW s \in Server
    PROVE  /\ [cmd EXCEPT ![s] = FALSE] \in [Server -> BOOLEAN]
           /\ [sig EXCEPT ![s] = "idle"] \in [Server -> SigPc]
BY DEF TypeOK, SigPc

\* The steps of Manager.Start and of the rest of App.Start.
LEMMA StartInv ==
    ASSUME RcdInv, NEW s \in Server,
           Begin(s) \/ Start(s) \/ StepFails(s)
    PROVE  RcdInv'
<1> USE RcdAssumption, NobodyIsNoServer DEF RcdAssumption, RcdInv, TypeOK,
        FailedStartLeavesNoRcd, StopLeavesNoRcd, Tracked, Owned, Target, Live, Up, Ended,
        RcdPc, MainPc, SigPc, StopPc,
        Goto, Ends, Fault, rcds, files
<1>1. CASE Begin(s)
  BY <1>1 DEF Begin
<1>2. CASE Adopt(s)
  BY <1>2 DEF Adopt
<1>3. CASE StartRefused(s)
  BY <1>3 DEF StartRefused
<1>4. CASE LaunchRcd(s)
  BY <1>4 DEF LaunchRcd
<1>5. CASE Record(s)
  BY <1>5 DEF Record
<1>6. CASE EarlyExit(s)
  BY <1>6 DEF EarlyExit, Unlink
<1>7. CASE Ready(s)
  BY <1>7 DEF Ready
<1>8. CASE Deadline(s)
  BY <1>8 DEF Deadline
<1>9. CASE Abandon(s)
  BY <1>9 DEF Abandon
<1>10. CASE Serve(s)
  BY <1>10 DEF Serve
<1>11. CASE Undo(s)
  BY <1>11 DEF Undo, Unlink
<1>12. CASE MainReturns(s)
  BY <1>12 DEF MainReturns
<1>13. CASE StepFails(s)
  <2>1. CASE cmd[s]
    BY <1>13, <2>1 DEF StepFails
  <2>2. CASE ~(cmd[s])
    <3>1. ~Live(s) /\ main' = [main EXCEPT ![s] = "failed"]
      BY <1>13, <2>2 DEF StepFails
    <3>2. TypeOK'
      <4>1. (rcd \in [Server -> RcdPc] /\ outside \in {"none", "rcd", "foreign"})'
        BY <1>13, <2>2 DEF StepFails
      <4>2. (main \in [Server -> MainPc])'
        BY <1>13, <2>2 DEF StepFails
      <4>3. (cmd \in [Server -> BOOLEAN] /\ sig \in [Server -> SigPc])'
        <5>1. /\ cmd' = [cmd EXCEPT ![s] = FALSE]
              /\ sig' = [sig EXCEPT ![s] = "idle"]
          BY <1>13, <2>2 DEF StepFails
        <5> QED
          BY <5>1, UpdateTypes
      <4>4. (pidFile \in Server \cup {Nobody} /\ rcdPid \in Server \cup {Nobody} /\ untracked \subseteq Server)'
        BY <1>13, <2>2 DEF StepFails
      <4>5. (stop \in [pc : StopPc, target : Server \cup {Nobody}] /\ faults \in Nat)'
        BY <1>13, <2>2 DEF StepFails
      <4> QED
        BY <4>1, <4>2, <4>3, <4>4, <4>5
    <3> QED
      BY <1>13, <2>2, <3>1, <3>2 DEF StepFails
  <2> QED
    BY <2>1, <2>2
<1> QED
  BY <1>1, <1>2, <1>3, <1>4, <1>5, <1>6, <1>7, <1>8, <1>9, <1>10, <1>11, <1>12, <1>13
  DEF Start

\* A signal, App.Shutdown, and the end of a process in its middle.
LEMMA ShutdownInv ==
    ASSUME RcdInv, NEW s \in Server, Signal(s) \/ Shutdown(s) \/ Crash(s)
    PROVE  RcdInv'
<1> USE RcdAssumption, NobodyIsNoServer DEF RcdAssumption, RcdInv, TypeOK,
        FailedStartLeavesNoRcd, StopLeavesNoRcd, Tracked, Owned, Target, Live, Up, Ended,
        RcdPc, MainPc, SigPc, StopPc,
        Goto, Ends, Fault, rcds, files
<1>1. CASE Signal(s)
  BY <1>1 DEF Signal
<1>2. CASE Close(s)
  BY <1>2 DEF Close
<1>3. CASE StopManager(s)
  <2>1. CASE cmd[s] /\ main[s] \in {"steps", "serve", "return", "undo"}
    BY <1>3, <2>1 DEF StopManager
  <2>2. CASE ~(cmd[s] /\ main[s] \in {"steps", "serve", "return", "undo"})
    BY <1>3, <2>2 DEF StopManager
  <2> QED
    BY <2>1, <2>2
<1>4. CASE Killed(s)
  <2>1. TypeOK'
    <3>1. (rcd \in [Server -> RcdPc] /\ outside \in {"none", "rcd", "foreign"})'
      BY <1>4 DEF Killed, Unlink
    <3>2. (main \in [Server -> MainPc])'
      BY <1>4 DEF Killed, Unlink
    <3>3. (cmd \in [Server -> BOOLEAN] /\ sig \in [Server -> SigPc])'
      BY <1>4 DEF Killed, Unlink
    <3>4. (pidFile \in Server \cup {Nobody} /\ rcdPid \in Server \cup {Nobody} /\ untracked \subseteq Server)'
      BY <1>4 DEF Killed, Unlink
    <3>5. (stop \in [pc : StopPc, target : Server \cup {Nobody}] /\ faults \in Nat)'
      BY <1>4 DEF Killed, Unlink
    <3> QED
      BY <3>1, <3>2, <3>3, <3>4, <3>5
  <2>2. (FailedStartLeavesNoRcd /\ StopLeavesNoRcd /\ Tracked)'
    BY <1>4 DEF Killed, Unlink
  <2>3. (Owned /\ Target)'
    <3>1. /\ rcd'[s] = "dead" /\ sig'[s] = "exit" /\ UNCHANGED <<main, stop>>
      BY <1>4 DEF Killed
    <3>2. \A t \in Server \ {s} : rcd'[t] = rcd[t] /\ cmd'[t] = cmd[t] /\ sig'[t] = sig[t]
      BY <1>4 DEF Killed
    <3>3. main[s] \notin {"off", "probe"}
      BY <1>4 DEF Killed
    <3>4. Owned'
      BY <3>1, <3>2, <3>3
    <3>5. Target'
      BY <3>1
    <3> QED
      BY <3>4, <3>5
  <2> QED
    BY <2>1, <2>2, <2>3
<1>5. CASE OsExit(s)
  BY <1>5 DEF OsExit, Unrecorded
<1>6. CASE Crash(s)
  BY <1>6 DEF Crash, Unrecorded
<1> QED
  BY <1>1, <1>2, <1>3, <1>4, <1>5, <1>6 DEF Shutdown

\* What the daemons do by themselves.
LEMMA DaemonInv ==
    ASSUME RcdInv, OutsideEnds \/ \E s \in Server : Bind(s) \/ Exit(s)
    PROVE  RcdInv'
<1> USE RcdAssumption, NobodyIsNoServer DEF RcdAssumption, RcdInv, TypeOK,
        FailedStartLeavesNoRcd, StopLeavesNoRcd, Tracked, Owned, Target, Live, Up, Ended,
        RcdPc, MainPc, SigPc, StopPc,
        rcds, files
<1>1. CASE OutsideEnds
  BY <1>1 DEF OutsideEnds
<1>2. ASSUME NEW s \in Server, Bind(s) PROVE RcdInv'
  BY <1>2 DEF Bind
<1>3. ASSUME NEW s \in Server, Exit(s) PROVE RcdInv'
  BY <1>3 DEF Exit
<1> QED
  BY <1>1, <1>2, <1>3

\* The stop command.
LEMMA StopCommandInv ==
    ASSUME RcdInv, StopCommand PROVE RcdInv'
<1> USE RcdAssumption, NobodyIsNoServer DEF RcdAssumption, RcdInv, TypeOK,
        FailedStartLeavesNoRcd, StopLeavesNoRcd, Tracked, Owned, Target, Live, Up, Ended,
        RcdPc, MainPc, SigPc, StopPc,
        Goto, Ends, rcds, files
<1>1. CASE StopServer
  <2>1. CASE pidFile # Nobody /\ Up(pidFile)
    BY <1>1, <2>1 DEF StopServer
  <2>2. CASE ~(pidFile # Nobody /\ Up(pidFile))
    BY <1>1, <2>2 DEF StopServer
  <2> QED
    BY <2>1, <2>2
<1>2. CASE StopServerEnds
  <2>1. TypeOK'
    <3>1. (rcd \in [Server -> RcdPc] /\ outside \in {"none", "rcd", "foreign"})'
      BY <1>2 DEF StopServerEnds, Unrecorded
    <3>2. (main \in [Server -> MainPc])'
      BY <1>2 DEF StopServerEnds, Unrecorded
    <3>3. (cmd \in [Server -> BOOLEAN] /\ sig \in [Server -> SigPc])'
      <4>1. CASE Up(stop.target)
        <5>1. /\ stop.target \in Server
              /\ cmd' = [cmd EXCEPT ![stop.target] = FALSE]
              /\ sig' = [sig EXCEPT ![stop.target] = "idle"]
          BY <1>2, <4>1 DEF StopServerEnds
        <5> QED
          BY <5>1, UpdateTypes
      <4>2. CASE ~Up(stop.target)
        <5>1. UNCHANGED <<cmd, sig>>
          BY <1>2, <4>2 DEF StopServerEnds
        <5> QED
          BY <5>1
      <4> QED
        BY <4>1, <4>2
    <3>4. (pidFile \in Server \cup {Nobody} /\ rcdPid \in Server \cup {Nobody} /\ untracked \subseteq Server)'
      BY <1>2 DEF StopServerEnds, Unrecorded
    <3>5. (stop \in [pc : StopPc, target : Server \cup {Nobody}] /\ faults \in Nat)'
      BY <1>2 DEF StopServerEnds, Unrecorded
    <3> QED
      BY <3>1, <3>2, <3>3, <3>4, <3>5
  <2>2. (FailedStartLeavesNoRcd /\ StopLeavesNoRcd /\ Tracked)'
    BY <1>2 DEF StopServerEnds, Unrecorded
  <2>3. (Owned /\ Target)'
    BY <1>2 DEF StopServerEnds, Unrecorded
  <2> QED
    BY <2>1, <2>2, <2>3
<1>3. CASE StopRcd
  <2>1. CASE rcdPid # Nobody /\ Live(rcdPid)
    BY <1>3, <2>1 DEF StopRcd
  <2>2. CASE ~(rcdPid # Nobody /\ Live(rcdPid))
    BY <1>3, <2>2 DEF StopRcd
  <2> QED
    BY <2>1, <2>2
<1>4. CASE StopRcdEnds
  <2>1. TypeOK'
    <3>1. (rcd \in [Server -> RcdPc] /\ outside \in {"none", "rcd", "foreign"})'
      BY <1>4 DEF StopRcdEnds, Unlink
    <3>2. (main \in [Server -> MainPc])'
      BY <1>4 DEF StopRcdEnds, Unlink
    <3>3. (cmd \in [Server -> BOOLEAN] /\ sig \in [Server -> SigPc])'
      BY <1>4 DEF StopRcdEnds, Unlink
    <3>4. (pidFile \in Server \cup {Nobody} /\ rcdPid \in Server \cup {Nobody} /\ untracked \subseteq Server)'
      BY <1>4 DEF StopRcdEnds, Unlink
    <3>5. (stop \in [pc : StopPc, target : Server \cup {Nobody}] /\ faults \in Nat)'
      BY <1>4 DEF StopRcdEnds, Unlink
    <3> QED
      BY <3>1, <3>2, <3>3, <3>4, <3>5
  <2>2. (FailedStartLeavesNoRcd /\ StopLeavesNoRcd /\ Tracked)'
    BY <1>4 DEF StopRcdEnds, Unlink
  <2>3. (Owned /\ Target)'
    <3>1. stop.target \in Server
      BY <1>4 DEF StopRcdEnds
    <3>2. /\ rcd'[stop.target] = "dead" /\ UNCHANGED <<main, cmd, sig>>
          /\ \A t \in Server \ {stop.target} : rcd'[t] = rcd[t]
      BY <1>4 DEF StopRcdEnds
    <3>3. main[stop.target] \notin {"off", "probe"}
      BY <1>4 DEF StopRcdEnds
    <3>4. Owned'
      BY <3>1, <3>2, <3>3
    <3>5. Target'
      BY <1>4 DEF StopRcdEnds
    <3> QED
      BY <3>4, <3>5
  <2> QED
    BY <2>1, <2>2, <2>3
<1> QED
  BY <1>1, <1>2, <1>3, <1>4 DEF StopCommand

\* Every step keeps the invariant.
LEMMA NextInv == RcdInv /\ [Next]_vars => RcdInv'
<1> SUFFICES ASSUME RcdInv, [Next]_vars PROVE RcdInv'
  OBVIOUS
<1>1. CASE UNCHANGED vars
  BY <1>1 DEF vars, rcds, files, RcdInv, TypeOK, FailedStartLeavesNoRcd, StopLeavesNoRcd,
     Tracked, Owned, Target, Live, Up
<1>2. CASE Next
  BY <1>2, StartInv, ShutdownInv, DaemonInv, StopCommandInv DEF Next
<1> QED
  BY <1>1, <1>2

\* Whatever servers and the stop command do: a live rcd is known to its server
\* for as long as that is up, and named by rcd.pid or untracked.
THEOREM RcdSafe == Spec => []RcdInv
BY InitInv, NextInv, PTL DEF Spec

\* A start that fails has ended the rcd it launched.
THEOREM FailedStart == Spec => []FailedStartLeavesNoRcd
<1>1. RcdInv => FailedStartLeavesNoRcd
  BY DEF RcdInv
<1> QED
  BY <1>1, RcdSafe, PTL

\* The stop command leaves no rcd behind but those it could not learn of.
THEOREM StopEnds == Spec => []StopLeavesNoRcd
<1>1. RcdInv => StopLeavesNoRcd
  BY DEF RcdInv
<1> QED
  BY <1>1, RcdSafe, PTL
=============================================================================
