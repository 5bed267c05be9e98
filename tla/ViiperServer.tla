---------------------------- MODULE ViiperServer ----------------------------
(***************************************************************************)
(* app/gui/server.go and viiper_lifecycle.go: the viiper.exe child process *)
(* and the session opened on it.                                           *)
(*                                                                         *)
(* onStartViiper leaves its work to a goroutine, named by a number, which  *)
(* runs ensureViiperServer, opens the session and publishes it.  The       *)
(* process and the session it creates carry its number; the command and    *)
(* the temporary directory, which only travel with the process, are left   *)
(* out.  Disconnects and shutdown call stopViiperServerIfStarted from      *)
(* goroutines of their own, at any moment of a startup.  Sections of       *)
(* serverMu and a.mu are steps; serverStartMu is held over many of them.   *)
(***************************************************************************)
EXTENDS Integers, FiniteSets

CONSTANTS
  MaxStarts,        \* bound: startups of VIIPER
  MaxDisconnects,   \* bound: disconnects the monitor reports
  Closes,           \* bound: whether the window may be closed
  Foreign           \* whether a VIIPER server that the program did not start may answer

Starts == 1 .. MaxStarts
Teardowns == MaxStarts + 1 .. MaxStarts + MaxDisconnects
Shut == MaxStarts + MaxDisconnects + 1     \* shutdown, on the GUI thread
Stoppers == Starts \cup Teardowns \cup {Shut}
Nil == 0
Pids == Starts \cup {Nil}

ASSUME ServerAssumption ==
  MaxStarts \in Nat /\ MaxDisconnects \in Nat /\ Closes \in BOOLEAN /\ Foreign \in BOOLEAN

VARIABLES
  serverStartMu, serverStartCancel,                    \* 0, or whose
  serverPID, serverStarted,                            \* guarded by serverMu
  viiperStartupCancel, inputSession,                   \* guarded by a.mu
  viiperBtn, wasActive, exited,                        \* GUI and monitor
  pc, outcome,      \* goroutines; how a startup ended
  ctxDone, startDone,   \* startups whose outer or inner context is cancelled
  taken,            \* what a call of stopViiperServerIfStarted has taken
  begun, lost,      \* startups begun, disconnects so far
  proc, closedSessions,
  slow              \* history: processes alive when a startup's ping failed

server == <<serverPID, serverStarted>>
app == <<viiperStartupCancel, inputSession, viiperBtn, wasActive, exited>>
ctxs == <<ctxDone, startDone>>
world == <<proc, closedSessions, slow>>
vars == <<serverStartMu, serverStartCancel, server, app, pc, outcome, ctxs, taken, begun, lost, world>>

NoTake == [pid |-> Nil, session |-> Nil]

Init ==
  /\ serverStartMu = Nil /\ serverStartCancel = Nil
  /\ serverPID = Nil /\ serverStarted = FALSE
  /\ viiperStartupCancel = Nil /\ inputSession = Nil
  /\ viiperBtn = TRUE /\ wasActive = FALSE /\ exited = FALSE
  /\ pc = [a \in Stoppers |-> "none"]
  /\ outcome = [s \in Starts |-> "none"]
  /\ ctxDone = {} /\ startDone = {}
  /\ taken = [a \in Stoppers |-> NoTake]
  /\ begun = 0 /\ lost = 0
  /\ proc = [s \in Starts |-> "none"]
  /\ closedSessions = {} /\ slow = {}

Goto(a, step) == pc' = [pc EXCEPT ![a] = step]
\* A ping can be answered.  It has a time limit of one or two seconds, so it may
\* fail even then: no step depends on nobody being there to answer, and that a
\* foreign server ends needs no step of its own.
AnswersPing == Foreign \/ \E s \in Starts : proc[s] = "up"
AliveProcs == {s \in Starts : proc[s] \in {"booting", "up"}}
CloseSession(s) == closedSessions' = closedSessions \cup ({s} \ {Nil})

(***************************************************************************)
(* stopViiperServerIfStarted, called by a.  The startup it finds under way  *)
(* is cancelled in the same step: it can look at its context only before   *)
(* or after that.                                                          *)
(***************************************************************************)
MustKillUnadopted == ~serverStarted /\ serverPID # Nil   \* faulty variant
MustKill == serverStarted /\ serverPID # Nil

StopServer(a) ==
  /\ pc[a] = "stop"
  /\ startDone' = startDone \cup ({serverStartCancel} \ {Nil})
  /\ serverStartCancel' = Nil
  /\ serverPID' = Nil /\ serverStarted' = FALSE
  /\ IF MustKill
     THEN Goto(a, "kill") /\ taken' = [taken EXCEPT ![a] = [NoTake EXCEPT !.pid = serverPID]]
     ELSE Goto(a, "stopped") /\ taken' = [taken EXCEPT ![a] = NoTake]
  /\ UNCHANGED <<serverStartMu, app, outcome, ctxDone, begun, lost, world>>

\* taskkill and the wait for the process.
KillTaken(a) ==
  /\ pc[a] = "kill"
  /\ proc' = [proc EXCEPT ![taken[a].pid] = "dead"]
  /\ taken' = [taken EXCEPT ![a] = NoTake]
  /\ Goto(a, "stopped")
  /\ UNCHANGED <<serverStartMu, serverStartCancel, server, app, outcome, ctxs, begun, lost, closedSessions, slow>>

(***************************************************************************)
(* GUI thread                                                              *)
(***************************************************************************)
OnStartViiper ==
  /\ viiperBtn /\ begun < MaxStarts
  /\ begun' = begun + 1
  /\ viiperBtn' = FALSE
  /\ viiperStartupCancel' = begun'
  /\ Goto(begun', "lock")
  /\ UNCHANGED <<serverStartMu, serverStartCancel, server, inputSession, wasActive, exited,
                 outcome, ctxs, taken, lost, world>>

\* The monitor pings every two seconds and reports a change.  A server that
\* takes too long over a ping counts as gone.  (What it sees after the last
\* disconnect of MaxDisconnects makes no difference.)
MonitorSees ==
  /\ pc[Shut] = "none" /\ ~wasActive /\ AnswersPing /\ lost < MaxDisconnects
  /\ wasActive' = TRUE
  /\ UNCHANGED <<serverStartMu, serverStartCancel, server, viiperStartupCancel, inputSession,
                 viiperBtn, exited, pc, outcome, ctxs, taken, begun, lost, world>>

\* The goroutine waits for the tools, closes the session, stops the server.
OnViiperDisconnected ==
  /\ pc[Shut] = "none" /\ wasActive
  /\ wasActive' = FALSE
  /\ lost < MaxDisconnects
  /\ lost' = lost + 1
  /\ inputSession' = Nil
  /\ viiperBtn' = TRUE
  /\ taken' = [taken EXCEPT ![MaxStarts + lost'].session = inputSession]
  /\ Goto(MaxStarts + lost', "drain")
  /\ UNCHANGED <<serverStartMu, serverStartCancel, server, viiperStartupCancel, exited, outcome,
                 ctxs, begun, world>>

CloseTaken(a) ==
  /\ pc[a] = "drain"
  /\ CloseSession(taken[a].session)
  /\ Goto(a, "stop")
  /\ UNCHANGED <<serverStartMu, serverStartCancel, server, app, outcome, ctxs, taken, begun, lost, proc, slow>>

Shutdown ==
  /\ Closes /\ pc[Shut] = "none"
  /\ ctxDone' = ctxDone \cup ({viiperStartupCancel} \ {Nil})
  /\ viiperStartupCancel' = Nil
  /\ inputSession' = Nil
  /\ viiperBtn' = FALSE
  /\ taken' = [taken EXCEPT ![Shut].session = inputSession]
  /\ Goto(Shut, "drain")
  /\ UNCHANGED <<serverStartMu, serverStartCancel, server, wasActive, exited, outcome, startDone,
                 begun, lost, world>>

Exit ==
  /\ pc[Shut] = "stopped"
  /\ exited' = TRUE
  /\ UNCHANGED <<serverStartMu, serverStartCancel, server, viiperStartupCancel, inputSession,
                 viiperBtn, wasActive, pc, outcome, ctxs, taken, begun, lost, world>>

(***************************************************************************)
(* ensureViiperServer of startup s                                         *)
(***************************************************************************)
Cancelled(s) == s \in ctxDone \cup startDone

NoSerialization == TRUE   \* faulty variant: startups are not serialized
StartMuFree == serverStartMu = Nil

Lock(s) ==
  /\ pc[s] = "lock"
  /\ StartMuFree
  /\ serverStartMu' = s
  /\ serverStartCancel' = s
  /\ Goto(s, "ping")
  /\ UNCHANGED <<server, app, outcome, ctxs, taken, begun, lost, world>>

\* The deferred clean-up; the outcome decides how onStartViiper goes on.
Return(s, result) ==
  /\ serverStartMu' = Nil
  /\ serverStartCancel' = Nil
  /\ startDone' = startDone \cup {s}
  /\ outcome' = [outcome EXCEPT ![s] = result]
  /\ Goto(s, IF result = "ok" THEN "opening" ELSE "report")

\* An answer, or an error after a cancel or the time limit.
Ping(s) ==
  /\ pc[s] = "ping"
  /\ \/ AnswersPing /\ ~Cancelled(s) /\ Return(s, "ok") /\ UNCHANGED slow
     \/ /\ Goto(s, "spawn")
        /\ slow' = IF Cancelled(s) THEN slow ELSE slow \cup AliveProcs
        /\ UNCHANGED <<serverStartMu, serverStartCancel, startDone, outcome>>
  /\ UNCHANGED <<server, app, ctxDone, taken, begun, lost, proc, closedSessions>>

\* extractViiper and the start of the process, either of which may fail.
Spawn(s) ==
  /\ pc[s] = "spawn"
  /\ \/ /\ proc' = [proc EXCEPT ![s] = "booting"]
        /\ Goto(s, "publishPid")
        /\ UNCHANGED <<serverStartMu, serverStartCancel, startDone, outcome>>
     \/ Return(s, "failed") /\ UNCHANGED proc
  /\ UNCHANGED <<server, app, ctxDone, taken, begun, lost, closedSessions, slow>>

PublishPid(s) ==
  /\ pc[s] = "publishPid"
  /\ serverPID' = s
  /\ Goto(s, "wait")
  /\ UNCHANGED <<serverStartMu, serverStartCancel, serverStarted, app,
                 outcome, ctxs, taken, begun, lost, world>>

\* waitForServer: an answer, or an error after a cancel or the time limit.
WaitForServer(s) ==
  /\ pc[s] = "wait"
  /\ \/ AnswersPing /\ ~Cancelled(s) /\ Goto(s, "adopt")
     \/ Goto(s, "giveUp")
  /\ UNCHANGED <<serverStartMu, serverStartCancel, server, app, outcome, ctxs, taken, begun, lost, world>>

GiveUp(s) ==
  /\ pc[s] = "giveUp"
  /\ taken' = [taken EXCEPT ![s].pid = serverPID]
  /\ serverPID' = Nil
  /\ Goto(s, "killOwn")
  /\ UNCHANGED <<serverStartMu, serverStartCancel, serverStarted, app, outcome, ctxs,
                 begun, lost, world>>

\* Faulty variant: the published pid is killed, which has just been cleared.
KillPublished(s) ==
  /\ pc[s] = "killOwn"
  /\ proc' = IF serverPID = Nil THEN proc ELSE [proc EXCEPT ![serverPID] = "dead"]
  /\ Goto(s, "reap")
  /\ UNCHANGED <<serverStartMu, serverStartCancel, server, app, outcome, ctxs, taken, begun, lost, closedSessions, slow>>

KillOwn(s) ==
  /\ pc[s] = "killOwn"
  /\ proc' = IF taken[s].pid = Nil THEN proc ELSE [proc EXCEPT ![taken[s].pid] = "dead"]
  /\ Goto(s, "reap")
  /\ UNCHANGED <<serverStartMu, serverStartCancel, server, app, outcome, ctxs, taken, begun, lost, closedSessions, slow>>

\* cmd.Process.Wait() and the removal of the directory
Reap(s) ==
  /\ pc[s] = "reap"
  /\ proc[s] = "dead"
  /\ taken' = [taken EXCEPT ![s] = NoTake]
  /\ Return(s, "failed")
  /\ UNCHANGED <<server, app, ctxDone, begun, lost, proc, closedSessions, slow>>

Adopt(s) ==
  /\ pc[s] = "adopt"
  /\ serverStarted' = TRUE
  /\ Return(s, "ok")
  /\ UNCHANGED <<serverPID, app, ctxDone, taken, begun, lost, world>>

(***************************************************************************)
(* The rest of onStartViiper                                               *)
(***************************************************************************)
\* OpenViiperSession needs a server that answers and may fail even so.
Open(s) ==
  /\ pc[s] = "opening"
  /\ IF s \in ctxDone
     THEN Goto(s, "stop") /\ outcome' = [outcome EXCEPT ![s] = "cancelled"]
     ELSE \/ AnswersPing /\ Goto(s, "publish") /\ UNCHANGED outcome
          \/ Goto(s, "stop") /\ outcome' = [outcome EXCEPT ![s] = "failed"]
  /\ UNCHANGED <<serverStartMu, serverStartCancel, server, app, ctxs, taken, begun, lost, world>>

NeverUnwanted(s) == FALSE   \* faulty variant: the second look at the context is missing
Unwanted(s) == s \in ctxDone

Publish(s) ==
  /\ pc[s] = "publish"
  /\ IF Unwanted(s)
     THEN /\ CloseSession(s)
          /\ outcome' = [outcome EXCEPT ![s] = "cancelled"]
          /\ Goto(s, "stop")
          /\ UNCHANGED inputSession
     ELSE /\ CloseSession(inputSession)
          /\ inputSession' = s
          /\ Goto(s, "report")
          /\ UNCHANGED outcome
  /\ UNCHANGED <<serverStartMu, serverStartCancel, server, viiperStartupCancel, viiperBtn, wasActive,
                 exited, ctxs, taken, begun, lost, proc, slow>>

\* The closure on the GUI thread, unless cancelled; the deferred reset.
Report(s) ==
  /\ pc[s] = "report" \/ (pc[s] = "stopped" /\ outcome[s] # "none")
  /\ viiperBtn' = IF s \in ctxDone \/ pc[Shut] # "none" THEN viiperBtn ELSE outcome[s] # "ok"
  /\ viiperStartupCancel' = Nil
  /\ Goto(s, "done")
  /\ UNCHANGED <<serverStartMu, serverStartCancel, server, inputSession, wasActive, exited, outcome,
                 ctxs, taken, begun, lost, world>>

StartStep(s) ==
  \/ Lock(s) \/ Ping(s) \/ Spawn(s) \/ PublishPid(s) \/ WaitForServer(s)
  \/ GiveUp(s) \/ KillOwn(s) \/ Reap(s) \/ Adopt(s) \/ Open(s) \/ Publish(s) \/ Report(s)

StopStep(a) == CloseTaken(a) \/ StopServer(a) \/ KillTaken(a)

Boot(s) ==
  /\ proc[s] = "booting"
  /\ proc' = [proc EXCEPT ![s] = "up"]
  /\ UNCHANGED <<serverStartMu, serverStartCancel, server, app, pc, outcome, ctxs, taken, begun,
                 lost, closedSessions, slow>>

Crash(s) ==
  /\ proc[s] \in {"booting", "up"}
  /\ proc' = [proc EXCEPT ![s] = "dead"]
  /\ UNCHANGED <<serverStartMu, serverStartCancel, server, app, pc, outcome, ctxs, taken, begun,
                 lost, closedSessions, slow>>

AppStep ==
  \/ OnStartViiper \/ MonitorSees \/ OnViiperDisconnected \/ Shutdown \/ Exit
  \/ \E s \in Starts : StartStep(s)
  \/ \E a \in Stoppers : StopStep(a)

\* What becomes of the processes after the program has exited is left out.
Next == ~exited /\ (AppStep \/ \E s \in Starts : Boot(s) \/ Crash(s))

\* A goroutine that is under way goes on.
GoOn(a) == StopStep(a) \/ (a \in Starts /\ StartStep(a)) \/ (a = Shut /\ Exit)
Fairness == \A a \in Stoppers : WF_vars(~exited /\ GoOn(a))

SafeSpec == Init /\ [][Next]_vars
Spec == SafeSpec /\ Fairness

(***************************************************************************)
(* Properties                                                              *)
(***************************************************************************)
TypeOK ==
  /\ {serverStartMu, serverStartCancel, serverPID,
      viiperStartupCancel, inputSession} \subseteq Pids
  /\ {serverStarted, viiperBtn, wasActive, exited} \subseteq BOOLEAN
  /\ pc \in [Stoppers -> {"none", "lock", "ping", "spawn", "publishPid", "wait",
       "giveUp", "killOwn", "reap", "adopt", "opening", "publish", "report", "done", "drain",
       "stop", "kill", "stopped"}]
  /\ outcome \in [Starts -> {"none", "ok", "failed", "cancelled"}]
  /\ ctxDone \cup startDone \cup closedSessions \cup slow \subseteq Starts
  /\ taken \in [Stoppers -> [pid : Pids, session : Pids]]
  /\ proc \in [Starts -> {"none", "booting", "up", "dead"}]

\* Some goroutine has taken process s out of the globals and will kill it.
KillPending(s) ==
  \E a \in Stoppers : taken[a].pid = s /\ pc[a] \in {"kill", "killOwn"}

\* The process of a startup that is being cancelled; its ping fails because of
\* that, so it may spawn a process next to one that answers.
Doomed(s) == KillPending(s) \/ s \in ctxDone \/ (s \in startDone /\ serverStartMu = s)

\* However startups, disconnects, crashes and stops overlap, no two viiper.exe
\* of ours are alive that each answered the pings of the later startups: a
\* startup spawns a process only after its ping has failed, and no other startup
\* is between its own ping and its answer meanwhile (server.go:92-96).  A live
\* server that lets a startup's two seconds pass gets a second one beside it,
\* and a startup may be cancelled during its ping; these are the exceptions.
OneServer == Cardinality({s \in AliveProcs : ~Doomed(s) /\ s \notin slow}) <= 1

\* A startup that reports failure leaves no process behind: it is dead, or
\* somebody is about to kill it (server.go:150-165).  Claimed while no disconnect
\* and no shutdown has interfered: a stop takes the process id and leaves the
\* killing to a startup that no longer has it (server.go:342-354).
FailedLeavesNothing ==
  \A s \in Starts :
    lost = 0 /\ pc[Shut] = "none" /\ pc[s] = "done" /\ outcome[s] # "ok" /\ s \in AliveProcs => KillPending(s)

\* A session that was opened is the published one, or it is closed, or the
\* goroutine that has taken it is about to publish or close it.
HeldSession(s) ==
  pc[s] = "publish" \/ \E a \in Stoppers : pc[a] = "drain" /\ taken[a].session = s
SessionsAreClosed ==
  \A s \in Starts :
    outcome[s] = "ok" /\ pc[s] \in {"report", "done"} /\ s # inputSession
      => s \in closedSessions \/ HeldSession(s)

\* No session is lost open.  And until the first disconnect none is published
\* once shutdown has taken the session, although the context is looked at long
\* before (viiper_lifecycle.go:64-76).  After a disconnect two startups may
\* overlap, the deferred reset of the first wipes the cancel function of the
\* second (viiper_lifecycle.go:25-29), and shutdown, which then has nothing to
\* cancel, may be followed by the second one's session: no claim is made there.
SessionsEnd ==
  /\ SessionsAreClosed
  /\ lost = 0 /\ pc[Shut] # "none" => inputSession = Nil

\* Every startup ends, so the button comes back.  Holds until a disconnect
\* interferes: its stop may clear serverPID under a startup, which then waits
\* for a process that nobody kills, with serverStartMu held.
StartsEnd == \A s \in Starts : (pc[s] # "none") ~> (pc[s] = "done" \/ exited \/ lost > 0)
=============================================================================
