------------------------- MODULE ViiperServerProofs -------------------------
(***************************************************************************)
(* Proofs about ViiperServer for any number of startups and disconnects:   *)
(* one responsive viiper.exe of ours at a time, nothing left of a startup  *)
(* that fails, and no session lost open.                                   *)
(***************************************************************************)
EXTENDS ViiperServer, FiniteSetTheorems, TLAPS

-----------------------------------------------------------------------------
(* The invariant *)

Inside == {"ping", "spawn", "publishPid", "wait", "giveUp", "killOwn", "reap", "adopt"}
Quiet == lost = 0 /\ pc[Shut] = "none"
Active(s) == pc[s] \notin {"none", "done"}

Steps == {"none", "lock", "ping", "spawn", "publishPid", "wait", "giveUp", "killOwn", "reap",
          "adopt", "opening", "publish", "report", "done", "drain", "stop", "kill", "stopped"}
Scalars ==
  /\ serverStartMu \in Pids /\ serverStartCancel \in Pids /\ serverPID \in Pids
  /\ viiperStartupCancel \in Pids /\ inputSession \in Pids
  /\ serverStarted \in BOOLEAN /\ viiperBtn \in BOOLEAN /\ wasActive \in BOOLEAN
  /\ exited \in BOOLEAN /\ slow \subseteq Starts
  /\ ctxDone \subseteq Starts /\ startDone \subseteq Starts /\ closedSessions \subseteq Starts
Records ==
  /\ outcome \in [Starts -> {"none", "ok", "failed", "cancelled"}]
  /\ proc \in [Starts -> {"none", "booting", "up", "dead"}]
Takes == taken \in [Stoppers -> [pid : Pids, session : Pids]]

Unused ==
  /\ \A s \in Starts : s > begun => pc[s] = "none"
  /\ \A a \in Teardowns : a > MaxStarts + lost => pc[a] = "none"

\* A number that has not been given out is nobody's.
NumbersInv ==
  /\ Scalars /\ Records /\ Takes /\ pc \in [Stoppers -> Steps]
  /\ begun \in 0 .. MaxStarts /\ lost \in 0 .. MaxDisconnects
  /\ Unused

\* A process id is that of a process that was started.
PidInv ==
  \A s \in Starts : pc[s] \in {"none", "lock", "ping", "spawn"} =>
    serverPID # s /\ \A a \in Stoppers : taken[a].pid # s

\* A startup holds serverStartMu from its ping on.  One that found no answer
\* and is not cancelled has beside it only processes that owed it the answer.
SpawnInv ==
  /\ \A s \in Starts : pc[s] \in Inside <=> serverStartMu = s
  /\ \A s \in Starts : pc[s] \in {"none", "lock", "ping", "spawn"} => proc[s] = "none"
  /\ \A s \in Starts : pc[s] \in {"spawn", "publishPid", "wait"} /\ ~Cancelled(s) =>
       AliveProcs \subseteq {s} \cup slow
  /\ \A s \in Starts : pc[s] = "adopt" => AliveProcs \subseteq {s} \cup slow

OnlyOne == \A s, u \in AliveProcs \ slow : ~Doomed(s) /\ ~Doomed(u) => s = u

\* Before a disconnect the startups follow one another, and the last one can be
\* cancelled by a shutdown until it has ended.
TurnsInv ==
  /\ pc[Shut] # "none" => ~viiperBtn
  /\ lost = 0 => \A s \in Starts : Active(s) => s = begun /\ ~viiperBtn
  /\ Quiet => \A s \in Starts : Active(s) => viiperStartupCancel = s
  /\ lost = 0 /\ pc[Shut] # "none" => \A s \in Starts : Active(s) => s \in ctxDone

\* A startup that goes on to stop the server has failed or been cancelled, and
\* it never has a session to close first.
OutcomeInv ==
  /\ \A s \in Starts : pc[s] \in {"opening", "publish"} => outcome[s] = "ok"
  /\ \A s \in Starts : pc[s] \in {"stop", "kill", "stopped"} => outcome[s] \in {"failed", "cancelled"}
  /\ \A s \in Starts : pc[s] # "drain"

\* A startup that fails kills the process that is published, and until somebody
\* interferes that is its own.
FailedPart(s) ==
  /\ pc[s] \in {"wait", "adopt"} => serverPID = s
  /\ pc[s] \in {"opening", "publish", "stop"} /\ s \in AliveProcs => serverPID = s /\ serverStarted
  /\ pc[s] = "kill" /\ s \in AliveProcs => taken[s].pid = s
  /\ pc[s] = "stopped" => s \notin AliveProcs
  /\ pc[s] \in {"report", "done"} /\ outcome[s] # "ok" => s \notin AliveProcs
FailedInv == Quiet => \A s \in Starts : FailedPart(s)

ServerInv ==
  NumbersInv /\ PidInv /\ SpawnInv /\ OnlyOne /\ TurnsInv /\ OutcomeInv /\ FailedInv /\ SessionsEnd

-----------------------------------------------------------------------------
(* Types and numbers *)

\* A goroutine is a startup, a teardown or the shutdown, and nobody is 0.
LEMMA Numbers ==
  /\ Starts \cup Teardowns \cup {Shut} = Stoppers /\ Stoppers \subseteq Nat \ {0}
  /\ Starts \cap Teardowns = {} /\ Shut \notin Starts /\ Shut \notin Teardowns
  /\ MaxStarts \in Nat /\ MaxDisconnects \in Nat
  /\ Starts \subseteq Stoppers /\ Starts \subseteq Pids /\ Nil \in Pids /\ Nil \notin Starts
  /\ \A x \in Pids : {x} \ {Nil} \subseteq Starts
BY ServerAssumption DEF Starts, Teardowns, Shut, Stoppers, Pids, Nil

\* The numbers given out are well typed.
LEMMA NumbersGiveTypes == NumbersInv => TypeOK
BY DEF NumbersInv, Scalars, Records, Takes, Steps, TypeOK

\* At first nothing is under way.
LEMMA InitNumbers == Init => NumbersInv
<1> SUFFICES ASSUME Init PROVE NumbersInv
  OBVIOUS
<1>1. Scalars /\ Records
  BY Numbers DEF Init, Scalars, Records
<1>2. Takes /\ pc \in [Stoppers -> Steps]
  BY Numbers DEF Init, Takes, NoTake, Steps
<1>3. Unused /\ begun \in 0 .. MaxStarts /\ lost \in 0 .. MaxDisconnects
  BY Numbers DEF Init, Unused
<1> QED
  BY <1>1, <1>2, <1>3 DEF NumbersInv

\* Every step keeps the types and gives out numbers in order.
LEMMA NextNumbers ==
  ASSUME NumbersInv, [Next]_vars
  PROVE  NumbersInv'
<1>0. /\ Scalars /\ Records /\ Takes /\ pc \in [Stoppers -> Steps]
      /\ begun \in 0 .. MaxStarts /\ lost \in 0 .. MaxDisconnects /\ Unused
  BY DEF NumbersInv
<1>1. ASSUME NEW s \in Starts, Lock(s)
      PROVE  NumbersInv'
  <2>1. Scalars'
    BY <1>1, <1>0, Numbers DEF Lock, server, app, ctxs, world, CloseSession, Scalars
  <2>2. Records' /\ Takes'
    BY <1>1, <1>0, Numbers DEF Lock, world, Records, Takes, NoTake, Scalars
  <2>3. pc' \in [Stoppers -> Steps]
    BY <1>1, <1>0, Numbers DEF Lock, Goto, Steps
  <2>4. Unused' /\ begun' \in 0 .. MaxStarts /\ lost' \in 0 .. MaxDisconnects
    BY <1>1, <1>0, Numbers DEF Lock, Goto, Unused, Starts, Teardowns
  <2> QED
    BY <2>1, <2>2, <2>3, <2>4 DEF NumbersInv
<1>2. ASSUME NEW s \in Starts, Ping(s)
      PROVE  NumbersInv'
  <2>1. Scalars'
    BY <1>2, <1>0, Numbers DEF Ping, Return, server, app, ctxs, world, AliveProcs, Scalars
  <2>2. Records' /\ Takes'
    BY <1>2, <1>0, Numbers DEF Ping, Return, world, Records, Takes, NoTake, Scalars
  <2>3. pc' \in [Stoppers -> Steps]
    BY <1>2, <1>0, Numbers DEF Ping, Return, Goto, Steps
  <2>4. Unused' /\ begun' \in 0 .. MaxStarts /\ lost' \in 0 .. MaxDisconnects
    BY <1>2, <1>0, Numbers DEF Ping, Return, Goto, Unused, Starts, Teardowns
  <2> QED
    BY <2>1, <2>2, <2>3, <2>4 DEF NumbersInv
<1>3. ASSUME NEW s \in Starts, Spawn(s)
      PROVE  NumbersInv'
  <2>1. Scalars'
    BY <1>3, <1>0, Numbers DEF Spawn, Return, server, app, ctxs, world, CloseSession, Scalars
  <2>2. Records' /\ Takes'
    BY <1>3, <1>0, Numbers DEF Spawn, Return, world, Records, Takes, NoTake, Scalars
  <2>3. pc' \in [Stoppers -> Steps]
    BY <1>3, <1>0, Numbers DEF Spawn, Return, Goto, Steps
  <2>4. Unused' /\ begun' \in 0 .. MaxStarts /\ lost' \in 0 .. MaxDisconnects
    BY <1>3, <1>0, Numbers DEF Spawn, Return, Goto, Unused, Starts, Teardowns
  <2> QED
    BY <2>1, <2>2, <2>3, <2>4 DEF NumbersInv
<1>4. ASSUME NEW s \in Starts, PublishPid(s)
      PROVE  NumbersInv'
  <2>1. Scalars'
    BY <1>4, <1>0, Numbers DEF PublishPid, server, app, ctxs, world, CloseSession, Scalars
  <2>2. Records' /\ Takes'
    BY <1>4, <1>0, Numbers DEF PublishPid, world, Records, Takes, NoTake, Scalars
  <2>3. pc' \in [Stoppers -> Steps]
    BY <1>4, <1>0, Numbers DEF PublishPid, Goto, Steps
  <2>4. Unused' /\ begun' \in 0 .. MaxStarts /\ lost' \in 0 .. MaxDisconnects
    BY <1>4, <1>0, Numbers DEF PublishPid, Goto, Unused, Starts, Teardowns
  <2> QED
    BY <2>1, <2>2, <2>3, <2>4 DEF NumbersInv
<1>5. ASSUME NEW s \in Starts, WaitForServer(s)
      PROVE  NumbersInv'
  <2>1. Scalars'
    BY <1>5, <1>0, Numbers DEF WaitForServer, server, app, ctxs, world, CloseSession, Scalars
  <2>2. Records' /\ Takes'
    BY <1>5, <1>0, Numbers DEF WaitForServer, world, Records, Takes, NoTake, Scalars
  <2>3. pc' \in [Stoppers -> Steps]
    BY <1>5, <1>0, Numbers DEF WaitForServer, Goto, Steps
  <2>4. Unused' /\ begun' \in 0 .. MaxStarts /\ lost' \in 0 .. MaxDisconnects
    BY <1>5, <1>0, Numbers DEF WaitForServer, Goto, Unused, Starts, Teardowns
  <2> QED
    BY <2>1, <2>2, <2>3, <2>4 DEF NumbersInv
<1>6. ASSUME NEW s \in Starts, GiveUp(s)
      PROVE  NumbersInv'
  <2>1. Scalars'
    BY <1>6, <1>0, Numbers DEF GiveUp, server, app, ctxs, world, CloseSession, Scalars
  <2>2. Records' /\ Takes'
    BY <1>6, <1>0, Numbers DEF GiveUp, world, Records, Takes, NoTake, Scalars
  <2>3. pc' \in [Stoppers -> Steps]
    BY <1>6, <1>0, Numbers DEF GiveUp, Goto, Steps
  <2>4. Unused' /\ begun' \in 0 .. MaxStarts /\ lost' \in 0 .. MaxDisconnects
    BY <1>6, <1>0, Numbers DEF GiveUp, Goto, Unused, Starts, Teardowns
  <2> QED
    BY <2>1, <2>2, <2>3, <2>4 DEF NumbersInv
<1>7. ASSUME NEW s \in Starts, KillOwn(s)
      PROVE  NumbersInv'
  <2>1. Scalars'
    BY <1>7, <1>0, Numbers DEF KillOwn, server, app, ctxs, world, CloseSession, Scalars
  <2>2. Records' /\ Takes'
    BY <1>7, <1>0, Numbers DEF KillOwn, world, Records, Takes, NoTake, Scalars
  <2>3. pc' \in [Stoppers -> Steps]
    BY <1>7, <1>0, Numbers DEF KillOwn, Goto, Steps
  <2>4. Unused' /\ begun' \in 0 .. MaxStarts /\ lost' \in 0 .. MaxDisconnects
    BY <1>7, <1>0, Numbers DEF KillOwn, Goto, Unused, Starts, Teardowns
  <2> QED
    BY <2>1, <2>2, <2>3, <2>4 DEF NumbersInv
<1>8. ASSUME NEW s \in Starts, Reap(s)
      PROVE  NumbersInv'
  <2>1. Scalars'
    BY <1>8, <1>0, Numbers DEF Reap, Return, server, app, ctxs, world, CloseSession, Scalars
  <2>2. Records' /\ Takes'
    BY <1>8, <1>0, Numbers DEF Reap, Return, world, Records, Takes, NoTake, Scalars
  <2>3. pc' \in [Stoppers -> Steps]
    BY <1>8, <1>0, Numbers DEF Reap, Return, Goto, Steps
  <2>4. Unused' /\ begun' \in 0 .. MaxStarts /\ lost' \in 0 .. MaxDisconnects
    BY <1>8, <1>0, Numbers DEF Reap, Return, Goto, Unused, Starts, Teardowns
  <2> QED
    BY <2>1, <2>2, <2>3, <2>4 DEF NumbersInv
<1>9. ASSUME NEW s \in Starts, Adopt(s)
      PROVE  NumbersInv'
  <2>1. Scalars'
    BY <1>9, <1>0, Numbers DEF Adopt, Return, server, app, ctxs, world, CloseSession, Scalars
  <2>2. Records' /\ Takes'
    BY <1>9, <1>0, Numbers DEF Adopt, Return, world, Records, Takes, NoTake, Scalars
  <2>3. pc' \in [Stoppers -> Steps]
    BY <1>9, <1>0, Numbers DEF Adopt, Return, Goto, Steps
  <2>4. Unused' /\ begun' \in 0 .. MaxStarts /\ lost' \in 0 .. MaxDisconnects
    BY <1>9, <1>0, Numbers DEF Adopt, Return, Goto, Unused, Starts, Teardowns
  <2> QED
    BY <2>1, <2>2, <2>3, <2>4 DEF NumbersInv
<1>10. ASSUME NEW s \in Starts, Open(s)
      PROVE  NumbersInv'
  <2>1. Scalars'
    BY <1>10, <1>0, Numbers DEF Open, server, app, ctxs, world, CloseSession, Scalars
  <2>2. Records' /\ Takes'
    BY <1>10, <1>0, Numbers DEF Open, world, Records, Takes, NoTake, Scalars
  <2>3. pc' \in [Stoppers -> Steps]
    BY <1>10, <1>0, Numbers DEF Open, Goto, Steps
  <2>4. Unused' /\ begun' \in 0 .. MaxStarts /\ lost' \in 0 .. MaxDisconnects
    BY <1>10, <1>0, Numbers DEF Open, Goto, Unused, Starts, Teardowns
  <2> QED
    BY <2>1, <2>2, <2>3, <2>4 DEF NumbersInv
<1>11. ASSUME NEW s \in Starts, Publish(s)
      PROVE  NumbersInv'
  <2>1. Scalars'
    BY <1>11, <1>0, Numbers DEF Publish, server, app, ctxs, world, CloseSession, Scalars
  <2>2. Records' /\ Takes'
    BY <1>11, <1>0, Numbers DEF Publish, world, Records, Takes, NoTake, Scalars
  <2>3. pc' \in [Stoppers -> Steps]
    BY <1>11, <1>0, Numbers DEF Publish, Goto, Steps
  <2>4. Unused' /\ begun' \in 0 .. MaxStarts /\ lost' \in 0 .. MaxDisconnects
    BY <1>11, <1>0, Numbers DEF Publish, Goto, Unused, Starts, Teardowns
  <2> QED
    BY <2>1, <2>2, <2>3, <2>4 DEF NumbersInv
<1>12. ASSUME NEW s \in Starts, Report(s)
      PROVE  NumbersInv'
  <2>1. Scalars'
    BY <1>12, <1>0, Numbers DEF Report, server, app, ctxs, world, CloseSession, Scalars
  <2>2. Records' /\ Takes'
    BY <1>12, <1>0, Numbers DEF Report, world, Records, Takes, NoTake, Scalars
  <2>3. pc' \in [Stoppers -> Steps]
    BY <1>12, <1>0, Numbers DEF Report, Goto, Steps
  <2>4. Unused' /\ begun' \in 0 .. MaxStarts /\ lost' \in 0 .. MaxDisconnects
    BY <1>12, <1>0, Numbers DEF Report, Goto, Unused, Starts, Teardowns
  <2> QED
    BY <2>1, <2>2, <2>3, <2>4 DEF NumbersInv
<1>13. ASSUME NEW a \in Stoppers, CloseTaken(a)
      PROVE  NumbersInv'
  <2>1. Scalars'
    <3>1. taken[a].session \in Pids
      BY <1>13, <1>0, Numbers DEF Takes
    <3> QED
      BY <1>13, <1>0, <3>1, Numbers DEF CloseTaken, server, app, ctxs, world, CloseSession, Scalars
  <2>2. Records' /\ Takes'
    BY <1>13, <1>0, Numbers DEF CloseTaken, world, Records, Takes, NoTake, Scalars
  <2>3. pc' \in [Stoppers -> Steps]
    BY <1>13, <1>0, Numbers DEF CloseTaken, Goto, Steps
  <2>4. Unused' /\ begun' \in 0 .. MaxStarts /\ lost' \in 0 .. MaxDisconnects
    BY <1>13, <1>0, Numbers DEF CloseTaken, Goto, Unused, Starts, Teardowns
  <2> QED
    BY <2>1, <2>2, <2>3, <2>4 DEF NumbersInv
<1>14. ASSUME NEW a \in Stoppers, StopServer(a)
      PROVE  NumbersInv'
  <2>0. /\ taken' \in {[taken EXCEPT ![a] = [NoTake EXCEPT !.pid = serverPID]], [taken EXCEPT ![a] = NoTake]}
        /\ pc' \in {[pc EXCEPT ![a] = "kill"], [pc EXCEPT ![a] = "stopped"]}
        /\ startDone' = startDone \cup ({serverStartCancel} \ {Nil})
        /\ serverStartCancel' = Nil /\ serverPID' = Nil /\ serverStarted' = FALSE /\ pc[a] = "stop"
        /\ UNCHANGED <<serverStartMu, app, outcome, ctxDone, begun, lost, world>>
    BY <1>14 DEF StopServer, Goto
  <2>1. Scalars'
    BY <2>0, <1>0, Numbers DEF app, world, Scalars
  <2>2. Records' /\ Takes'
    <3>1. NoTake \in [pid : Pids, session : Pids]
          /\ [NoTake EXCEPT !.pid = serverPID] \in [pid : Pids, session : Pids]
      BY <1>0, Numbers DEF NoTake, Scalars
    <3> QED
      BY <2>0, <3>1, <1>0 DEF world, Records, Takes
  <2>3. pc' \in [Stoppers -> Steps]
    BY <2>0, <1>0 DEF Steps
  <2>4. Unused' /\ begun' \in 0 .. MaxStarts /\ lost' \in 0 .. MaxDisconnects
    BY <2>0, <1>0, Numbers DEF Unused, Starts, Teardowns
  <2> QED
    BY <2>1, <2>2, <2>3, <2>4 DEF NumbersInv
<1>15. ASSUME NEW a \in Stoppers, KillTaken(a)
      PROVE  NumbersInv'
  <2>1. Scalars'
    BY <1>15, <1>0, Numbers DEF KillTaken, server, app, ctxs, world, CloseSession, Scalars
  <2>2. Records' /\ Takes'
    BY <1>15, <1>0, Numbers DEF KillTaken, world, Records, Takes, NoTake, Scalars
  <2>3. pc' \in [Stoppers -> Steps]
    BY <1>15, <1>0, Numbers DEF KillTaken, Goto, Steps
  <2>4. Unused' /\ begun' \in 0 .. MaxStarts /\ lost' \in 0 .. MaxDisconnects
    BY <1>15, <1>0, Numbers DEF KillTaken, Goto, Unused, Starts, Teardowns
  <2> QED
    BY <2>1, <2>2, <2>3, <2>4 DEF NumbersInv
<1>16. ASSUME NEW s \in Starts, Boot(s)
      PROVE  NumbersInv'
  <2>1. Scalars'
    BY <1>16, <1>0, Numbers DEF Boot, server, app, ctxs, world, CloseSession, Scalars
  <2>2. Records' /\ Takes'
    BY <1>16, <1>0, Numbers DEF Boot, world, Records, Takes, NoTake, Scalars
  <2>3. pc' \in [Stoppers -> Steps]
    BY <1>16, <1>0, Numbers DEF Boot, Goto, Steps
  <2>4. Unused' /\ begun' \in 0 .. MaxStarts /\ lost' \in 0 .. MaxDisconnects
    BY <1>16, <1>0, Numbers DEF Boot, Goto, Unused, Starts, Teardowns
  <2> QED
    BY <2>1, <2>2, <2>3, <2>4 DEF NumbersInv
<1>17. ASSUME NEW s \in Starts, Crash(s)
      PROVE  NumbersInv'
  <2>1. Scalars'
    BY <1>17, <1>0, Numbers DEF Crash, server, app, ctxs, world, CloseSession, Scalars
  <2>2. Records' /\ Takes'
    BY <1>17, <1>0, Numbers DEF Crash, world, Records, Takes, NoTake, Scalars
  <2>3. pc' \in [Stoppers -> Steps]
    BY <1>17, <1>0, Numbers DEF Crash, Goto, Steps
  <2>4. Unused' /\ begun' \in 0 .. MaxStarts /\ lost' \in 0 .. MaxDisconnects
    BY <1>17, <1>0, Numbers DEF Crash, Goto, Unused, Starts, Teardowns
  <2> QED
    BY <2>1, <2>2, <2>3, <2>4 DEF NumbersInv
<1>18. CASE OnStartViiper
  <2>1. Scalars'
    <3>1. begun' \in Pids
      BY <1>18, <1>0, Numbers DEF OnStartViiper, Pids, Starts
    <3> QED
      BY <1>18, <1>0, <3>1, Numbers DEF OnStartViiper, server, app, ctxs, world, CloseSession,
         Scalars
  <2>2. Records' /\ Takes'
    BY <1>18, <1>0, Numbers DEF OnStartViiper, world, Records, Takes, NoTake, Scalars
  <2>3. pc' \in [Stoppers -> Steps]
    BY <1>18, <1>0, Numbers DEF OnStartViiper, Goto, Steps
  <2>4. Unused' /\ begun' \in 0 .. MaxStarts /\ lost' \in 0 .. MaxDisconnects
    BY <1>18, <1>0, Numbers DEF OnStartViiper, Goto, Unused, Starts, Teardowns
  <2> QED
    BY <2>1, <2>2, <2>3, <2>4 DEF NumbersInv
<1>19. CASE MonitorSees
  <2>1. Scalars'
    BY <1>19, <1>0, Numbers DEF MonitorSees, server, app, ctxs, world, CloseSession, Scalars
  <2>2. Records' /\ Takes'
    BY <1>19, <1>0, Numbers DEF MonitorSees, world, Records, Takes, NoTake, Scalars
  <2>3. pc' \in [Stoppers -> Steps]
    BY <1>19, <1>0, Numbers DEF MonitorSees, Goto, Steps
  <2>4. Unused' /\ begun' \in 0 .. MaxStarts /\ lost' \in 0 .. MaxDisconnects
    BY <1>19, <1>0, Numbers DEF MonitorSees, Goto, Unused, Starts, Teardowns
  <2> QED
    BY <2>1, <2>2, <2>3, <2>4 DEF NumbersInv
<1>20. CASE OnViiperDisconnected
  <2>1. Scalars'
    BY <1>20, <1>0, Numbers DEF OnViiperDisconnected, server, app, ctxs, world, CloseSession,
       Scalars
  <2>2. Records' /\ Takes'
    <3>1. MaxStarts + lost' \in Stoppers /\ inputSession \in Pids
          /\ taken' = [taken EXCEPT
               ![MaxStarts + lost'] = [taken[MaxStarts + lost'] EXCEPT !.session = inputSession]]
      BY <1>20, <1>0, Numbers DEF OnViiperDisconnected, Scalars, Teardowns
    <3>2. [taken[MaxStarts + lost'] EXCEPT !.session = inputSession] \in [pid : Pids, session : Pids]
      BY <1>0, <3>1 DEF Takes
    <3> QED
      BY <1>20, <1>0, <3>1, <3>2 DEF OnViiperDisconnected, world, Records, Takes
  <2>3. pc' \in [Stoppers -> Steps]
    BY <1>20, <1>0, Numbers DEF OnViiperDisconnected, Goto, Steps
  <2>4. Unused' /\ begun' \in 0 .. MaxStarts /\ lost' \in 0 .. MaxDisconnects
    BY <1>20, <1>0, Numbers DEF OnViiperDisconnected, Goto, Unused, Starts, Teardowns
  <2> QED
    BY <2>1, <2>2, <2>3, <2>4 DEF NumbersInv
<1>21. CASE Shutdown
  <2>1. Scalars'
    BY <1>21, <1>0, Numbers DEF Shutdown, server, app, ctxs, world, CloseSession, Scalars
  <2>2. Records' /\ Takes'
    BY <1>21, <1>0, Numbers DEF Shutdown, world, Records, Takes, NoTake, Scalars
  <2>3. pc' \in [Stoppers -> Steps]
    BY <1>21, <1>0, Numbers DEF Shutdown, Goto, Steps
  <2>4. Unused' /\ begun' \in 0 .. MaxStarts /\ lost' \in 0 .. MaxDisconnects
    BY <1>21, <1>0, Numbers DEF Shutdown, Goto, Unused, Starts, Teardowns
  <2> QED
    BY <2>1, <2>2, <2>3, <2>4 DEF NumbersInv
<1>22. CASE Exit
  <2>1. Scalars'
    BY <1>22, <1>0, Numbers DEF Exit, server, app, ctxs, world, CloseSession, Scalars
  <2>2. Records' /\ Takes'
    BY <1>22, <1>0, Numbers DEF Exit, world, Records, Takes, NoTake, Scalars
  <2>3. pc' \in [Stoppers -> Steps]
    BY <1>22, <1>0, Numbers DEF Exit, Goto, Steps
  <2>4. Unused' /\ begun' \in 0 .. MaxStarts /\ lost' \in 0 .. MaxDisconnects
    BY <1>22, <1>0, Numbers DEF Exit, Goto, Unused, Starts, Teardowns
  <2> QED
    BY <2>1, <2>2, <2>3, <2>4 DEF NumbersInv
<1>23. CASE UNCHANGED vars
  <2>1. Scalars'
    BY <1>23, <1>0, Numbers DEF vars, server, app, ctxs, world, CloseSession, Scalars
  <2>2. Records' /\ Takes'
    BY <1>23, <1>0, Numbers DEF vars, world, Records, Takes, NoTake, Scalars
  <2>3. pc' \in [Stoppers -> Steps]
    BY <1>23, <1>0, Numbers DEF vars, Goto, Steps
  <2>4. Unused' /\ begun' \in 0 .. MaxStarts /\ lost' \in 0 .. MaxDisconnects
    BY <1>23, <1>0, Numbers DEF vars, Goto, Unused, Starts, Teardowns
  <2> QED
    BY <2>1, <2>2, <2>3, <2>4 DEF NumbersInv
<1> QED
  BY <1>1, <1>2, <1>3, <1>4, <1>5, <1>6, <1>7, <1>8, <1>9, <1>10, <1>11, <1>12, <1>13, <1>14,
     <1>15, <1>16, <1>17, <1>18, <1>19, <1>20, <1>21, <1>22, <1>23 DEF Next, AppStep,
     StartStep, StopStep

-----------------------------------------------------------------------------
(* One server *)

\* At first no process is alive, and nobody knows one.
LEMMA InitSpawn == Init => SpawnInv /\ OnlyOne
BY Numbers DEF Init, SpawnInv, OnlyOne, Inside, AliveProcs

\* Nor has anybody been given a number.
LEMMA InitPids == Init => PidInv
BY Numbers DEF Init, PidInv, NoTake, Nil

\* A startup publishes its process when it has one.
LEMMA NextPids ==
  ASSUME NumbersInv, PidInv, [Next]_vars
  PROVE  PidInv'
<1>0. pc \in [Stoppers -> Steps] /\ taken \in [Stoppers -> [pid : Pids, session : Pids]] /\ PidInv
  BY DEF NumbersInv, Takes
<1>1. ASSUME NEW s \in Starts, Lock(s)
      PROVE  PidInv'
  BY <1>1, <1>0, Numbers DEF Lock, Goto, PidInv, NoTake, server
<1>2. ASSUME NEW s \in Starts, Ping(s)
      PROVE  PidInv'
  BY <1>2, <1>0, Numbers DEF Ping, Return, Goto, PidInv, NoTake, server
<1>3. ASSUME NEW s \in Starts, Spawn(s)
      PROVE  PidInv'
  BY <1>3, <1>0, Numbers DEF Spawn, Return, Goto, PidInv, NoTake, server
<1>4. ASSUME NEW s \in Starts, PublishPid(s)
      PROVE  PidInv'
  BY <1>4, <1>0, Numbers DEF PublishPid, Goto, PidInv, NoTake, server
<1>5. ASSUME NEW s \in Starts, WaitForServer(s)
      PROVE  PidInv'
  BY <1>5, <1>0, Numbers DEF WaitForServer, Goto, PidInv, NoTake, server
<1>6. ASSUME NEW s \in Starts, GiveUp(s)
      PROVE  PidInv'
  BY <1>6, <1>0, Numbers DEF GiveUp, Goto, PidInv, NoTake, server
<1>7. ASSUME NEW s \in Starts, KillOwn(s)
      PROVE  PidInv'
  BY <1>7, <1>0, Numbers DEF KillOwn, Goto, PidInv, NoTake, server
<1>8. ASSUME NEW s \in Starts, Reap(s)
      PROVE  PidInv'
  BY <1>8, <1>0, Numbers DEF Reap, Return, Goto, PidInv, NoTake, server
<1>9. ASSUME NEW s \in Starts, Adopt(s)
      PROVE  PidInv'
  BY <1>9, <1>0, Numbers DEF Adopt, Return, Goto, PidInv, NoTake, server
<1>10. ASSUME NEW s \in Starts, Open(s)
      PROVE  PidInv'
  BY <1>10, <1>0, Numbers DEF Open, Goto, PidInv, NoTake, server
<1>11. ASSUME NEW s \in Starts, Publish(s)
      PROVE  PidInv'
  BY <1>11, <1>0, Numbers DEF Publish, Goto, PidInv, NoTake, server
<1>12. ASSUME NEW s \in Starts, Report(s)
      PROVE  PidInv'
  BY <1>12, <1>0, Numbers DEF Report, Goto, PidInv, NoTake, server
<1>13. ASSUME NEW a \in Stoppers, CloseTaken(a)
      PROVE  PidInv'
  BY <1>13, <1>0, Numbers DEF CloseTaken, Goto, PidInv, NoTake, server
<1>14. ASSUME NEW a \in Stoppers, StopServer(a)
      PROVE  PidInv'
  <2>1. /\ \E x \in {"kill", "stopped"} : pc[a] = "stop" /\ pc' = [pc EXCEPT ![a] = x]
        /\ \E n \in {serverPID, Nil} : taken' = [taken EXCEPT ![a] = [NoTake EXCEPT !.pid = n]]
        /\ serverPID' = Nil
    BY <1>14 DEF StopServer, Goto, NoTake
  <2>2. PICK n \in {serverPID, Nil} : taken' = [taken EXCEPT ![a] = [NoTake EXCEPT !.pid = n]]
    BY <2>1
  <2>3. \A b \in Stoppers : taken'[b].pid \in {serverPID, Nil, taken[b].pid}
    BY <1>0, <2>2 DEF NoTake
  <2>4. \A u \in Starts : pc'[u] \in {"none", "lock", "ping", "spawn"} => pc'[u] = pc[u]
    BY <1>0, <2>1, Numbers
  <2> QED
    BY <1>0, <2>1, <2>3, <2>4, Numbers DEF PidInv
<1>15. ASSUME NEW a \in Stoppers, KillTaken(a)
      PROVE  PidInv'
  BY <1>15, <1>0, Numbers DEF KillTaken, Goto, PidInv, NoTake, server
<1>16. ASSUME NEW s \in Starts, Boot(s)
      PROVE  PidInv'
  BY <1>16, <1>0, Numbers DEF Boot, Goto, PidInv, NoTake, server
<1>17. ASSUME NEW s \in Starts, Crash(s)
      PROVE  PidInv'
  BY <1>17, <1>0, Numbers DEF Crash, Goto, PidInv, NoTake, server
<1>18. CASE OnStartViiper
  <2>1. /\ begun' \in Starts /\ pc[begun'] = "none" /\ pc' = [pc EXCEPT ![begun'] = "lock"]
        /\ UNCHANGED <<serverPID, taken>>
    BY <1>18, Numbers DEF OnStartViiper, Goto, NumbersInv, Unused, Starts, server
  <2> QED
    BY <1>0, <2>1, Numbers DEF PidInv
<1>19. CASE MonitorSees
  BY <1>19, <1>0, Numbers DEF MonitorSees, Goto, PidInv, NoTake, server
<1>20. CASE OnViiperDisconnected
  BY <1>20, <1>0, Numbers DEF OnViiperDisconnected, Goto, PidInv, NoTake, server
<1>21. CASE Shutdown
  BY <1>21, <1>0, Numbers DEF Shutdown, Goto, PidInv, NoTake, server
<1>22. CASE Exit
  BY <1>22, <1>0, Numbers DEF Exit, Goto, PidInv, NoTake, server
<1>23. CASE UNCHANGED vars
  BY <1>23, <1>0, Numbers DEF vars, Goto, PidInv, NoTake, server
<1> QED
  BY <1>1, <1>2, <1>3, <1>4, <1>5, <1>6, <1>7, <1>8, <1>9, <1>10, <1>11, <1>12, <1>13, <1>14,
     <1>15, <1>16, <1>17, <1>18, <1>19, <1>20, <1>21, <1>22, <1>23 DEF Next, AppStep,
     StartStep, StopStep

\* A process that has let a ping pass stays one that has.
LEMMA SlowStays == [Next]_vars => slow \subseteq slow'
BY DEF Next, AppStep, StartStep, StopStep, vars, world, OnStartViiper, MonitorSees,
   OnViiperDisconnected, Shutdown, Exit, Lock, Ping, Spawn, PublishPid, WaitForServer, GiveUp,
   KillOwn, Reap, Adopt, Open, Publish, Report, CloseTaken, StopServer, KillTaken, Boot, Crash

\* A step that starts and kills nothing, and moves goroutines about elsewhere.
LEMMA ElsewhereKeepsSpawn ==
  ASSUME SpawnInv, slow \subseteq slow', UNCHANGED <<serverStartMu, proc>>,
         ctxDone \subseteq ctxDone', startDone \subseteq startDone',
         \A s \in Starts : \/ pc'[s] = pc[s]
                           \/ pc[s] = "none" /\ pc'[s] = "lock"
                           \/ {pc[s], pc'[s]} \cap (Inside \cup {"none", "lock"}) = {}
                           \/ pc[s] = "giveUp" /\ pc'[s] = "killOwn"
  PROVE  SpawnInv'
<1>1. \A s \in Starts : ~Cancelled(s)' => ~Cancelled(s)
  BY DEF Cancelled
<1>2. AliveProcs' = AliveProcs
  BY DEF AliveProcs
<1> QED
  BY <1>1, <1>2 DEF SpawnInv, Inside

\* Nor does the end of a process, which was started and may have been killed.
LEMMA DeathKeepsSpawn ==
  ASSUME SpawnInv, slow \subseteq slow', proc \in [Starts -> {"none", "booting", "up", "dead"}],
         NEW x \in Pids, x \in Starts => pc[x] \notin {"none", "lock", "ping", "spawn"},
         proc' = [proc EXCEPT ![x] = "dead"] \/ proc' = proc,
         UNCHANGED <<serverStartMu, ctxDone, startDone>>,
         \A s \in Starts : \/ pc'[s] = pc[s]
                           \/ pc[s] = "kill" /\ pc'[s] = "stopped"
                           \/ pc[s] = "killOwn" /\ pc'[s] = "reap"
  PROVE  SpawnInv'
<1>1. \A s \in Starts : proc'[s] = proc[s] \/ (s = x /\ proc'[s] = "dead")
  OBVIOUS
<1>2. AliveProcs' \subseteq AliveProcs
  BY <1>1 DEF AliveProcs
<1>3. \A s \in Starts : Cancelled(s)' <=> Cancelled(s)
  BY DEF Cancelled
<1>4. \A s \in Starts : /\ pc[s] \in Inside <=> pc'[s] \in Inside
                        /\ pc'[s] \in {"none", "lock", "ping", "spawn", "publishPid", "wait", "adopt"} =>
                             pc'[s] = pc[s]
  BY DEF Inside
<1> QED
  BY <1>1, <1>2, <1>3, <1>4 DEF SpawnInv

\* A startup spawns its server when no other one is alive, unless it is doomed.
LEMMA NextSpawn ==
  ASSUME NumbersInv, PidInv, SpawnInv, [Next]_vars
  PROVE  SpawnInv'
<1>0. /\ pc \in [Stoppers -> Steps] /\ proc \in [Starts -> {"none", "booting", "up", "dead"}]
      /\ SpawnInv /\ slow \subseteq slow'
  BY SlowStays DEF NumbersInv, Records
<1>1. ASSUME NEW s \in Starts, Lock(s)
      PROVE  SpawnInv'
  <2>1. /\ pc[s] = "lock" /\ serverStartMu = Nil /\ serverStartMu' = s
        /\ pc' = [pc EXCEPT ![s] = "ping"] /\ UNCHANGED <<proc, ctxDone, startDone>>
    BY <1>1 DEF Lock, StartMuFree, Goto, ctxs, world
  <2>2. \A u \in Starts : pc[u] \notin Inside /\ (u # s => pc'[u] = pc[u]) /\ pc'[s] = "ping"
    BY <1>0, <2>1, Numbers DEF SpawnInv
  <2>3. \A u \in Starts : pc'[u] \in Inside <=> serverStartMu' = u
    BY <2>1, <2>2 DEF Inside
  <2> QED
    BY <1>0, <2>1, <2>2, <2>3 DEF SpawnInv, Inside
<1>2. ASSUME NEW s \in Starts, Ping(s)
      PROVE  SpawnInv'
  <2>1. pc[s] = "ping" /\ serverStartMu = s /\ proc[s] = "none"
        /\ UNCHANGED <<proc, ctxDone>>
    BY <1>2, <1>0 DEF Ping, SpawnInv, Inside, world
  <2>2. CASE Return(s, "ok")
    <3>1. pc' = [pc EXCEPT ![s] = "opening"] /\ serverStartMu' = Nil
      BY <2>2 DEF Return, Goto
    <3>2. \A u \in Starts \ {s} : pc'[u] = pc[u] /\ pc[u] \notin Inside
      BY <1>0, <2>1, <3>1, Numbers DEF SpawnInv
    <3>3. pc'[s] = "opening"
      BY <1>0, <3>1, Numbers
    <3> QED
      BY <1>0, <2>1, <3>1, <3>2, <3>3, Numbers DEF SpawnInv, Inside
  <2>3. CASE /\ Goto(s, "spawn") /\ slow' = IF Cancelled(s) THEN slow ELSE slow \cup AliveProcs
             /\ UNCHANGED <<serverStartMu, startDone>>
    <3>1. pc' = [pc EXCEPT ![s] = "spawn"] /\ UNCHANGED <<serverStartMu, startDone>>
      BY <2>3 DEF Goto
    <3>2. \A u \in Starts \ {s} : pc'[u] = pc[u] /\ pc[u] \notin Inside
      BY <1>0, <2>1, <3>1, Numbers DEF SpawnInv
    <3>3. ~Cancelled(s) => AliveProcs \subseteq {s} \cup slow'
      BY <2>3
    <3>4. pc'[s] = "spawn" /\ AliveProcs' = AliveProcs /\ (Cancelled(s)' <=> Cancelled(s))
      BY <1>0, <2>1, <3>1, Numbers DEF AliveProcs, Cancelled
    <3> QED
      BY <1>0, <2>1, <3>1, <3>2, <3>3, <3>4 DEF SpawnInv, Inside
  <2> QED
    BY <1>2, <2>2, <2>3 DEF Ping
<1>3. ASSUME NEW s \in Starts, Spawn(s)
      PROVE  SpawnInv'
  <2>1. pc[s] = "spawn" /\ serverStartMu = s /\ proc[s] = "none" /\ UNCHANGED <<ctxDone>>
        /\ \A u \in Starts \ {s} : pc[u] \notin Inside
    BY <1>3, <1>0, Numbers DEF Spawn, SpawnInv, Inside
  <2>2. CASE /\ proc' = [proc EXCEPT ![s] = "booting"] /\ Goto(s, "publishPid")
             /\ UNCHANGED <<serverStartMu, startDone>>
    <3>1. /\ pc'[s] = "publishPid" /\ proc'[s] = "booting" /\ (Cancelled(s)' <=> Cancelled(s))
          /\ \A u \in Starts \ {s} : pc'[u] = pc[u] /\ proc'[u] = proc[u]
      BY <1>0, <2>1, <2>2, Numbers DEF Goto, Cancelled
    <3>2. AliveProcs' = AliveProcs \cup {s}
      BY <3>1 DEF AliveProcs
    <3> QED
      BY <1>0, <2>1, <2>2, <3>1, <3>2 DEF SpawnInv, Inside
  <2>3. CASE Return(s, "failed") /\ UNCHANGED proc
    <3>1. /\ pc'[s] = "report" /\ serverStartMu' = Nil
          /\ \A u \in Starts \ {s} : pc'[u] = pc[u]
      BY <1>0, <2>3, Numbers DEF Return, Goto
    <3> QED
      BY <1>0, <2>1, <2>3, <3>1, Numbers DEF SpawnInv, Inside
  <2> QED
    BY <1>3, <2>2, <2>3 DEF Spawn
<1>4. ASSUME NEW s \in Starts, PublishPid(s)
      PROVE  SpawnInv'
  BY <1>4, <1>0, Numbers DEF PublishPid, Goto, SpawnInv, Inside, AliveProcs, Cancelled,
     AnswersPing, world, ctxs, server, app
<1>5. ASSUME NEW s \in Starts, WaitForServer(s)
      PROVE  SpawnInv'
  BY <1>5, <1>0, Numbers DEF WaitForServer, Goto, SpawnInv, Inside, AliveProcs, Cancelled,
     AnswersPing, world, ctxs, server, app
<1>6. ASSUME NEW s \in Starts, GiveUp(s)
      PROVE  SpawnInv'
  <2>1. pc[s] = "giveUp" /\ pc' = [pc EXCEPT ![s] = "killOwn"]
    BY <1>6 DEF GiveUp, Goto
  <2>2. \A u \in Starts : pc'[u] = pc[u] \/ (pc[u] = "giveUp" /\ pc'[u] = "killOwn")
    BY <1>0, <2>1, Numbers
  <2>3. UNCHANGED <<serverStartMu, proc, ctxDone, startDone>>
    BY <1>6 DEF GiveUp, ctxs, world
  <2> QED
    BY <1>0, <2>2, <2>3, ElsewhereKeepsSpawn
<1>7. ASSUME NEW s \in Starts, KillOwn(s)
      PROVE  SpawnInv'
  <2>1. /\ taken[s].pid \in Pids
        /\ taken[s].pid \in Starts => pc[taken[s].pid] \notin {"none", "lock", "ping", "spawn"}
    BY Numbers DEF NumbersInv, Takes, PidInv
  <2>2. pc[s] = "killOwn" /\ pc' = [pc EXCEPT ![s] = "reap"]
    BY <1>7 DEF KillOwn, Goto
  <2>3. \A u \in Starts : pc'[u] = pc[u] \/ (pc[u] = "killOwn" /\ pc'[u] = "reap")
    BY <1>0, <2>2, Numbers
  <2>4. /\ proc' = [proc EXCEPT ![taken[s].pid] = "dead"] \/ proc' = proc
        /\ UNCHANGED <<serverStartMu, ctxDone, startDone>>
    BY <1>7 DEF KillOwn, ctxs
  <2> QED
    BY <1>0, <2>1, <2>3, <2>4, DeathKeepsSpawn
<1>8. ASSUME NEW s \in Starts, Reap(s)
      PROVE  SpawnInv'
  BY <1>8, <1>0, Numbers DEF Reap, Return, Goto, SpawnInv, Inside, AliveProcs, Cancelled,
     AnswersPing, world, ctxs, server, app
<1>9. ASSUME NEW s \in Starts, Adopt(s)
      PROVE  SpawnInv'
  BY <1>9, <1>0, Numbers DEF Adopt, Return, Goto, SpawnInv, Inside, AliveProcs, Cancelled,
     AnswersPing, world, ctxs, server, app
<1>10. ASSUME NEW s \in Starts, Open(s)
      PROVE  SpawnInv'
  BY <1>10, <1>0, Numbers DEF Open, Goto, SpawnInv, Inside, AliveProcs, Cancelled, AnswersPing,
     world, ctxs, server, app
<1>11. ASSUME NEW s \in Starts, Publish(s)
      PROVE  SpawnInv'
  BY <1>11, <1>0, Numbers DEF Publish, Goto, SpawnInv, Inside, AliveProcs, Cancelled, AnswersPing,
     world, ctxs, server, app
<1>12. ASSUME NEW s \in Starts, Report(s)
      PROVE  SpawnInv'
  BY <1>12, <1>0, Numbers DEF Report, Goto, SpawnInv, Inside, AliveProcs, Cancelled, AnswersPing,
     world, ctxs, server, app
<1>13. ASSUME NEW a \in Stoppers, CloseTaken(a)
      PROVE  SpawnInv'
  BY <1>13, <1>0, Numbers DEF CloseTaken, Goto, SpawnInv, Inside, AliveProcs, Cancelled,
     AnswersPing, world, ctxs, server, app
<1>14. ASSUME NEW a \in Stoppers, StopServer(a)
      PROVE  SpawnInv'
  <2>1. \E x \in {"kill", "stopped"} : pc[a] = "stop" /\ pc' = [pc EXCEPT ![a] = x]
    BY <1>14 DEF StopServer, Goto
  <2>2. \A s \in Starts : pc'[s] = pc[s] \/ {pc[s], pc'[s]} \cap (Inside \cup {"none", "lock"}) = {}
    BY <1>0, <2>1, Numbers DEF Inside
  <2>3. UNCHANGED <<serverStartMu, proc, ctxDone>> /\ startDone \subseteq startDone'
    BY <1>14 DEF StopServer, world
  <2> QED
    BY <1>0, <2>2, <2>3, ElsewhereKeepsSpawn
<1>15. ASSUME NEW a \in Stoppers, KillTaken(a)
      PROVE  SpawnInv'
  <2>1. /\ taken[a].pid \in Pids
        /\ taken[a].pid \in Starts => pc[taken[a].pid] \notin {"none", "lock", "ping", "spawn"}
    BY DEF NumbersInv, Takes, PidInv
  <2>2. pc[a] = "kill" /\ pc' = [pc EXCEPT ![a] = "stopped"]
    BY <1>15 DEF KillTaken, Goto
  <2>3. \A u \in Starts : pc'[u] = pc[u] \/ (pc[u] = "kill" /\ pc'[u] = "stopped")
    BY <1>0, <2>2, Numbers
  <2>4. /\ proc' = [proc EXCEPT ![taken[a].pid] = "dead"]
        /\ UNCHANGED <<serverStartMu, ctxDone, startDone>>
    BY <1>15 DEF KillTaken, ctxs
  <2> QED
    BY <1>0, <2>1, <2>3, <2>4, DeathKeepsSpawn
<1>16. ASSUME NEW s \in Starts, Boot(s)
      PROVE  SpawnInv'
  BY <1>16, <1>0, Numbers DEF Boot, Goto, SpawnInv, Inside, AliveProcs, Cancelled, AnswersPing,
     world, ctxs, server, app
<1>17. ASSUME NEW s \in Starts, Crash(s)
      PROVE  SpawnInv'
  BY <1>17, <1>0, Numbers DEF Crash, Goto, SpawnInv, Inside, AliveProcs, Cancelled, AnswersPing,
     world, ctxs, server, app
<1>18. CASE OnStartViiper
  <2>1. begun' \in Starts /\ pc[begun'] = "none" /\ pc' = [pc EXCEPT ![begun'] = "lock"]
    BY <1>18, Numbers DEF OnStartViiper, Goto, NumbersInv, Unused, Starts
  <2> QED
    BY <1>18, <1>0, <2>1, Numbers, ElsewhereKeepsSpawn DEF OnStartViiper, ctxs, world
<1>19. CASE MonitorSees
  BY <1>19, <1>0, Numbers DEF MonitorSees, Goto, SpawnInv, Inside, AliveProcs, Cancelled,
     AnswersPing, world, ctxs, server, app
<1>20. CASE OnViiperDisconnected
  <2>1. \A s \in Starts : pc'[s] = pc[s]
    <3>1. MaxStarts + lost' \in Teardowns
      BY <1>20, Numbers DEF OnViiperDisconnected, NumbersInv, Teardowns
    <3> QED
      BY <1>20, <1>0, <3>1, Numbers DEF OnViiperDisconnected, Goto
  <2> QED
    BY <1>0, <1>20, <2>1, ElsewhereKeepsSpawn DEF OnViiperDisconnected, ctxs, world
<1>21. CASE Shutdown
  BY <1>21, <1>0, Numbers DEF Shutdown, Goto, SpawnInv, Inside, AliveProcs, Cancelled,
     AnswersPing, world, ctxs, server, app
<1>22. CASE Exit
  BY <1>22, <1>0, Numbers DEF Exit, Goto, SpawnInv, Inside, AliveProcs, Cancelled, AnswersPing,
     world, ctxs, server, app
<1>23. CASE UNCHANGED vars
  BY <1>23, <1>0, Numbers DEF vars, Goto, SpawnInv, Inside, AliveProcs, Cancelled, AnswersPing,
     world, ctxs, server, app
<1> QED
  BY <1>1, <1>2, <1>3, <1>4, <1>5, <1>6, <1>7, <1>8, <1>9, <1>10, <1>11, <1>12, <1>13, <1>14,
     <1>15, <1>16, <1>17, <1>18, <1>19, <1>20, <1>21, <1>22, <1>23 DEF Next, AppStep,
     StartStep, StopStep

\* Who is about to die stays so until he is dead.
LEMMA DoomIsKept ==
  ASSUME OnlyOne, slow \subseteq slow', \A u \in AliveProcs' : u \in AliveProcs,
         \A u \in AliveProcs' : \A a \in Stoppers :
           taken[a].pid = u /\ pc[a] \in {"kill", "killOwn"} =>
             taken'[a].pid = u /\ pc'[a] \in {"kill", "killOwn"},
         ctxDone \subseteq ctxDone', startDone \subseteq startDone',
         \A u \in AliveProcs' : u \in startDone /\ serverStartMu = u => serverStartMu' = u
  PROVE  OnlyOne'
<1>1. ASSUME NEW u \in AliveProcs', KillPending(u)
      PROVE  KillPending(u)'
  BY <1>1 DEF KillPending
<1>2. ASSUME NEW u \in AliveProcs', Doomed(u)
      PROVE  Doomed(u)'
  BY <1>1, <1>2 DEF Doomed
<1> QED
  BY <1>2 DEF OnlyOne

\* At most one process is neither dead nor about to die.
LEMMA NextOnlyOne ==
  ASSUME NumbersInv, SpawnInv, OnlyOne, [Next]_vars
  PROVE  OnlyOne'
<1>0. /\ pc \in [Stoppers -> Steps] /\ proc \in [Starts -> {"none", "booting", "up", "dead"}]
      /\ taken \in [Stoppers -> [pid : Pids, session : Pids]] /\ slow \subseteq slow'
  BY SlowStays DEF NumbersInv, Records, Takes
<1>1. ASSUME NEW s \in Starts, Lock(s)
      PROVE  OnlyOne'
  <2>1. \A u \in AliveProcs' : u \in AliveProcs
    BY <1>1, <1>0, Numbers DEF Lock, AliveProcs, world
  <2>2. \A u \in AliveProcs' : \A b \in Stoppers :
           taken[b].pid = u /\ pc[b] \in {"kill", "killOwn"} =>
             taken'[b].pid = u /\ pc'[b] \in {"kill", "killOwn"}
    BY <1>1, <1>0, Numbers DEF Lock, Goto, AliveProcs, NoTake
  <2>3. ctxDone \subseteq ctxDone' /\ startDone \subseteq startDone'
    BY <1>1 DEF Lock, ctxs
  <2>4. \A u \in AliveProcs' : u \in startDone /\ serverStartMu = u => serverStartMu' = u
    BY <1>1, <1>0, Numbers DEF Lock, AliveProcs, SpawnInv, Cancelled, StartMuFree, world
  <2> QED
    BY <1>0, <2>1, <2>2, <2>3, <2>4, DoomIsKept
<1>2. ASSUME NEW s \in Starts, Ping(s)
      PROVE  OnlyOne'
  <2>1. \A u \in AliveProcs' : u \in AliveProcs
    BY <1>2, <1>0, Numbers DEF Ping, Return, AliveProcs, world
  <2>2. \A u \in AliveProcs' : \A b \in Stoppers :
           taken[b].pid = u /\ pc[b] \in {"kill", "killOwn"} =>
             taken'[b].pid = u /\ pc'[b] \in {"kill", "killOwn"}
    BY <1>2, <1>0, Numbers DEF Ping, Return, Goto, AliveProcs, NoTake
  <2>3. ctxDone \subseteq ctxDone' /\ startDone \subseteq startDone'
    BY <1>2 DEF Ping, Return, ctxs
  <2>4. \A u \in AliveProcs' : u \in startDone /\ serverStartMu = u => serverStartMu' = u
    <3>1. pc[s] = "ping" /\ serverStartMu = s /\ proc[s] = "none" /\ proc' = proc
      BY <1>2 DEF Ping, SpawnInv, Inside, world
    <3> QED
      BY <3>1 DEF AliveProcs
  <2> QED
    BY <1>0, <2>1, <2>2, <2>3, <2>4, DoomIsKept
<1>3. ASSUME NEW s \in Starts, Spawn(s)
      PROVE  OnlyOne'
  <2>1. /\ pc[s] = "spawn" /\ serverStartMu = s /\ proc[s] = "none"
        /\ UNCHANGED <<ctxDone, taken, slow>>
    BY <1>3 DEF Spawn, SpawnInv, Inside
  <2>2. CASE /\ proc' = [proc EXCEPT ![s] = "booting"] /\ Goto(s, "publishPid")
             /\ UNCHANGED <<serverStartMu, startDone>>
    <3>1. AliveProcs' = AliveProcs \cup {s}
      BY <1>0, <2>2 DEF AliveProcs
    <3>2. \A b \in Stoppers : pc[b] \in {"kill", "killOwn"} => pc'[b] = pc[b]
      BY <1>0, <2>1, <2>2 DEF Goto
    <3>3. \A u \in Starts : Doomed(u) => Doomed(u)'
      BY <2>1, <2>2, <3>2 DEF Doomed, KillPending
    <3>4. CASE Cancelled(s)
      <4>1. Doomed(s)'
        BY <2>1, <2>2, <3>4 DEF Cancelled, Doomed
      <4>2. \A u \in AliveProcs' : ~Doomed(u)' => u \in AliveProcs /\ ~Doomed(u)
        BY <3>1, <3>3, <4>1 DEF AliveProcs
      <4> QED
        BY <2>1, <4>2 DEF OnlyOne
    <3>5. CASE ~Cancelled(s)
      <4>1. AliveProcs' \subseteq {s} \cup slow'
        BY <2>1, <3>1, <3>5 DEF SpawnInv
      <4> QED
        BY <4>1 DEF OnlyOne
    <3> QED
      BY <3>4, <3>5
  <2>3. CASE Return(s, "failed") /\ UNCHANGED proc
    <3>1. AliveProcs' = AliveProcs /\ s \notin AliveProcs
      BY <2>1, <2>3 DEF AliveProcs
    <3>2. \A b \in Stoppers : pc[b] \in {"kill", "killOwn"} => pc'[b] = pc[b]
      BY <1>0, <2>1, <2>3 DEF Return, Goto
    <3>3. \A u \in AliveProcs : Doomed(u) => Doomed(u)'
      BY <2>1, <2>3, <3>1, <3>2 DEF Return, Doomed, KillPending
    <3> QED
      BY <2>1, <3>1, <3>3 DEF OnlyOne
  <2> QED
    BY <1>3, <2>2, <2>3 DEF Spawn
<1>4. ASSUME NEW s \in Starts, PublishPid(s)
      PROVE  OnlyOne'
  <2>1. \A u \in AliveProcs' : u \in AliveProcs
    BY <1>4, <1>0, Numbers DEF PublishPid, AliveProcs, world
  <2>2. \A u \in AliveProcs' : \A b \in Stoppers :
           taken[b].pid = u /\ pc[b] \in {"kill", "killOwn"} =>
             taken'[b].pid = u /\ pc'[b] \in {"kill", "killOwn"}
    BY <1>4, <1>0, Numbers DEF PublishPid, Goto, AliveProcs, NoTake
  <2>3. ctxDone \subseteq ctxDone' /\ startDone \subseteq startDone'
    BY <1>4 DEF PublishPid, ctxs
  <2>4. \A u \in AliveProcs' : u \in startDone /\ serverStartMu = u => serverStartMu' = u
    BY <1>4, <1>0, Numbers DEF PublishPid, AliveProcs, SpawnInv, Cancelled, StartMuFree, world
  <2> QED
    BY <1>0, <2>1, <2>2, <2>3, <2>4, DoomIsKept
<1>5. ASSUME NEW s \in Starts, WaitForServer(s)
      PROVE  OnlyOne'
  <2>1. \A u \in AliveProcs' : u \in AliveProcs
    BY <1>5, <1>0, Numbers DEF WaitForServer, AliveProcs, world
  <2>2. \A u \in AliveProcs' : \A b \in Stoppers :
           taken[b].pid = u /\ pc[b] \in {"kill", "killOwn"} =>
             taken'[b].pid = u /\ pc'[b] \in {"kill", "killOwn"}
    BY <1>5, <1>0, Numbers DEF WaitForServer, Goto, AliveProcs, NoTake
  <2>3. ctxDone \subseteq ctxDone' /\ startDone \subseteq startDone'
    BY <1>5 DEF WaitForServer, ctxs
  <2>4. \A u \in AliveProcs' : u \in startDone /\ serverStartMu = u => serverStartMu' = u
    BY <1>5, <1>0, Numbers DEF WaitForServer, AliveProcs, SpawnInv, Cancelled, StartMuFree, world
  <2> QED
    BY <1>0, <2>1, <2>2, <2>3, <2>4, DoomIsKept
<1>6. ASSUME NEW s \in Starts, GiveUp(s)
      PROVE  OnlyOne'
  <2>1. \A u \in AliveProcs' : u \in AliveProcs
    BY <1>6, <1>0, Numbers DEF GiveUp, AliveProcs, world
  <2>2. \A u \in AliveProcs' : \A b \in Stoppers :
           taken[b].pid = u /\ pc[b] \in {"kill", "killOwn"} =>
             taken'[b].pid = u /\ pc'[b] \in {"kill", "killOwn"}
    BY <1>6, <1>0, Numbers DEF GiveUp, Goto, AliveProcs, NoTake
  <2>3. ctxDone \subseteq ctxDone' /\ startDone \subseteq startDone'
    BY <1>6 DEF GiveUp, ctxs
  <2>4. \A u \in AliveProcs' : u \in startDone /\ serverStartMu = u => serverStartMu' = u
    BY <1>6, <1>0, Numbers DEF GiveUp, AliveProcs, SpawnInv, Cancelled, StartMuFree, world
  <2> QED
    BY <1>0, <2>1, <2>2, <2>3, <2>4, DoomIsKept
<1>7. ASSUME NEW s \in Starts, KillOwn(s)
      PROVE  OnlyOne'
  <2>1. \A u \in AliveProcs' : u \in AliveProcs
    BY <1>7, <1>0, Numbers DEF KillOwn, AliveProcs, world
  <2>2. \A u \in AliveProcs' : \A b \in Stoppers :
           taken[b].pid = u /\ pc[b] \in {"kill", "killOwn"} =>
             taken'[b].pid = u /\ pc'[b] \in {"kill", "killOwn"}
    BY <1>7, <1>0, Numbers DEF KillOwn, Goto, AliveProcs, NoTake
  <2>3. ctxDone \subseteq ctxDone' /\ startDone \subseteq startDone'
    BY <1>7 DEF KillOwn, ctxs
  <2>4. \A u \in AliveProcs' : u \in startDone /\ serverStartMu = u => serverStartMu' = u
    BY <1>7, <1>0, Numbers DEF KillOwn, AliveProcs, SpawnInv, Cancelled, StartMuFree, world
  <2> QED
    BY <1>0, <2>1, <2>2, <2>3, <2>4, DoomIsKept
<1>8. ASSUME NEW s \in Starts, Reap(s)
      PROVE  OnlyOne'
  <2>1. \A u \in AliveProcs' : u \in AliveProcs
    BY <1>8, <1>0, Numbers DEF Reap, Return, AliveProcs, world
  <2>2. \A u \in AliveProcs' : \A b \in Stoppers :
           taken[b].pid = u /\ pc[b] \in {"kill", "killOwn"} =>
             taken'[b].pid = u /\ pc'[b] \in {"kill", "killOwn"}
    BY <1>8, <1>0, Numbers DEF Reap, Return, Goto, AliveProcs, NoTake
  <2>3. ctxDone \subseteq ctxDone' /\ startDone \subseteq startDone'
    BY <1>8 DEF Reap, Return, ctxs
  <2>4. \A u \in AliveProcs' : u \in startDone /\ serverStartMu = u => serverStartMu' = u
    <3>1. pc[s] = "reap" /\ serverStartMu = s /\ proc[s] = "dead" /\ proc' = proc
      BY <1>8 DEF Reap, SpawnInv, Inside
    <3> QED
      BY <3>1 DEF AliveProcs
  <2> QED
    BY <1>0, <2>1, <2>2, <2>3, <2>4, DoomIsKept
<1>9. ASSUME NEW s \in Starts, Adopt(s)
      PROVE  OnlyOne'
  <2>1. AliveProcs' = AliveProcs /\ AliveProcs \subseteq {s} \cup slow
    BY <1>9 DEF Adopt, SpawnInv, AliveProcs, world
  <2> QED
    BY <1>0, <2>1 DEF OnlyOne
<1>10. ASSUME NEW s \in Starts, Open(s)
      PROVE  OnlyOne'
  <2>1. \A u \in AliveProcs' : u \in AliveProcs
    BY <1>10, <1>0, Numbers DEF Open, AliveProcs, world
  <2>2. \A u \in AliveProcs' : \A b \in Stoppers :
           taken[b].pid = u /\ pc[b] \in {"kill", "killOwn"} =>
             taken'[b].pid = u /\ pc'[b] \in {"kill", "killOwn"}
    BY <1>10, <1>0, Numbers DEF Open, Goto, AliveProcs, NoTake
  <2>3. ctxDone \subseteq ctxDone' /\ startDone \subseteq startDone'
    BY <1>10 DEF Open, ctxs
  <2>4. \A u \in AliveProcs' : u \in startDone /\ serverStartMu = u => serverStartMu' = u
    BY <1>10, <1>0, Numbers DEF Open, AliveProcs, SpawnInv, Cancelled, StartMuFree, world
  <2> QED
    BY <1>0, <2>1, <2>2, <2>3, <2>4, DoomIsKept
<1>11. ASSUME NEW s \in Starts, Publish(s)
      PROVE  OnlyOne'
  <2>1. \A u \in AliveProcs' : u \in AliveProcs
    BY <1>11, <1>0, Numbers DEF Publish, AliveProcs, world
  <2>2. \A u \in AliveProcs' : \A b \in Stoppers :
           taken[b].pid = u /\ pc[b] \in {"kill", "killOwn"} =>
             taken'[b].pid = u /\ pc'[b] \in {"kill", "killOwn"}
    BY <1>11, <1>0, Numbers DEF Publish, Goto, AliveProcs, NoTake
  <2>3. ctxDone \subseteq ctxDone' /\ startDone \subseteq startDone'
    BY <1>11 DEF Publish, ctxs
  <2>4. \A u \in AliveProcs' : u \in startDone /\ serverStartMu = u => serverStartMu' = u
    BY <1>11, <1>0, Numbers DEF Publish, AliveProcs, SpawnInv, Cancelled, StartMuFree, world
  <2> QED
    BY <1>0, <2>1, <2>2, <2>3, <2>4, DoomIsKept
<1>12. ASSUME NEW s \in Starts, Report(s)
      PROVE  OnlyOne'
  <2>1. \A u \in AliveProcs' : u \in AliveProcs
    BY <1>12, <1>0, Numbers DEF Report, AliveProcs, world
  <2>2. \A u \in AliveProcs' : \A b \in Stoppers :
           taken[b].pid = u /\ pc[b] \in {"kill", "killOwn"} =>
             taken'[b].pid = u /\ pc'[b] \in {"kill", "killOwn"}
    BY <1>12, <1>0, Numbers DEF Report, Goto, AliveProcs, NoTake
  <2>3. ctxDone \subseteq ctxDone' /\ startDone \subseteq startDone'
    BY <1>12 DEF Report, ctxs
  <2>4. \A u \in AliveProcs' : u \in startDone /\ serverStartMu = u => serverStartMu' = u
    BY <1>12, <1>0, Numbers DEF Report, AliveProcs, SpawnInv, Cancelled, StartMuFree, world
  <2> QED
    BY <1>0, <2>1, <2>2, <2>3, <2>4, DoomIsKept
<1>13. ASSUME NEW a \in Stoppers, CloseTaken(a)
      PROVE  OnlyOne'
  <2>1. \A u \in AliveProcs' : u \in AliveProcs
    BY <1>13, <1>0, Numbers DEF CloseTaken, AliveProcs, world
  <2>2. \A u \in AliveProcs' : \A b \in Stoppers :
           taken[b].pid = u /\ pc[b] \in {"kill", "killOwn"} =>
             taken'[b].pid = u /\ pc'[b] \in {"kill", "killOwn"}
    BY <1>13, <1>0, Numbers DEF CloseTaken, Goto, AliveProcs, NoTake
  <2>3. ctxDone \subseteq ctxDone' /\ startDone \subseteq startDone'
    BY <1>13 DEF CloseTaken, ctxs
  <2>4. \A u \in AliveProcs' : u \in startDone /\ serverStartMu = u => serverStartMu' = u
    BY <1>13, <1>0, Numbers DEF CloseTaken, AliveProcs, SpawnInv, Cancelled, StartMuFree, world
  <2> QED
    BY <1>0, <2>1, <2>2, <2>3, <2>4, DoomIsKept
<1>14. ASSUME NEW a \in Stoppers, StopServer(a)
      PROVE  OnlyOne'
  <2>1. \A u \in AliveProcs' : u \in AliveProcs
    BY <1>14, <1>0, Numbers DEF StopServer, AliveProcs, world
  <2>2. \A u \in AliveProcs' : \A b \in Stoppers :
           taken[b].pid = u /\ pc[b] \in {"kill", "killOwn"} =>
             taken'[b].pid = u /\ pc'[b] \in {"kill", "killOwn"}
    BY <1>14, <1>0, Numbers DEF StopServer, Goto, AliveProcs, NoTake
  <2>3. ctxDone \subseteq ctxDone' /\ startDone \subseteq startDone'
    BY <1>14 DEF StopServer, ctxs
  <2>4. \A u \in AliveProcs' : u \in startDone /\ serverStartMu = u => serverStartMu' = u
    BY <1>14, <1>0, Numbers DEF StopServer, AliveProcs, SpawnInv, Cancelled, StartMuFree, world
  <2> QED
    BY <1>0, <2>1, <2>2, <2>3, <2>4, DoomIsKept
<1>15. ASSUME NEW a \in Stoppers, KillTaken(a)
      PROVE  OnlyOne'
  <2>1. \A u \in AliveProcs' : u \in AliveProcs
    BY <1>15, <1>0, Numbers DEF KillTaken, AliveProcs, world
  <2>2. \A u \in AliveProcs' : \A b \in Stoppers :
           taken[b].pid = u /\ pc[b] \in {"kill", "killOwn"} =>
             taken'[b].pid = u /\ pc'[b] \in {"kill", "killOwn"}
    BY <1>15, <1>0, Numbers DEF KillTaken, Goto, AliveProcs, NoTake
  <2>3. ctxDone \subseteq ctxDone' /\ startDone \subseteq startDone'
    BY <1>15 DEF KillTaken, ctxs
  <2>4. \A u \in AliveProcs' : u \in startDone /\ serverStartMu = u => serverStartMu' = u
    BY <1>15, <1>0, Numbers DEF KillTaken, AliveProcs, SpawnInv, Cancelled, StartMuFree, world
  <2> QED
    BY <1>0, <2>1, <2>2, <2>3, <2>4, DoomIsKept
<1>16. ASSUME NEW s \in Starts, Boot(s)
      PROVE  OnlyOne'
  <2>1. \A u \in AliveProcs' : u \in AliveProcs
    BY <1>16, <1>0, Numbers DEF Boot, AliveProcs, world
  <2>2. \A u \in AliveProcs' : \A b \in Stoppers :
           taken[b].pid = u /\ pc[b] \in {"kill", "killOwn"} =>
             taken'[b].pid = u /\ pc'[b] \in {"kill", "killOwn"}
    BY <1>16, <1>0, Numbers DEF Boot, Goto, AliveProcs, NoTake
  <2>3. ctxDone \subseteq ctxDone' /\ startDone \subseteq startDone'
    BY <1>16 DEF Boot, ctxs
  <2>4. \A u \in AliveProcs' : u \in startDone /\ serverStartMu = u => serverStartMu' = u
    BY <1>16, <1>0, Numbers DEF Boot, AliveProcs, SpawnInv, Cancelled, StartMuFree, world
  <2> QED
    BY <1>0, <2>1, <2>2, <2>3, <2>4, DoomIsKept
<1>17. ASSUME NEW s \in Starts, Crash(s)
      PROVE  OnlyOne'
  <2>1. \A u \in AliveProcs' : u \in AliveProcs
    BY <1>17, <1>0, Numbers DEF Crash, AliveProcs, world
  <2>2. \A u \in AliveProcs' : \A b \in Stoppers :
           taken[b].pid = u /\ pc[b] \in {"kill", "killOwn"} =>
             taken'[b].pid = u /\ pc'[b] \in {"kill", "killOwn"}
    BY <1>17, <1>0, Numbers DEF Crash, Goto, AliveProcs, NoTake
  <2>3. ctxDone \subseteq ctxDone' /\ startDone \subseteq startDone'
    BY <1>17 DEF Crash, ctxs
  <2>4. \A u \in AliveProcs' : u \in startDone /\ serverStartMu = u => serverStartMu' = u
    BY <1>17, <1>0, Numbers DEF Crash, AliveProcs, SpawnInv, Cancelled, StartMuFree, world
  <2> QED
    BY <1>0, <2>1, <2>2, <2>3, <2>4, DoomIsKept
<1>18. CASE OnStartViiper
  <2>1. begun' \in Starts /\ pc[begun'] = "none" /\ pc' = [pc EXCEPT ![begun'] = "lock"]
    BY <1>18, Numbers DEF OnStartViiper, Goto, NumbersInv, Unused, Starts
  <2>2. \A b \in Stoppers : pc[b] \in {"kill", "killOwn"} => pc'[b] = pc[b]
    BY <1>0, <2>1
  <2>3. UNCHANGED <<taken, ctxDone, startDone, serverStartMu>> /\ AliveProcs' = AliveProcs
    BY <1>18 DEF OnStartViiper, ctxs, world, AliveProcs
  <2> QED
    BY <1>0, <2>2, <2>3, DoomIsKept
<1>19. CASE MonitorSees
  <2>1. \A u \in AliveProcs' : u \in AliveProcs
    BY <1>19, <1>0, Numbers DEF MonitorSees, AliveProcs, world
  <2>2. \A u \in AliveProcs' : \A b \in Stoppers :
           taken[b].pid = u /\ pc[b] \in {"kill", "killOwn"} =>
             taken'[b].pid = u /\ pc'[b] \in {"kill", "killOwn"}
    BY <1>19, <1>0, Numbers DEF MonitorSees, Goto, AliveProcs, NoTake
  <2>3. ctxDone \subseteq ctxDone' /\ startDone \subseteq startDone'
    BY <1>19 DEF MonitorSees, ctxs
  <2>4. \A u \in AliveProcs' : u \in startDone /\ serverStartMu = u => serverStartMu' = u
    BY <1>19, <1>0, Numbers DEF MonitorSees, AliveProcs, SpawnInv, Cancelled, StartMuFree, world
  <2> QED
    BY <1>0, <2>1, <2>2, <2>3, <2>4, DoomIsKept
<1>20. CASE OnViiperDisconnected
  <2>1. /\ MaxStarts + lost' \in Teardowns /\ pc[MaxStarts + lost'] = "none"
        /\ pc' = [pc EXCEPT ![MaxStarts + lost'] = "drain"]
        /\ taken' = [taken EXCEPT ![MaxStarts + lost'].session = inputSession]
    BY <1>20, Numbers DEF OnViiperDisconnected, Goto, NumbersInv, Unused, Teardowns
  <2>2. \A b \in Stoppers : pc[b] \in {"kill", "killOwn"} => pc'[b] = pc[b] /\ taken'[b] = taken[b]
    BY <1>0, <2>1
  <2>3. UNCHANGED <<ctxDone, startDone, serverStartMu>> /\ AliveProcs' = AliveProcs
    BY <1>20 DEF OnViiperDisconnected, ctxs, world, AliveProcs
  <2> QED
    BY <1>0, <2>2, <2>3, DoomIsKept
<1>21. CASE Shutdown
  <2>1. \A u \in AliveProcs' : u \in AliveProcs
    BY <1>21, <1>0, Numbers DEF Shutdown, AliveProcs, world
  <2>2. \A u \in AliveProcs' : \A b \in Stoppers :
           taken[b].pid = u /\ pc[b] \in {"kill", "killOwn"} =>
             taken'[b].pid = u /\ pc'[b] \in {"kill", "killOwn"}
    BY <1>21, <1>0, Numbers DEF Shutdown, Goto, AliveProcs, NoTake
  <2>3. ctxDone \subseteq ctxDone' /\ startDone \subseteq startDone'
    BY <1>21 DEF Shutdown, ctxs
  <2>4. \A u \in AliveProcs' : u \in startDone /\ serverStartMu = u => serverStartMu' = u
    BY <1>21, <1>0, Numbers DEF Shutdown, AliveProcs, SpawnInv, Cancelled, StartMuFree, world
  <2> QED
    BY <1>0, <2>1, <2>2, <2>3, <2>4, DoomIsKept
<1>22. CASE Exit
  <2>1. \A u \in AliveProcs' : u \in AliveProcs
    BY <1>22, <1>0, Numbers DEF Exit, AliveProcs, world
  <2>2. \A u \in AliveProcs' : \A b \in Stoppers :
           taken[b].pid = u /\ pc[b] \in {"kill", "killOwn"} =>
             taken'[b].pid = u /\ pc'[b] \in {"kill", "killOwn"}
    BY <1>22, <1>0, Numbers DEF Exit, Goto, AliveProcs, NoTake
  <2>3. ctxDone \subseteq ctxDone' /\ startDone \subseteq startDone'
    BY <1>22 DEF Exit, ctxs
  <2>4. \A u \in AliveProcs' : u \in startDone /\ serverStartMu = u => serverStartMu' = u
    BY <1>22, <1>0, Numbers DEF Exit, AliveProcs, SpawnInv, Cancelled, StartMuFree, world
  <2> QED
    BY <1>0, <2>1, <2>2, <2>3, <2>4, DoomIsKept
<1>23. CASE UNCHANGED vars
  <2>1. \A u \in AliveProcs' : u \in AliveProcs
    BY <1>23, <1>0, Numbers DEF vars, AliveProcs, world
  <2>2. \A u \in AliveProcs' : \A b \in Stoppers :
           taken[b].pid = u /\ pc[b] \in {"kill", "killOwn"} =>
             taken'[b].pid = u /\ pc'[b] \in {"kill", "killOwn"}
    BY <1>23, <1>0, Numbers DEF vars, Goto, AliveProcs, NoTake
  <2>3. ctxDone \subseteq ctxDone' /\ startDone \subseteq startDone'
    BY <1>23 DEF vars, ctxs
  <2>4. \A u \in AliveProcs' : u \in startDone /\ serverStartMu = u => serverStartMu' = u
    BY <1>23, <1>0, Numbers DEF vars, AliveProcs, SpawnInv, Cancelled, StartMuFree, world
  <2> QED
    BY <1>0, <2>1, <2>2, <2>3, <2>4, DoomIsKept
<1> QED
  BY <1>1, <1>2, <1>3, <1>4, <1>5, <1>6, <1>7, <1>8, <1>9, <1>10, <1>11, <1>12, <1>13, <1>14,
     <1>15, <1>16, <1>17, <1>18, <1>19, <1>20, <1>21, <1>22, <1>23 DEF Next, AppStep,
     StartStep, StopStep

-----------------------------------------------------------------------------
(* Nothing is left of a startup that fails *)

\* At first no startup is under way and no session is open.
LEMMA InitTurns == Init => TurnsInv /\ OutcomeInv /\ FailedInv /\ SessionsEnd
BY Numbers DEF Init, TurnsInv, OutcomeInv, FailedInv, FailedPart, SessionsEnd, SessionsAreClosed,
   Active

\* Only a startup that has failed or been cancelled stops the server.
LEMMA NextOutcome ==
  ASSUME NumbersInv, OutcomeInv, [Next]_vars
  PROVE  OutcomeInv'
<1>0. pc \in [Stoppers -> Steps] /\ outcome \in [Starts -> {"none", "ok", "failed", "cancelled"}]
  BY DEF NumbersInv, Records
<1>1. ASSUME NEW s \in Starts, Lock(s)
      PROVE  OutcomeInv'
  BY <1>1, <1>0, Numbers DEF Lock, Goto, OutcomeInv
<1>2. ASSUME NEW s \in Starts, Ping(s)
      PROVE  OutcomeInv'
  BY <1>2, <1>0, Numbers DEF Ping, Return, Goto, OutcomeInv
<1>3. ASSUME NEW s \in Starts, Spawn(s)
      PROVE  OutcomeInv'
  BY <1>3, <1>0, Numbers DEF Spawn, Return, Goto, OutcomeInv
<1>4. ASSUME NEW s \in Starts, PublishPid(s)
      PROVE  OutcomeInv'
  BY <1>4, <1>0, Numbers DEF PublishPid, Goto, OutcomeInv
<1>5. ASSUME NEW s \in Starts, WaitForServer(s)
      PROVE  OutcomeInv'
  BY <1>5, <1>0, Numbers DEF WaitForServer, Goto, OutcomeInv
<1>6. ASSUME NEW s \in Starts, GiveUp(s)
      PROVE  OutcomeInv'
  BY <1>6, <1>0, Numbers DEF GiveUp, Goto, OutcomeInv
<1>7. ASSUME NEW s \in Starts, KillOwn(s)
      PROVE  OutcomeInv'
  BY <1>7, <1>0, Numbers DEF KillOwn, Goto, OutcomeInv
<1>8. ASSUME NEW s \in Starts, Reap(s)
      PROVE  OutcomeInv'
  BY <1>8, <1>0, Numbers DEF Reap, Return, Goto, OutcomeInv
<1>9. ASSUME NEW s \in Starts, Adopt(s)
      PROVE  OutcomeInv'
  BY <1>9, <1>0, Numbers DEF Adopt, Return, Goto, OutcomeInv
<1>10. ASSUME NEW s \in Starts, Open(s)
      PROVE  OutcomeInv'
  BY <1>10, <1>0, Numbers DEF Open, Goto, OutcomeInv
<1>11. ASSUME NEW s \in Starts, Publish(s)
      PROVE  OutcomeInv'
  BY <1>11, <1>0, Numbers DEF Publish, Goto, OutcomeInv
<1>12. ASSUME NEW s \in Starts, Report(s)
      PROVE  OutcomeInv'
  BY <1>12, <1>0, Numbers DEF Report, Goto, OutcomeInv
<1>13. ASSUME NEW a \in Stoppers, CloseTaken(a)
      PROVE  OutcomeInv'
  BY <1>13, <1>0, Numbers DEF CloseTaken, Goto, OutcomeInv
<1>14. ASSUME NEW a \in Stoppers, StopServer(a)
      PROVE  OutcomeInv'
  <2>1. /\ \E x \in {"kill", "stopped"} : pc[a] = "stop" /\ pc' = [pc EXCEPT ![a] = x]
        /\ outcome' = outcome
    BY <1>14 DEF StopServer, Goto
  <2> QED
    BY <1>0, <2>1, Numbers DEF OutcomeInv
<1>15. ASSUME NEW a \in Stoppers, KillTaken(a)
      PROVE  OutcomeInv'
  BY <1>15, <1>0, Numbers DEF KillTaken, Goto, OutcomeInv
<1>16. ASSUME NEW s \in Starts, Boot(s)
      PROVE  OutcomeInv'
  BY <1>16, <1>0, Numbers DEF Boot, Goto, OutcomeInv
<1>17. ASSUME NEW s \in Starts, Crash(s)
      PROVE  OutcomeInv'
  BY <1>17, <1>0, Numbers DEF Crash, Goto, OutcomeInv
<1>18. CASE OnStartViiper
  <2>1. begun' \in Starts /\ pc[begun'] = "none" /\ pc' = [pc EXCEPT ![begun'] = "lock"] /\ outcome' = outcome
    BY <1>18, Numbers DEF OnStartViiper, Goto, NumbersInv, Unused, Starts
  <2> QED
    BY <1>0, <2>1, Numbers DEF OutcomeInv
<1>19. CASE MonitorSees
  BY <1>19, <1>0, Numbers DEF MonitorSees, Goto, OutcomeInv
<1>20. CASE OnViiperDisconnected
  <2>1. MaxStarts + lost' \in Teardowns /\ pc' = [pc EXCEPT ![MaxStarts + lost'] = "drain"] /\ outcome' = outcome
    BY <1>20, Numbers DEF OnViiperDisconnected, Goto, NumbersInv, Teardowns
  <2> QED
    BY <1>0, <2>1, Numbers DEF OutcomeInv
<1>21. CASE Shutdown
  BY <1>21, <1>0, Numbers DEF Shutdown, Goto, OutcomeInv
<1>22. CASE Exit
  BY <1>22, <1>0, Numbers DEF Exit, Goto, OutcomeInv
<1>23. CASE UNCHANGED vars
  BY <1>23, <1>0, Numbers DEF vars, Goto, OutcomeInv
<1> QED
  BY <1>1, <1>2, <1>3, <1>4, <1>5, <1>6, <1>7, <1>8, <1>9, <1>10, <1>11, <1>12, <1>13, <1>14,
     <1>15, <1>16, <1>17, <1>18, <1>19, <1>20, <1>21, <1>22, <1>23 DEF Next, AppStep,
     StartStep, StopStep

\* A step that ends turns, if it does anything to them.
LEMMA NoNewTurn ==
  ASSUME TurnsInv, UNCHANGED <<viiperBtn, viiperStartupCancel, ctxDone, lost, begun>>,
         pc'[Shut] = "none" <=> pc[Shut] = "none",
         \A s \in Starts : Active(s)' => Active(s)
  PROVE  TurnsInv'
BY DEF TurnsInv, Quiet

\* Until a disconnect, startups follow one another.
LEMMA NextTurns ==
  ASSUME NumbersInv, TurnsInv, [Next]_vars
  PROVE  TurnsInv'
<1>0. /\ pc \in [Stoppers -> Steps] /\ begun \in 0 .. MaxStarts
      /\ lost \in 0 .. MaxDisconnects /\ Unused
  BY DEF NumbersInv
<1>1. ASSUME NEW s \in Starts, Lock(s)
      PROVE  TurnsInv'
  <2>1. pc[s] \notin {"none", "done"} /\ \E x \in Steps \ {"none"} : pc' = [pc EXCEPT ![s] = x]
    BY <1>1 DEF Lock, Goto, Steps
  <2>2. /\ pc'[Shut] = "none" <=> pc[Shut] = "none"
        /\ \A u \in Starts : Active(u)' => Active(u)
    BY <1>0, <2>1, Numbers DEF Active
  <2>3. UNCHANGED <<viiperBtn, viiperStartupCancel, ctxDone, lost, begun>>
    BY <1>1 DEF Lock, app, ctxs
  <2> QED
    BY <2>2, <2>3, NoNewTurn
<1>2. ASSUME NEW s \in Starts, Ping(s)
      PROVE  TurnsInv'
  <2>1. pc[s] \notin {"none", "done"} /\ \E x \in Steps \ {"none"} : pc' = [pc EXCEPT ![s] = x]
    BY <1>2 DEF Ping, Return, Goto, Steps
  <2>2. /\ pc'[Shut] = "none" <=> pc[Shut] = "none"
        /\ \A u \in Starts : Active(u)' => Active(u)
    BY <1>0, <2>1, Numbers DEF Active
  <2>3. UNCHANGED <<viiperBtn, viiperStartupCancel, ctxDone, lost, begun>>
    BY <1>2 DEF Ping, Return, app, ctxs
  <2> QED
    BY <2>2, <2>3, NoNewTurn
<1>3. ASSUME NEW s \in Starts, Spawn(s)
      PROVE  TurnsInv'
  <2>1. pc[s] \notin {"none", "done"} /\ \E x \in Steps \ {"none"} : pc' = [pc EXCEPT ![s] = x]
    BY <1>3 DEF Spawn, Return, Goto, Steps
  <2>2. /\ pc'[Shut] = "none" <=> pc[Shut] = "none"
        /\ \A u \in Starts : Active(u)' => Active(u)
    BY <1>0, <2>1, Numbers DEF Active
  <2>3. UNCHANGED <<viiperBtn, viiperStartupCancel, ctxDone, lost, begun>>
    BY <1>3 DEF Spawn, Return, app, ctxs
  <2> QED
    BY <2>2, <2>3, NoNewTurn
<1>4. ASSUME NEW s \in Starts, PublishPid(s)
      PROVE  TurnsInv'
  <2>1. pc[s] \notin {"none", "done"} /\ \E x \in Steps \ {"none"} : pc' = [pc EXCEPT ![s] = x]
    BY <1>4 DEF PublishPid, Goto, Steps
  <2>2. /\ pc'[Shut] = "none" <=> pc[Shut] = "none"
        /\ \A u \in Starts : Active(u)' => Active(u)
    BY <1>0, <2>1, Numbers DEF Active
  <2>3. UNCHANGED <<viiperBtn, viiperStartupCancel, ctxDone, lost, begun>>
    BY <1>4 DEF PublishPid, app, ctxs
  <2> QED
    BY <2>2, <2>3, NoNewTurn
<1>5. ASSUME NEW s \in Starts, WaitForServer(s)
      PROVE  TurnsInv'
  <2>1. pc[s] \notin {"none", "done"} /\ \E x \in Steps \ {"none"} : pc' = [pc EXCEPT ![s] = x]
    BY <1>5 DEF WaitForServer, Goto, Steps
  <2>2. /\ pc'[Shut] = "none" <=> pc[Shut] = "none"
        /\ \A u \in Starts : Active(u)' => Active(u)
    BY <1>0, <2>1, Numbers DEF Active
  <2>3. UNCHANGED <<viiperBtn, viiperStartupCancel, ctxDone, lost, begun>>
    BY <1>5 DEF WaitForServer, app, ctxs
  <2> QED
    BY <2>2, <2>3, NoNewTurn
<1>6. ASSUME NEW s \in Starts, GiveUp(s)
      PROVE  TurnsInv'
  <2>1. pc[s] \notin {"none", "done"} /\ \E x \in Steps \ {"none"} : pc' = [pc EXCEPT ![s] = x]
    BY <1>6 DEF GiveUp, Goto, Steps
  <2>2. /\ pc'[Shut] = "none" <=> pc[Shut] = "none"
        /\ \A u \in Starts : Active(u)' => Active(u)
    BY <1>0, <2>1, Numbers DEF Active
  <2>3. UNCHANGED <<viiperBtn, viiperStartupCancel, ctxDone, lost, begun>>
    BY <1>6 DEF GiveUp, app, ctxs
  <2> QED
    BY <2>2, <2>3, NoNewTurn
<1>7. ASSUME NEW s \in Starts, KillOwn(s)
      PROVE  TurnsInv'
  <2>1. pc[s] \notin {"none", "done"} /\ \E x \in Steps \ {"none"} : pc' = [pc EXCEPT ![s] = x]
    BY <1>7 DEF KillOwn, Goto, Steps
  <2>2. /\ pc'[Shut] = "none" <=> pc[Shut] = "none"
        /\ \A u \in Starts : Active(u)' => Active(u)
    BY <1>0, <2>1, Numbers DEF Active
  <2>3. UNCHANGED <<viiperBtn, viiperStartupCancel, ctxDone, lost, begun>>
    BY <1>7 DEF KillOwn, app, ctxs
  <2> QED
    BY <2>2, <2>3, NoNewTurn
<1>8. ASSUME NEW s \in Starts, Reap(s)
      PROVE  TurnsInv'
  <2>1. pc[s] \notin {"none", "done"} /\ \E x \in Steps \ {"none"} : pc' = [pc EXCEPT ![s] = x]
    BY <1>8 DEF Reap, Return, Goto, Steps
  <2>2. /\ pc'[Shut] = "none" <=> pc[Shut] = "none"
        /\ \A u \in Starts : Active(u)' => Active(u)
    BY <1>0, <2>1, Numbers DEF Active
  <2>3. UNCHANGED <<viiperBtn, viiperStartupCancel, ctxDone, lost, begun>>
    BY <1>8 DEF Reap, Return, app, ctxs
  <2> QED
    BY <2>2, <2>3, NoNewTurn
<1>9. ASSUME NEW s \in Starts, Adopt(s)
      PROVE  TurnsInv'
  <2>1. pc[s] \notin {"none", "done"} /\ \E x \in Steps \ {"none"} : pc' = [pc EXCEPT ![s] = x]
    BY <1>9 DEF Adopt, Return, Goto, Steps
  <2>2. /\ pc'[Shut] = "none" <=> pc[Shut] = "none"
        /\ \A u \in Starts : Active(u)' => Active(u)
    BY <1>0, <2>1, Numbers DEF Active
  <2>3. UNCHANGED <<viiperBtn, viiperStartupCancel, ctxDone, lost, begun>>
    BY <1>9 DEF Adopt, Return, app, ctxs
  <2> QED
    BY <2>2, <2>3, NoNewTurn
<1>10. ASSUME NEW s \in Starts, Open(s)
      PROVE  TurnsInv'
  <2>1. pc[s] \notin {"none", "done"} /\ \E x \in Steps \ {"none"} : pc' = [pc EXCEPT ![s] = x]
    BY <1>10 DEF Open, Goto, Steps
  <2>2. /\ pc'[Shut] = "none" <=> pc[Shut] = "none"
        /\ \A u \in Starts : Active(u)' => Active(u)
    BY <1>0, <2>1, Numbers DEF Active
  <2>3. UNCHANGED <<viiperBtn, viiperStartupCancel, ctxDone, lost, begun>>
    BY <1>10 DEF Open, app, ctxs
  <2> QED
    BY <2>2, <2>3, NoNewTurn
<1>11. ASSUME NEW s \in Starts, Publish(s)
      PROVE  TurnsInv'
  <2>1. pc[s] \notin {"none", "done"} /\ \E x \in Steps \ {"none"} : pc' = [pc EXCEPT ![s] = x]
    BY <1>11 DEF Publish, Goto, Steps
  <2>2. /\ pc'[Shut] = "none" <=> pc[Shut] = "none"
        /\ \A u \in Starts : Active(u)' => Active(u)
    BY <1>0, <2>1, Numbers DEF Active
  <2>3. UNCHANGED <<viiperBtn, viiperStartupCancel, ctxDone, lost, begun>>
    BY <1>11 DEF Publish, app, ctxs
  <2> QED
    BY <2>2, <2>3, NoNewTurn
<1>12. ASSUME NEW s \in Starts, Report(s)
      PROVE  TurnsInv'
  <2>1. Active(s) /\ pc' = [pc EXCEPT ![s] = "done"] /\ UNCHANGED <<ctxDone, lost, begun>>
    BY <1>12 DEF Report, Goto, Active, ctxs
  <2>2. pc'[Shut] = pc[Shut] /\ \A u \in Starts : Active(u)' => Active(u) /\ u # s
    BY <1>0, <2>1, Numbers DEF Active
  <2>3. pc[Shut] # "none" => ~viiperBtn'
    BY <1>12 DEF Report, TurnsInv
  <2>4. lost = 0 => \A u \in Starts : ~Active(u)'
    BY <2>1, <2>2 DEF TurnsInv
  <2> QED
    BY <2>1, <2>2, <2>3, <2>4 DEF TurnsInv, Quiet
<1>13. ASSUME NEW a \in Stoppers, CloseTaken(a)
      PROVE  TurnsInv'
  <2>1. pc[a] \notin {"none", "done"} /\ \E x \in Steps \ {"none"} : pc' = [pc EXCEPT ![a] = x]
    BY <1>13 DEF CloseTaken, Goto, Steps
  <2>2. /\ pc'[Shut] = "none" <=> pc[Shut] = "none"
        /\ \A u \in Starts : Active(u)' => Active(u)
    BY <1>0, <2>1, Numbers DEF Active
  <2>3. UNCHANGED <<viiperBtn, viiperStartupCancel, ctxDone, lost, begun>>
    BY <1>13 DEF CloseTaken, app, ctxs
  <2> QED
    BY <2>2, <2>3, NoNewTurn
<1>14. ASSUME NEW a \in Stoppers, StopServer(a)
      PROVE  TurnsInv'
  <2>1. pc[a] \notin {"none", "done"} /\ \E x \in Steps \ {"none"} : pc' = [pc EXCEPT ![a] = x]
    BY <1>14 DEF StopServer, Goto, Steps
  <2>2. /\ pc'[Shut] = "none" <=> pc[Shut] = "none"
        /\ \A u \in Starts : Active(u)' => Active(u)
    BY <1>0, <2>1, Numbers DEF Active
  <2>3. UNCHANGED <<viiperBtn, viiperStartupCancel, ctxDone, lost, begun>>
    BY <1>14 DEF StopServer, app, ctxs
  <2> QED
    BY <2>2, <2>3, NoNewTurn
<1>15. ASSUME NEW a \in Stoppers, KillTaken(a)
      PROVE  TurnsInv'
  <2>1. pc[a] \notin {"none", "done"} /\ \E x \in Steps \ {"none"} : pc' = [pc EXCEPT ![a] = x]
    BY <1>15 DEF KillTaken, Goto, Steps
  <2>2. /\ pc'[Shut] = "none" <=> pc[Shut] = "none"
        /\ \A u \in Starts : Active(u)' => Active(u)
    BY <1>0, <2>1, Numbers DEF Active
  <2>3. UNCHANGED <<viiperBtn, viiperStartupCancel, ctxDone, lost, begun>>
    BY <1>15 DEF KillTaken, app, ctxs
  <2> QED
    BY <2>2, <2>3, NoNewTurn
<1>16. ASSUME NEW s \in Starts, Boot(s)
      PROVE  TurnsInv'
  <2>1. UNCHANGED <<pc, viiperBtn, viiperStartupCancel, ctxDone, lost, begun>>
    BY <1>16 DEF Boot, app, ctxs
  <2> QED
    BY <2>1, NoNewTurn DEF Active
<1>17. ASSUME NEW s \in Starts, Crash(s)
      PROVE  TurnsInv'
  <2>1. UNCHANGED <<pc, viiperBtn, viiperStartupCancel, ctxDone, lost, begun>>
    BY <1>17 DEF Crash, app, ctxs
  <2> QED
    BY <2>1, NoNewTurn DEF Active
<1>18. CASE OnStartViiper
  <2>1. /\ viiperBtn /\ ~viiperBtn' /\ begun' \in Starts
        /\ viiperStartupCancel' = begun' /\ pc' = [pc EXCEPT ![begun'] = "lock"]
        /\ UNCHANGED <<ctxDone, lost>>
    BY <1>18, <1>0, Numbers DEF OnStartViiper, Goto, Starts, ctxs
  <2>2. pc'[Shut] = "none" /\ pc[Shut] = "none" /\ \A u \in Starts : Active(u)' => u = begun' \/ Active(u)
    BY <1>0, <2>1, Numbers DEF TurnsInv, Active
  <2> QED
    BY <2>1, <2>2 DEF TurnsInv, Quiet
<1>19. CASE MonitorSees
  <2>1. UNCHANGED <<pc, viiperBtn, viiperStartupCancel, ctxDone, lost, begun>>
    BY <1>19 DEF MonitorSees, app, ctxs
  <2> QED
    BY <2>1, NoNewTurn DEF Active
<1>20. CASE OnViiperDisconnected
  <2>1. /\ lost' # 0 /\ pc[Shut] = "none" /\ MaxStarts + lost' \in Teardowns
        /\ pc' = [pc EXCEPT ![MaxStarts + lost'] = "drain"]
    BY <1>20, <1>0, Numbers DEF OnViiperDisconnected, Goto, Teardowns
  <2>2. pc'[Shut] = "none"
    BY <1>0, <2>1, Numbers
  <2> QED
    BY <2>1, <2>2 DEF TurnsInv, Quiet
<1>21. CASE Shutdown
  <2>1. /\ pc[Shut] = "none" /\ ~viiperBtn' /\ pc' = [pc EXCEPT ![Shut] = "drain"]
        /\ ctxDone' = ctxDone \cup ({viiperStartupCancel} \ {Nil}) /\ UNCHANGED <<lost, begun>>
    BY <1>21 DEF Shutdown, Goto
  <2>2. pc'[Shut] = "drain" /\ \A u \in Starts : Active(u)' <=> Active(u)
    BY <1>0, <2>1, Numbers DEF Active
  <2>3. lost = 0 => \A u \in Starts : Active(u) => u = begun /\ u \in ctxDone'
    BY <2>1, Numbers DEF TurnsInv, Quiet
  <2> QED
    BY <2>1, <2>2, <2>3 DEF TurnsInv, Quiet
<1>22. CASE Exit
  <2>1. UNCHANGED <<pc, viiperBtn, viiperStartupCancel, ctxDone, lost, begun>>
    BY <1>22 DEF Exit, app, ctxs
  <2> QED
    BY <2>1, NoNewTurn DEF Active
<1>23. CASE UNCHANGED vars
  <2>1. UNCHANGED <<pc, viiperBtn, viiperStartupCancel, ctxDone, lost, begun>>
    BY <1>23 DEF vars, app, ctxs
  <2> QED
    BY <2>1, NoNewTurn DEF Active
<1> QED
  BY <1>1, <1>2, <1>3, <1>4, <1>5, <1>6, <1>7, <1>8, <1>9, <1>10, <1>11, <1>12, <1>13, <1>14,
     <1>15, <1>16, <1>17, <1>18, <1>19, <1>20, <1>21, <1>22, <1>23 DEF Next, AppStep,
     StartStep, StopStep

\* What a step of startup s leaves alone.
OthersKept(s) ==
  \A u \in Starts \ {s} : /\ pc'[u] = pc[u] /\ outcome'[u] = outcome[u]
                          /\ u \in AliveProcs' => u \in AliveProcs

\* A step of a startup, which is the only one under way.
LEMMA OwnStep ==
  ASSUME TurnsInv, FailedInv, Quiet, NEW s \in Starts, pc[s] \notin {"none", "done"}, FailedPart(s)',
         OthersKept(s)
  PROVE  FailedInv'
<1>1. \A u \in Starts \ {s} : pc[u] \in {"none", "done"}
  BY DEF TurnsInv, Active
<1>2. ASSUME NEW u \in Starts, u # s
      PROVE  FailedPart(u)'
  <2>1. FailedPart(u) /\ pc'[u] \in {"none", "done"}
    BY <1>1, <1>2 DEF FailedInv, OthersKept
  <2>2. pc'[u] = pc[u] /\ outcome'[u] = outcome[u] /\ (u \in AliveProcs' => u \in AliveProcs)
    BY <1>2 DEF OthersKept
  <2> QED
    BY <2>1, <2>2 DEF FailedPart
<1> QED
  BY <1>2 DEF FailedInv

\* A step of anybody else.
LEMMA OtherStep ==
  ASSUME FailedInv, Quiet' => Quiet,
         Quiet' => /\ UNCHANGED <<serverPID, serverStarted, outcome, taken>>
                   /\ \A u \in Starts : (pc'[u] = pc[u] \/ pc'[u] = "lock")
                                         /\ (u \in AliveProcs' => u \in AliveProcs)
  PROVE  FailedInv'
<1> SUFFICES ASSUME Quiet', NEW u \in Starts
             PROVE  FailedPart(u)'
  BY DEF FailedInv
<1>1. FailedPart(u)
  BY DEF FailedInv
<1> QED
  BY <1>1 DEF FailedPart

\* What has been disturbed stays so.
LEMMA QuietEnds ==
  ASSUME NumbersInv, TurnsInv, [Next]_vars
  PROVE  Quiet' => Quiet
<1>0. pc \in [Stoppers -> Steps] /\ lost \in 0 .. MaxDisconnects
  BY DEF NumbersInv
<1>1. ASSUME NEW s \in Starts, Lock(s)
      PROVE  Quiet' => Quiet
  <2>1. pc[s] # "none" /\ (\E x \in Steps \ {"none"} : pc' = [pc EXCEPT ![s] = x]) /\ lost' = lost
    BY <1>1 DEF Lock, Goto, Steps
  <2> QED
    BY <1>0, <2>1, Numbers DEF Quiet
<1>2. ASSUME NEW s \in Starts, Ping(s)
      PROVE  Quiet' => Quiet
  <2>1. pc[s] # "none" /\ (\E x \in Steps \ {"none"} : pc' = [pc EXCEPT ![s] = x]) /\ lost' = lost
    BY <1>2 DEF Ping, Return, Goto, Steps
  <2> QED
    BY <1>0, <2>1, Numbers DEF Quiet
<1>3. ASSUME NEW s \in Starts, Spawn(s)
      PROVE  Quiet' => Quiet
  <2>1. pc[s] # "none" /\ (\E x \in Steps \ {"none"} : pc' = [pc EXCEPT ![s] = x]) /\ lost' = lost
    BY <1>3 DEF Spawn, Return, Goto, Steps
  <2> QED
    BY <1>0, <2>1, Numbers DEF Quiet
<1>4. ASSUME NEW s \in Starts, PublishPid(s)
      PROVE  Quiet' => Quiet
  <2>1. pc[s] # "none" /\ (\E x \in Steps \ {"none"} : pc' = [pc EXCEPT ![s] = x]) /\ lost' = lost
    BY <1>4 DEF PublishPid, Goto, Steps
  <2> QED
    BY <1>0, <2>1, Numbers DEF Quiet
<1>5. ASSUME NEW s \in Starts, WaitForServer(s)
      PROVE  Quiet' => Quiet
  <2>1. pc[s] # "none" /\ (\E x \in Steps \ {"none"} : pc' = [pc EXCEPT ![s] = x]) /\ lost' = lost
    BY <1>5 DEF WaitForServer, Goto, Steps
  <2> QED
    BY <1>0, <2>1, Numbers DEF Quiet
<1>6. ASSUME NEW s \in Starts, GiveUp(s)
      PROVE  Quiet' => Quiet
  <2>1. pc[s] # "none" /\ (\E x \in Steps \ {"none"} : pc' = [pc EXCEPT ![s] = x]) /\ lost' = lost
    BY <1>6 DEF GiveUp, Goto, Steps
  <2> QED
    BY <1>0, <2>1, Numbers DEF Quiet
<1>7. ASSUME NEW s \in Starts, KillOwn(s)
      PROVE  Quiet' => Quiet
  <2>1. pc[s] # "none" /\ (\E x \in Steps \ {"none"} : pc' = [pc EXCEPT ![s] = x]) /\ lost' = lost
    BY <1>7 DEF KillOwn, Goto, Steps
  <2> QED
    BY <1>0, <2>1, Numbers DEF Quiet
<1>8. ASSUME NEW s \in Starts, Reap(s)
      PROVE  Quiet' => Quiet
  <2>1. pc[s] # "none" /\ (\E x \in Steps \ {"none"} : pc' = [pc EXCEPT ![s] = x]) /\ lost' = lost
    BY <1>8 DEF Reap, Return, Goto, Steps
  <2> QED
    BY <1>0, <2>1, Numbers DEF Quiet
<1>9. ASSUME NEW s \in Starts, Adopt(s)
      PROVE  Quiet' => Quiet
  <2>1. pc[s] # "none" /\ (\E x \in Steps \ {"none"} : pc' = [pc EXCEPT ![s] = x]) /\ lost' = lost
    BY <1>9 DEF Adopt, Return, Goto, Steps
  <2> QED
    BY <1>0, <2>1, Numbers DEF Quiet
<1>10. ASSUME NEW s \in Starts, Open(s)
      PROVE  Quiet' => Quiet
  <2>1. pc[s] # "none" /\ (\E x \in Steps \ {"none"} : pc' = [pc EXCEPT ![s] = x]) /\ lost' = lost
    BY <1>10 DEF Open, Goto, Steps
  <2> QED
    BY <1>0, <2>1, Numbers DEF Quiet
<1>11. ASSUME NEW s \in Starts, Publish(s)
      PROVE  Quiet' => Quiet
  <2>1. pc[s] # "none" /\ (\E x \in Steps \ {"none"} : pc' = [pc EXCEPT ![s] = x]) /\ lost' = lost
    BY <1>11 DEF Publish, Goto, Steps
  <2> QED
    BY <1>0, <2>1, Numbers DEF Quiet
<1>12. ASSUME NEW s \in Starts, Report(s)
      PROVE  Quiet' => Quiet
  <2>1. pc[s] # "none" /\ (\E x \in Steps \ {"none"} : pc' = [pc EXCEPT ![s] = x]) /\ lost' = lost
    BY <1>12 DEF Report, Goto, Steps
  <2> QED
    BY <1>0, <2>1, Numbers DEF Quiet
<1>13. ASSUME NEW a \in Stoppers, CloseTaken(a)
      PROVE  Quiet' => Quiet
  <2>1. pc[a] # "none" /\ (\E x \in Steps \ {"none"} : pc' = [pc EXCEPT ![a] = x]) /\ lost' = lost
    BY <1>13 DEF CloseTaken, Goto, Steps
  <2> QED
    BY <1>0, <2>1, Numbers DEF Quiet
<1>14. ASSUME NEW a \in Stoppers, StopServer(a)
      PROVE  Quiet' => Quiet
  <2>1. pc[a] # "none" /\ (\E x \in Steps \ {"none"} : pc' = [pc EXCEPT ![a] = x]) /\ lost' = lost
    BY <1>14 DEF StopServer, Goto, Steps
  <2> QED
    BY <1>0, <2>1, Numbers DEF Quiet
<1>15. ASSUME NEW a \in Stoppers, KillTaken(a)
      PROVE  Quiet' => Quiet
  <2>1. pc[a] # "none" /\ (\E x \in Steps \ {"none"} : pc' = [pc EXCEPT ![a] = x]) /\ lost' = lost
    BY <1>15 DEF KillTaken, Goto, Steps
  <2> QED
    BY <1>0, <2>1, Numbers DEF Quiet
<1>16. ASSUME NEW s \in Starts, Boot(s)
      PROVE  Quiet' => Quiet
  BY <1>16 DEF Boot, Quiet
<1>17. ASSUME NEW s \in Starts, Crash(s)
      PROVE  Quiet' => Quiet
  BY <1>17 DEF Crash, Quiet
<1>18. CASE OnStartViiper
  <2>1. (lost' = lost \/ lost' = lost + 1) /\ (lost' = lost + 1 => lost' # 0)
    BY <1>18, <1>0, Numbers DEF OnStartViiper
  <2>2. pc'[Shut] = "none" => pc[Shut] = "none"
    BY <1>18 DEF OnStartViiper, TurnsInv
  <2> QED
    BY <2>1, <2>2, <1>0 DEF Quiet
<1>19. CASE MonitorSees
  BY <1>19 DEF MonitorSees, Quiet
<1>20. CASE OnViiperDisconnected
  <2>1. lost' # 0
    BY <1>20, <1>0, Numbers DEF OnViiperDisconnected
  <2> QED
    BY <2>1 DEF Quiet
<1>21. CASE Shutdown
  <2>1. (lost' = lost \/ lost' = lost + 1) /\ (lost' = lost + 1 => lost' # 0)
    BY <1>21, <1>0, Numbers DEF Shutdown
  <2>2. pc'[Shut] = "none" => pc[Shut] = "none"
    BY <1>21, <1>0, Numbers DEF Shutdown, Goto, TurnsInv
  <2> QED
    BY <2>1, <2>2, <1>0 DEF Quiet
<1>22. CASE Exit
  BY <1>22 DEF Exit, Quiet
<1>23. CASE UNCHANGED vars
  BY <1>23 DEF vars, Quiet
<1> QED
  BY <1>1, <1>2, <1>3, <1>4, <1>5, <1>6, <1>7, <1>8, <1>9, <1>10, <1>11, <1>12, <1>13, <1>14,
     <1>15, <1>16, <1>17, <1>18, <1>19, <1>20, <1>21, <1>22, <1>23 DEF Next, AppStep,
     StartStep, StopStep

\* Until somebody interferes, a startup that fails kills its own server.
LEMMA NextFailed ==
  ASSUME NumbersInv, SpawnInv, TurnsInv, OutcomeInv, FailedInv, [Next]_vars
  PROVE  FailedInv'
<1>0. /\ pc \in [Stoppers -> Steps] /\ outcome \in [Starts -> {"none", "ok", "failed", "cancelled"}]
      /\ proc \in [Starts -> {"none", "booting", "up", "dead"}]
      /\ taken \in [Stoppers -> [pid : Pids, session : Pids]] /\ lost \in 0 .. MaxDisconnects
      /\ \A x \in Teardowns : lost = 0 => pc[x] = "none"
  <2>1. \A x \in Teardowns : x > MaxStarts + 0
    BY Numbers DEF Teardowns
  <2> QED
    BY <2>1 DEF NumbersInv, Records, Takes, Unused
<1>q. Quiet' => Quiet
  BY QuietEnds
<1>1. ASSUME NEW s \in Starts, Lock(s)
      PROVE  FailedInv'
  <2> SUFFICES ASSUME Quiet'
               PROVE  FailedInv'
    BY DEF FailedInv
  <2>0. Quiet
    BY <1>q
  <2>1. pc[s] = "lock" /\ pc' = [pc EXCEPT ![s] = "ping"] /\ UNCHANGED <<proc, outcome>>
    BY <1>1, <1>0, Numbers DEF Lock, Goto, world
  <2>2. FailedPart(s)
    BY <2>0 DEF FailedInv
  <2>3. FailedPart(s)'
    BY <2>1, <2>2, <1>0, Numbers DEF FailedPart
  <2>4. OthersKept(s)
    BY <2>1, <1>0, Numbers DEF AliveProcs, OthersKept
  <2>5. pc[s] \notin {"none", "done"}
    BY <2>1
  <2> QED
    BY <2>0, <2>3, <2>4, <2>5, OwnStep
<1>2. ASSUME NEW s \in Starts, Ping(s)
      PROVE  FailedInv'
  <2> SUFFICES ASSUME Quiet'
               PROVE  FailedInv'
    BY DEF FailedInv
  <2>0. Quiet
    BY <1>q
  <2>1. /\ pc[s] = "ping" /\ proc[s] = "none" /\ UNCHANGED proc
        /\ \E x \in {"opening", "spawn"} : pc' = [pc EXCEPT ![s] = x]
        /\ outcome' = outcome \/ outcome' = [outcome EXCEPT ![s] = "ok"]
    BY <1>2, <1>0, Numbers DEF Ping, Return, Goto, world, SpawnInv
  <2>2. FailedPart(s)
    BY <2>0 DEF FailedInv
  <2>3. FailedPart(s)'
    BY <2>1, <2>2, <1>0, Numbers DEF FailedPart, AliveProcs
  <2>4. OthersKept(s)
    BY <2>1, <1>0, Numbers DEF AliveProcs, OthersKept
  <2>5. pc[s] \notin {"none", "done"}
    BY <2>1
  <2> QED
    BY <2>0, <2>3, <2>4, <2>5, OwnStep
<1>3. ASSUME NEW s \in Starts, Spawn(s)
      PROVE  FailedInv'
  <2> SUFFICES ASSUME Quiet'
               PROVE  FailedInv'
    BY DEF FailedInv
  <2>0. Quiet
    BY <1>q
  <2>1. /\ pc[s] = "spawn" /\ proc[s] = "none"
        /\ \/ pc' = [pc EXCEPT ![s] = "publishPid"] /\ proc' = [proc EXCEPT ![s] = "booting"] /\ outcome' = outcome
           \/ pc' = [pc EXCEPT ![s] = "report"] /\ proc' = proc /\ outcome' = [outcome EXCEPT ![s] = "failed"]
    BY <1>3, <1>0, Numbers DEF Spawn, Return, Goto, SpawnInv
  <2>2. FailedPart(s)
    BY <2>0 DEF FailedInv
  <2>3. FailedPart(s)'
    BY <2>1, <2>2, <1>0, Numbers DEF FailedPart, AliveProcs
  <2>4. OthersKept(s)
    BY <2>1, <1>0, Numbers DEF AliveProcs, OthersKept
  <2>5. pc[s] \notin {"none", "done"}
    BY <2>1
  <2> QED
    BY <2>0, <2>3, <2>4, <2>5, OwnStep
<1>4. ASSUME NEW s \in Starts, PublishPid(s)
      PROVE  FailedInv'
  <2> SUFFICES ASSUME Quiet'
               PROVE  FailedInv'
    BY DEF FailedInv
  <2>0. Quiet
    BY <1>q
  <2>1. pc[s] = "publishPid" /\ pc' = [pc EXCEPT ![s] = "wait"] /\ serverPID' = s /\ UNCHANGED <<proc, outcome>>
    BY <1>4, <1>0, Numbers DEF PublishPid, Goto, world
  <2>2. FailedPart(s)
    BY <2>0 DEF FailedInv
  <2>3. FailedPart(s)'
    BY <2>1, <2>2, <1>0, Numbers DEF FailedPart
  <2>4. OthersKept(s)
    BY <2>1, <1>0, Numbers DEF AliveProcs, OthersKept
  <2>5. pc[s] \notin {"none", "done"}
    BY <2>1
  <2> QED
    BY <2>0, <2>3, <2>4, <2>5, OwnStep
<1>5. ASSUME NEW s \in Starts, WaitForServer(s)
      PROVE  FailedInv'
  <2> SUFFICES ASSUME Quiet'
               PROVE  FailedInv'
    BY DEF FailedInv
  <2>0. Quiet
    BY <1>q
  <2>1. /\ pc[s] = "wait" /\ UNCHANGED <<proc, outcome, serverPID, serverStarted>>
        /\ \E x \in {"adopt", "giveUp"} : pc' = [pc EXCEPT ![s] = x]
    BY <1>5, <1>0, Numbers DEF WaitForServer, Goto, world, server
  <2>2. FailedPart(s)
    BY <2>0 DEF FailedInv
  <2>3. FailedPart(s)'
    BY <2>1, <2>2, <1>0, Numbers DEF FailedPart
  <2>4. OthersKept(s)
    BY <2>1, <1>0, Numbers DEF AliveProcs, OthersKept
  <2>5. pc[s] \notin {"none", "done"}
    BY <2>1
  <2> QED
    BY <2>0, <2>3, <2>4, <2>5, OwnStep
<1>6. ASSUME NEW s \in Starts, GiveUp(s)
      PROVE  FailedInv'
  <2> SUFFICES ASSUME Quiet'
               PROVE  FailedInv'
    BY DEF FailedInv
  <2>0. Quiet
    BY <1>q
  <2>1. pc[s] = "giveUp" /\ pc' = [pc EXCEPT ![s] = "killOwn"] /\ UNCHANGED <<proc, outcome>>
    BY <1>6, <1>0, Numbers DEF GiveUp, Goto, world
  <2>2. FailedPart(s)
    BY <2>0 DEF FailedInv
  <2>3. FailedPart(s)'
    BY <2>1, <2>2, <1>0, Numbers DEF FailedPart
  <2>4. OthersKept(s)
    BY <2>1, <1>0, Numbers DEF AliveProcs, OthersKept
  <2>5. pc[s] \notin {"none", "done"}
    BY <2>1
  <2> QED
    BY <2>0, <2>3, <2>4, <2>5, OwnStep
<1>7. ASSUME NEW s \in Starts, KillOwn(s)
      PROVE  FailedInv'
  <2> SUFFICES ASSUME Quiet'
               PROVE  FailedInv'
    BY DEF FailedInv
  <2>0. Quiet
    BY <1>q
  <2>1. /\ pc[s] = "killOwn" /\ pc' = [pc EXCEPT ![s] = "reap"] /\ UNCHANGED outcome
        /\ \E x \in Pids : proc' = [proc EXCEPT ![x] = "dead"] \/ proc' = proc
    BY <1>7, <1>0, Numbers DEF KillOwn, Goto
  <2>2. FailedPart(s)
    BY <2>0 DEF FailedInv
  <2>3. FailedPart(s)'
    BY <2>1, <2>2, <1>0, Numbers DEF FailedPart
  <2>4. OthersKept(s)
    BY <2>1, <1>0, Numbers DEF AliveProcs, OthersKept
  <2>5. pc[s] \notin {"none", "done"}
    BY <2>1
  <2> QED
    BY <2>0, <2>3, <2>4, <2>5, OwnStep
<1>8. ASSUME NEW s \in Starts, Reap(s)
      PROVE  FailedInv'
  <2> SUFFICES ASSUME Quiet'
               PROVE  FailedInv'
    BY DEF FailedInv
  <2>0. Quiet
    BY <1>q
  <2>1. /\ pc[s] = "reap" /\ proc[s] = "dead" /\ pc' = [pc EXCEPT ![s] = "report"]
        /\ outcome' = [outcome EXCEPT ![s] = "failed"] /\ UNCHANGED proc
    BY <1>8, <1>0, Numbers DEF Reap, Return, Goto
  <2>2. FailedPart(s)
    BY <2>0 DEF FailedInv
  <2>3. FailedPart(s)'
    BY <2>1, <2>2, <1>0, Numbers DEF FailedPart, AliveProcs
  <2>4. OthersKept(s)
    BY <2>1, <1>0, Numbers DEF AliveProcs, OthersKept
  <2>5. pc[s] \notin {"none", "done"}
    BY <2>1
  <2> QED
    BY <2>0, <2>3, <2>4, <2>5, OwnStep
<1>9. ASSUME NEW s \in Starts, Adopt(s)
      PROVE  FailedInv'
  <2> SUFFICES ASSUME Quiet'
               PROVE  FailedInv'
    BY DEF FailedInv
  <2>0. Quiet
    BY <1>q
  <2>1. /\ pc[s] = "adopt" /\ pc' = [pc EXCEPT ![s] = "opening"] /\ serverStarted'
        /\ outcome' = [outcome EXCEPT ![s] = "ok"] /\ UNCHANGED <<proc, serverPID>>
    BY <1>9, <1>0, Numbers DEF Adopt, Return, Goto, world
  <2>2. FailedPart(s)
    BY <2>0 DEF FailedInv
  <2>3. FailedPart(s)'
    BY <2>1, <2>2, <1>0, Numbers DEF FailedPart
  <2>4. OthersKept(s)
    BY <2>1, <1>0, Numbers DEF AliveProcs, OthersKept
  <2>5. pc[s] \notin {"none", "done"}
    BY <2>1
  <2> QED
    BY <2>0, <2>3, <2>4, <2>5, OwnStep
<1>10. ASSUME NEW s \in Starts, Open(s)
      PROVE  FailedInv'
  <2> SUFFICES ASSUME Quiet'
               PROVE  FailedInv'
    BY DEF FailedInv
  <2>0. Quiet
    BY <1>q
  <2>1. /\ pc[s] = "opening" /\ (\E x \in {"stop", "publish"} : pc' = [pc EXCEPT ![s] = x])
        /\ \E x \in {outcome[s], "failed", "cancelled"} : outcome' = [outcome EXCEPT ![s] = x]
        /\ UNCHANGED <<proc, serverPID, serverStarted>>
    BY <1>10, <1>0, Numbers DEF Open, Goto, world, server
  <2>2. FailedPart(s)
    BY <2>0 DEF FailedInv
  <2>3. FailedPart(s)'
    BY <2>1, <2>2, <1>0, Numbers DEF FailedPart, AliveProcs
  <2>4. OthersKept(s)
    BY <2>1, <1>0, Numbers DEF AliveProcs, OthersKept
  <2>5. pc[s] \notin {"none", "done"}
    BY <2>1
  <2> QED
    BY <2>0, <2>3, <2>4, <2>5, OwnStep
<1>11. ASSUME NEW s \in Starts, Publish(s)
      PROVE  FailedInv'
  <2> SUFFICES ASSUME Quiet'
               PROVE  FailedInv'
    BY DEF FailedInv
  <2>0. Quiet
    BY <1>q
  <2>1. /\ pc[s] = "publish" /\ UNCHANGED <<proc, serverPID, serverStarted>>
        /\ \/ pc' = [pc EXCEPT ![s] = "stop"] /\ outcome' = [outcome EXCEPT ![s] = "cancelled"]
           \/ pc' = [pc EXCEPT ![s] = "report"] /\ outcome' = outcome /\ outcome[s] = "ok"
    BY <1>11, <1>0, Numbers DEF Publish, Goto, OutcomeInv, server
  <2>2. FailedPart(s)
    BY <2>0 DEF FailedInv
  <2>3. FailedPart(s)'
    BY <2>1, <2>2, <1>0, Numbers DEF FailedPart, AliveProcs
  <2>4. OthersKept(s)
    BY <2>1, <1>0, Numbers DEF AliveProcs, OthersKept
  <2>5. pc[s] \notin {"none", "done"}
    BY <2>1
  <2> QED
    BY <2>0, <2>3, <2>4, <2>5, OwnStep
<1>12. ASSUME NEW s \in Starts, Report(s)
      PROVE  FailedInv'
  <2> SUFFICES ASSUME Quiet'
               PROVE  FailedInv'
    BY DEF FailedInv
  <2>0. Quiet
    BY <1>q
  <2>1. /\ pc[s] \in {"report", "stopped"} /\ pc' = [pc EXCEPT ![s] = "done"]
        /\ UNCHANGED <<proc, outcome>>
    BY <1>12, <1>0, Numbers DEF Report, Goto, world
  <2>2. FailedPart(s)
    BY <2>0 DEF FailedInv
  <2>3. FailedPart(s)'
    BY <2>1, <2>2, <1>0, Numbers DEF FailedPart, AliveProcs
  <2>4. OthersKept(s)
    BY <2>1, <1>0, Numbers DEF AliveProcs, OthersKept
  <2>5. pc[s] \notin {"none", "done"}
    BY <2>1
  <2> QED
    BY <2>0, <2>3, <2>4, <2>5, OwnStep
<1>13. ASSUME NEW a \in Stoppers, CloseTaken(a)
      PROVE  FailedInv'
  <2> SUFFICES ASSUME Quiet'
               PROVE  FailedInv'
    BY DEF FailedInv
  <2>0. Quiet
    BY <1>q
  <2>1. a \in Starts /\ pc[a] = "drain"
    BY <1>13, <1>0, <2>0, Numbers DEF CloseTaken, Quiet, Stoppers
  <2> QED
    BY <2>1 DEF OutcomeInv
<1>14. ASSUME NEW a \in Stoppers, StopServer(a)
      PROVE  FailedInv'
  <2> SUFFICES ASSUME Quiet'
               PROVE  FailedInv'
    BY DEF FailedInv
  <2>0. Quiet
    BY <1>q
  <2>a. a \in Starts
    BY <1>14, <1>0, <2>0, Numbers DEF StopServer, Quiet, Stoppers
  <2>1. /\ pc[a] = "stop" /\ UNCHANGED <<proc, outcome>>
        /\ \/ serverStarted /\ serverPID # Nil /\ pc' = [pc EXCEPT ![a] = "kill"] /\ taken'[a].pid = serverPID
           \/ ~(serverStarted /\ serverPID # Nil) /\ pc' = [pc EXCEPT ![a] = "stopped"]
    BY <1>14, <1>0, <2>a, Numbers DEF StopServer, Goto, MustKill, NoTake, world
  <2>2. FailedPart(a)
    BY <2>0, <2>a DEF FailedInv
  <2>3. FailedPart(a)'
    BY <2>1, <2>2, <2>a, <1>0, Numbers DEF FailedPart, AliveProcs
  <2>4. OthersKept(a)
    BY <2>1, <2>a, <1>0, Numbers DEF AliveProcs, OthersKept
  <2>5. pc[a] \notin {"none", "done"}
    BY <2>1
  <2> QED
    BY <2>0, <2>3, <2>4, <2>5, <2>a, OwnStep
<1>15. ASSUME NEW a \in Stoppers, KillTaken(a)
      PROVE  FailedInv'
  <2> SUFFICES ASSUME Quiet'
               PROVE  FailedInv'
    BY DEF FailedInv
  <2>0. Quiet
    BY <1>q
  <2>a. a \in Starts
    BY <1>15, <1>0, <2>0, Numbers DEF KillTaken, Quiet, Stoppers
  <2>1. /\ pc[a] = "kill" /\ pc' = [pc EXCEPT ![a] = "stopped"] /\ UNCHANGED outcome
        /\ proc' = [proc EXCEPT ![taken[a].pid] = "dead"]
    BY <1>15, <1>0, <2>a, Numbers DEF KillTaken, Goto
  <2>2. FailedPart(a)
    BY <2>0, <2>a DEF FailedInv
  <2>3. FailedPart(a)'
    BY <2>1, <2>2, <2>a, <1>0, Numbers DEF FailedPart, AliveProcs
  <2>4. OthersKept(a)
    BY <2>1, <2>a, <1>0, Numbers DEF AliveProcs, OthersKept
  <2>5. pc[a] \notin {"none", "done"}
    BY <2>1
  <2> QED
    BY <2>0, <2>3, <2>4, <2>5, <2>a, OwnStep
<1>16. ASSUME NEW s \in Starts, Boot(s)
      PROVE  FailedInv'
  <2>1. UNCHANGED <<serverPID, serverStarted, outcome, taken, pc>>
    BY <1>16 DEF Boot, server
  <2>2. \A u \in Starts : u \in AliveProcs' => u \in AliveProcs
    BY <1>16, <1>0 DEF Boot, world, AliveProcs
  <2> QED
    BY <1>q, <2>1, <2>2, OtherStep
<1>17. ASSUME NEW s \in Starts, Crash(s)
      PROVE  FailedInv'
  <2>1. UNCHANGED <<serverPID, serverStarted, outcome, taken, pc>>
    BY <1>17 DEF Crash, server
  <2>2. \A u \in Starts : u \in AliveProcs' => u \in AliveProcs
    BY <1>17, <1>0 DEF Crash, world, AliveProcs
  <2> QED
    BY <1>q, <2>1, <2>2, OtherStep
<1>18. CASE OnStartViiper
  <2>1. /\ begun' \in Starts /\ pc' = [pc EXCEPT ![begun'] = "lock"]
        /\ UNCHANGED <<serverPID, serverStarted, outcome, taken, proc>>
    BY <1>18, Numbers DEF OnStartViiper, Goto, NumbersInv, Starts, server, world
  <2>2. \A u \in Starts : (pc'[u] = pc[u] \/ pc'[u] = "lock") /\ (u \in AliveProcs' => u \in AliveProcs)
    BY <1>0, <2>1, Numbers DEF AliveProcs
  <2> QED
    BY <1>q, <2>1, <2>2, OtherStep
<1>19. CASE MonitorSees
  <2>1. UNCHANGED <<serverPID, serverStarted, outcome, taken, pc>>
    BY <1>19 DEF MonitorSees, server
  <2>2. \A u \in Starts : u \in AliveProcs' => u \in AliveProcs
    BY <1>19, <1>0 DEF MonitorSees, world, AliveProcs
  <2> QED
    BY <1>q, <2>1, <2>2, OtherStep
<1>20. CASE OnViiperDisconnected
  <2>1. lost' # 0
    BY <1>20, <1>0, Numbers DEF OnViiperDisconnected
  <2> QED
    BY <2>1 DEF FailedInv, Quiet
<1>21. CASE Shutdown
  <2>1. pc' = [pc EXCEPT ![Shut] = "drain"]
    BY <1>21 DEF Shutdown, Goto
  <2>2. pc'[Shut] = "drain"
    BY <1>0, <2>1, Numbers
  <2> QED
    BY <2>2 DEF FailedInv, Quiet
<1>22. CASE Exit
  <2>1. UNCHANGED <<serverPID, serverStarted, outcome, taken, pc>>
    BY <1>22 DEF Exit, server
  <2>2. \A u \in Starts : u \in AliveProcs' => u \in AliveProcs
    BY <1>22, <1>0 DEF Exit, world, AliveProcs
  <2> QED
    BY <1>q, <2>1, <2>2, OtherStep
<1>23. CASE UNCHANGED vars
  <2>1. UNCHANGED <<serverPID, serverStarted, outcome, taken, pc>>
    BY <1>23 DEF vars, server
  <2>2. \A u \in Starts : u \in AliveProcs' => u \in AliveProcs
    BY <1>23, <1>0 DEF vars, world, AliveProcs
  <2> QED
    BY <1>q, <2>1, <2>2, OtherStep
<1> QED
  BY <1>1, <1>2, <1>3, <1>4, <1>5, <1>6, <1>7, <1>8, <1>9, <1>10, <1>11, <1>12, <1>13, <1>14,
     <1>15, <1>16, <1>17, <1>18, <1>19, <1>20, <1>21, <1>22, <1>23 DEF Next, AppStep,
     StartStep, StopStep

-----------------------------------------------------------------------------
(* No session is lost open *)

\* A step that opens, publishes and takes no session.
LEMMA SessionsKept ==
  ASSUME SessionsEnd, inputSession' = inputSession, closedSessions \subseteq closedSessions',
         lost' = 0 => lost = 0, pc'[Shut] # "none" => pc[Shut] # "none",
         \A s \in Starts : outcome'[s] = "ok" /\ pc'[s] \in {"report", "done"} =>
           outcome[s] = "ok" /\ pc[s] \in {"report", "done"},
         \A a \in Stoppers : pc[a] = "drain" =>
           \/ pc'[a] = "drain" /\ taken'[a].session = taken[a].session
           \/ \A s \in Starts : taken[a].session = s => s \in closedSessions'
  PROVE  SessionsEnd'
<1>1. ASSUME NEW s \in Starts, HeldSession(s), pc[s] # "publish"
      PROVE  HeldSession(s)' \/ s \in closedSessions'
  BY <1>1 DEF HeldSession
<1>2. SessionsAreClosed'
  BY <1>1 DEF SessionsEnd, SessionsAreClosed
<1> QED
  BY <1>2 DEF SessionsEnd

\* Whoever takes a session closes it or publishes it.
LEMMA NextSessions ==
  ASSUME NumbersInv, TurnsInv, OutcomeInv, SessionsEnd, [Next]_vars
  PROVE  SessionsEnd'
<1>0. /\ pc \in [Stoppers -> Steps] /\ outcome \in [Starts -> {"none", "ok", "failed", "cancelled"}]
      /\ taken \in [Stoppers -> [pid : Pids, session : Pids]] /\ lost \in 0 .. MaxDisconnects
  BY DEF NumbersInv, Records, Takes
<1>1. ASSUME NEW s \in Starts, Lock(s)
      PROVE  SessionsEnd'
  <2>1. /\ inputSession' = inputSession /\ closedSessions \subseteq closedSessions' /\ lost' = lost
        /\ pc[s] # "none" /\ \E x \in Steps : pc' = [pc EXCEPT ![s] = x]
    BY <1>1 DEF Lock, Goto, Steps, app, world, CloseSession
  <2>2. \A u \in Starts : outcome'[u] = "ok" /\ pc'[u] \in {"report", "done"} =>
           outcome[u] = "ok" /\ pc[u] \in {"report", "done"}
    BY <1>1, <1>0, Numbers DEF Lock, Goto
  <2>3. \A b \in Stoppers : pc[b] = "drain" =>
           \/ pc'[b] = "drain" /\ taken'[b].session = taken[b].session
           \/ \A u \in Starts : taken[b].session = u => u \in closedSessions'
    BY <1>1, <1>0, Numbers DEF Lock, Goto, NoTake, CloseSession
  <2>4. pc'[Shut] # "none" => pc[Shut] # "none"
    BY <2>1, <1>0, Numbers
  <2> QED
    BY <2>1, <2>2, <2>3, <2>4, SessionsKept
<1>2. ASSUME NEW s \in Starts, Ping(s)
      PROVE  SessionsEnd'
  <2>1. /\ inputSession' = inputSession /\ closedSessions \subseteq closedSessions' /\ lost' = lost
        /\ pc[s] # "none" /\ \E x \in Steps : pc' = [pc EXCEPT ![s] = x]
    BY <1>2 DEF Ping, Return, Goto, Steps, app, world, CloseSession
  <2>2. \A u \in Starts : outcome'[u] = "ok" /\ pc'[u] \in {"report", "done"} =>
           outcome[u] = "ok" /\ pc[u] \in {"report", "done"}
    BY <1>2, <1>0, Numbers DEF Ping, Return, Goto
  <2>3. \A b \in Stoppers : pc[b] = "drain" =>
           \/ pc'[b] = "drain" /\ taken'[b].session = taken[b].session
           \/ \A u \in Starts : taken[b].session = u => u \in closedSessions'
    BY <1>2, <1>0, Numbers DEF Ping, Return, Goto, NoTake, CloseSession
  <2>4. pc'[Shut] # "none" => pc[Shut] # "none"
    BY <2>1, <1>0, Numbers
  <2> QED
    BY <2>1, <2>2, <2>3, <2>4, SessionsKept
<1>3. ASSUME NEW s \in Starts, Spawn(s)
      PROVE  SessionsEnd'
  <2>1. /\ inputSession' = inputSession /\ closedSessions \subseteq closedSessions' /\ lost' = lost
        /\ pc[s] # "none" /\ \E x \in Steps : pc' = [pc EXCEPT ![s] = x]
    BY <1>3 DEF Spawn, Return, Goto, Steps, app, world, CloseSession
  <2>2. \A u \in Starts : outcome'[u] = "ok" /\ pc'[u] \in {"report", "done"} =>
           outcome[u] = "ok" /\ pc[u] \in {"report", "done"}
    BY <1>3, <1>0, Numbers DEF Spawn, Return, Goto
  <2>3. \A b \in Stoppers : pc[b] = "drain" =>
           \/ pc'[b] = "drain" /\ taken'[b].session = taken[b].session
           \/ \A u \in Starts : taken[b].session = u => u \in closedSessions'
    BY <1>3, <1>0, Numbers DEF Spawn, Return, Goto, NoTake, CloseSession
  <2>4. pc'[Shut] # "none" => pc[Shut] # "none"
    BY <2>1, <1>0, Numbers
  <2> QED
    BY <2>1, <2>2, <2>3, <2>4, SessionsKept
<1>4. ASSUME NEW s \in Starts, PublishPid(s)
      PROVE  SessionsEnd'
  <2>1. /\ inputSession' = inputSession /\ closedSessions \subseteq closedSessions' /\ lost' = lost
        /\ pc[s] # "none" /\ \E x \in Steps : pc' = [pc EXCEPT ![s] = x]
    BY <1>4 DEF PublishPid, Goto, Steps, app, world, CloseSession
  <2>2. \A u \in Starts : outcome'[u] = "ok" /\ pc'[u] \in {"report", "done"} =>
           outcome[u] = "ok" /\ pc[u] \in {"report", "done"}
    BY <1>4, <1>0, Numbers DEF PublishPid, Goto
  <2>3. \A b \in Stoppers : pc[b] = "drain" =>
           \/ pc'[b] = "drain" /\ taken'[b].session = taken[b].session
           \/ \A u \in Starts : taken[b].session = u => u \in closedSessions'
    BY <1>4, <1>0, Numbers DEF PublishPid, Goto, NoTake, CloseSession
  <2>4. pc'[Shut] # "none" => pc[Shut] # "none"
    BY <2>1, <1>0, Numbers
  <2> QED
    BY <2>1, <2>2, <2>3, <2>4, SessionsKept
<1>5. ASSUME NEW s \in Starts, WaitForServer(s)
      PROVE  SessionsEnd'
  <2>1. /\ inputSession' = inputSession /\ closedSessions \subseteq closedSessions' /\ lost' = lost
        /\ pc[s] # "none" /\ \E x \in Steps : pc' = [pc EXCEPT ![s] = x]
    BY <1>5 DEF WaitForServer, Goto, Steps, app, world, CloseSession
  <2>2. \A u \in Starts : outcome'[u] = "ok" /\ pc'[u] \in {"report", "done"} =>
           outcome[u] = "ok" /\ pc[u] \in {"report", "done"}
    BY <1>5, <1>0, Numbers DEF WaitForServer, Goto
  <2>3. \A b \in Stoppers : pc[b] = "drain" =>
           \/ pc'[b] = "drain" /\ taken'[b].session = taken[b].session
           \/ \A u \in Starts : taken[b].session = u => u \in closedSessions'
    BY <1>5, <1>0, Numbers DEF WaitForServer, Goto, NoTake, CloseSession
  <2>4. pc'[Shut] # "none" => pc[Shut] # "none"
    BY <2>1, <1>0, Numbers
  <2> QED
    BY <2>1, <2>2, <2>3, <2>4, SessionsKept
<1>6. ASSUME NEW s \in Starts, GiveUp(s)
      PROVE  SessionsEnd'
  <2>1. /\ inputSession' = inputSession /\ closedSessions \subseteq closedSessions' /\ lost' = lost
        /\ pc[s] # "none" /\ \E x \in Steps : pc' = [pc EXCEPT ![s] = x]
    BY <1>6 DEF GiveUp, Goto, Steps, app, world, CloseSession
  <2>2. \A u \in Starts : outcome'[u] = "ok" /\ pc'[u] \in {"report", "done"} =>
           outcome[u] = "ok" /\ pc[u] \in {"report", "done"}
    BY <1>6, <1>0, Numbers DEF GiveUp, Goto
  <2>3. \A b \in Stoppers : pc[b] = "drain" =>
           \/ pc'[b] = "drain" /\ taken'[b].session = taken[b].session
           \/ \A u \in Starts : taken[b].session = u => u \in closedSessions'
    BY <1>6, <1>0, Numbers DEF GiveUp, Goto, NoTake, CloseSession
  <2>4. pc'[Shut] # "none" => pc[Shut] # "none"
    BY <2>1, <1>0, Numbers
  <2> QED
    BY <2>1, <2>2, <2>3, <2>4, SessionsKept
<1>7. ASSUME NEW s \in Starts, KillOwn(s)
      PROVE  SessionsEnd'
  <2>1. /\ inputSession' = inputSession /\ closedSessions \subseteq closedSessions' /\ lost' = lost
        /\ pc[s] # "none" /\ \E x \in Steps : pc' = [pc EXCEPT ![s] = x]
    BY <1>7 DEF KillOwn, Goto, Steps, app, world, CloseSession
  <2>2. \A u \in Starts : outcome'[u] = "ok" /\ pc'[u] \in {"report", "done"} =>
           outcome[u] = "ok" /\ pc[u] \in {"report", "done"}
    BY <1>7, <1>0, Numbers DEF KillOwn, Goto
  <2>3. \A b \in Stoppers : pc[b] = "drain" =>
           \/ pc'[b] = "drain" /\ taken'[b].session = taken[b].session
           \/ \A u \in Starts : taken[b].session = u => u \in closedSessions'
    BY <1>7, <1>0, Numbers DEF KillOwn, Goto, NoTake, CloseSession
  <2>4. pc'[Shut] # "none" => pc[Shut] # "none"
    BY <2>1, <1>0, Numbers
  <2> QED
    BY <2>1, <2>2, <2>3, <2>4, SessionsKept
<1>8. ASSUME NEW s \in Starts, Reap(s)
      PROVE  SessionsEnd'
  <2>1. /\ inputSession' = inputSession /\ closedSessions \subseteq closedSessions' /\ lost' = lost
        /\ pc[s] # "none" /\ \E x \in Steps : pc' = [pc EXCEPT ![s] = x]
    BY <1>8 DEF Reap, Return, Goto, Steps, app, world, CloseSession
  <2>2. \A u \in Starts : outcome'[u] = "ok" /\ pc'[u] \in {"report", "done"} =>
           outcome[u] = "ok" /\ pc[u] \in {"report", "done"}
    BY <1>8, <1>0, Numbers DEF Reap, Return, Goto
  <2>3. \A b \in Stoppers : pc[b] = "drain" =>
           \/ pc'[b] = "drain" /\ taken'[b].session = taken[b].session
           \/ \A u \in Starts : taken[b].session = u => u \in closedSessions'
    BY <1>8, <1>0, Numbers DEF Reap, Return, Goto, NoTake, CloseSession
  <2>4. pc'[Shut] # "none" => pc[Shut] # "none"
    BY <2>1, <1>0, Numbers
  <2> QED
    BY <2>1, <2>2, <2>3, <2>4, SessionsKept
<1>9. ASSUME NEW s \in Starts, Adopt(s)
      PROVE  SessionsEnd'
  <2>1. /\ inputSession' = inputSession /\ closedSessions \subseteq closedSessions' /\ lost' = lost
        /\ pc[s] # "none" /\ \E x \in Steps : pc' = [pc EXCEPT ![s] = x]
    BY <1>9 DEF Adopt, Return, Goto, Steps, app, world, CloseSession
  <2>2. \A u \in Starts : outcome'[u] = "ok" /\ pc'[u] \in {"report", "done"} =>
           outcome[u] = "ok" /\ pc[u] \in {"report", "done"}
    BY <1>9, <1>0, Numbers DEF Adopt, Return, Goto
  <2>3. \A b \in Stoppers : pc[b] = "drain" =>
           \/ pc'[b] = "drain" /\ taken'[b].session = taken[b].session
           \/ \A u \in Starts : taken[b].session = u => u \in closedSessions'
    BY <1>9, <1>0, Numbers DEF Adopt, Return, Goto, NoTake, CloseSession
  <2>4. pc'[Shut] # "none" => pc[Shut] # "none"
    BY <2>1, <1>0, Numbers
  <2> QED
    BY <2>1, <2>2, <2>3, <2>4, SessionsKept
<1>10. ASSUME NEW s \in Starts, Open(s)
      PROVE  SessionsEnd'
  <2>1. /\ inputSession' = inputSession /\ closedSessions \subseteq closedSessions' /\ lost' = lost
        /\ pc[s] # "none" /\ \E x \in Steps : pc' = [pc EXCEPT ![s] = x]
    BY <1>10 DEF Open, Goto, Steps, app, world, CloseSession
  <2>2. \A u \in Starts : outcome'[u] = "ok" /\ pc'[u] \in {"report", "done"} =>
           outcome[u] = "ok" /\ pc[u] \in {"report", "done"}
    BY <1>10, <1>0, Numbers DEF Open, Goto
  <2>3. \A b \in Stoppers : pc[b] = "drain" =>
           \/ pc'[b] = "drain" /\ taken'[b].session = taken[b].session
           \/ \A u \in Starts : taken[b].session = u => u \in closedSessions'
    BY <1>10, <1>0, Numbers DEF Open, Goto, NoTake, CloseSession
  <2>4. pc'[Shut] # "none" => pc[Shut] # "none"
    BY <2>1, <1>0, Numbers
  <2> QED
    BY <2>1, <2>2, <2>3, <2>4, SessionsKept
<1>11. ASSUME NEW s \in Starts, Publish(s)
      PROVE  SessionsEnd'
  <2>1. /\ pc[s] = "publish" /\ closedSessions \subseteq closedSessions' /\ lost' = lost /\ taken' = taken
        /\ \E x \in Steps : pc' = [pc EXCEPT ![s] = x]
    BY <1>11 DEF Publish, Goto, CloseSession, Steps
  <2>2. /\ \A b \in Stoppers : pc[b] = "drain" => pc'[b] = "drain"
        /\ \A u \in Starts \ {s} : pc'[u] = pc[u]
        /\ pc'[Shut] = pc[Shut]
    BY <1>0, <2>1, Numbers
  <2>3. \A u \in Starts \ {s} : HeldSession(u) => HeldSession(u)'
    BY <2>1, <2>2 DEF HeldSession
  <2>4. CASE s \in ctxDone
    <3>1. outcome' = [outcome EXCEPT ![s] = "cancelled"] /\ inputSession' = inputSession
      BY <1>11, <2>4 DEF Publish, Unwanted
    <3>2. outcome'[s] = "cancelled" /\ \A u \in Starts \ {s} : outcome'[u] = outcome[u]
      BY <1>0, <3>1
    <3>3. SessionsAreClosed'
      BY <2>1, <2>2, <2>3, <3>1, <3>2 DEF SessionsEnd, SessionsAreClosed
    <3> QED
      BY <2>1, <2>2, <3>1, <3>3 DEF SessionsEnd
  <2>5. CASE s \notin ctxDone
    <3>1. /\ outcome' = outcome /\ inputSession' = s
          /\ closedSessions' = closedSessions \cup ({inputSession} \ {Nil})
      BY <1>11, <2>5 DEF Publish, Unwanted, CloseSession
    <3>2. \A u \in Starts : u = inputSession => u \in closedSessions'
      BY <3>1, Numbers
    <3>3. SessionsAreClosed'
      BY <2>1, <2>2, <2>3, <3>1, <3>2 DEF SessionsEnd, SessionsAreClosed
    <3>4. ~(lost = 0 /\ pc[Shut] # "none")
      BY <2>1, <2>5 DEF TurnsInv, Active
    <3> QED
      BY <2>1, <2>2, <3>3, <3>4 DEF SessionsEnd
  <2> QED
    BY <2>4, <2>5
<1>12. ASSUME NEW s \in Starts, Report(s)
      PROVE  SessionsEnd'
  <2>1. /\ inputSession' = inputSession /\ closedSessions \subseteq closedSessions' /\ lost' = lost
        /\ pc[s] # "none" /\ \E x \in Steps : pc' = [pc EXCEPT ![s] = x]
    BY <1>12 DEF Report, Goto, Steps, app, world, CloseSession
  <2>2. \A u \in Starts : outcome'[u] = "ok" /\ pc'[u] \in {"report", "done"} =>
           outcome[u] = "ok" /\ pc[u] \in {"report", "done"}
    BY <1>12, <1>0, Numbers DEF Report, Goto, OutcomeInv
  <2>3. \A b \in Stoppers : pc[b] = "drain" =>
           \/ pc'[b] = "drain" /\ taken'[b].session = taken[b].session
           \/ \A u \in Starts : taken[b].session = u => u \in closedSessions'
    BY <1>12, <1>0, Numbers DEF Report, Goto, NoTake, CloseSession
  <2>4. pc'[Shut] # "none" => pc[Shut] # "none"
    BY <2>1, <1>0, Numbers
  <2> QED
    BY <2>1, <2>2, <2>3, <2>4, SessionsKept
<1>13. ASSUME NEW a \in Stoppers, CloseTaken(a)
      PROVE  SessionsEnd'
  <2>1. /\ inputSession' = inputSession /\ closedSessions \subseteq closedSessions' /\ lost' = lost
        /\ pc[a] # "none" /\ \E x \in Steps : pc' = [pc EXCEPT ![a] = x]
    BY <1>13 DEF CloseTaken, Goto, Steps, app, world, CloseSession
  <2>2. \A u \in Starts : outcome'[u] = "ok" /\ pc'[u] \in {"report", "done"} =>
           outcome[u] = "ok" /\ pc[u] \in {"report", "done"}
    BY <1>13, <1>0, Numbers DEF CloseTaken, Goto, OutcomeInv
  <2>3. \A b \in Stoppers : pc[b] = "drain" =>
           \/ pc'[b] = "drain" /\ taken'[b].session = taken[b].session
           \/ \A u \in Starts : taken[b].session = u => u \in closedSessions'
    BY <1>13, <1>0, Numbers DEF CloseTaken, Goto, NoTake, CloseSession
  <2>4. pc'[Shut] # "none" => pc[Shut] # "none"
    BY <2>1, <1>0, Numbers
  <2> QED
    BY <2>1, <2>2, <2>3, <2>4, SessionsKept
<1>14. ASSUME NEW a \in Stoppers, StopServer(a)
      PROVE  SessionsEnd'
  <2>1. /\ inputSession' = inputSession /\ closedSessions \subseteq closedSessions' /\ lost' = lost
        /\ pc[a] # "none" /\ \E x \in Steps : pc' = [pc EXCEPT ![a] = x]
    BY <1>14 DEF StopServer, Goto, Steps, app, world, CloseSession
  <2>2. \A u \in Starts : outcome'[u] = "ok" /\ pc'[u] \in {"report", "done"} =>
           outcome[u] = "ok" /\ pc[u] \in {"report", "done"}
    BY <1>14, <1>0, Numbers DEF StopServer, Goto, OutcomeInv
  <2>3. \A b \in Stoppers : pc[b] = "drain" =>
           \/ pc'[b] = "drain" /\ taken'[b].session = taken[b].session
           \/ \A u \in Starts : taken[b].session = u => u \in closedSessions'
    BY <1>14, <1>0, Numbers DEF StopServer, Goto, NoTake, CloseSession
  <2>4. pc'[Shut] # "none" => pc[Shut] # "none"
    BY <2>1, <1>0, Numbers
  <2> QED
    BY <2>1, <2>2, <2>3, <2>4, SessionsKept
<1>15. ASSUME NEW a \in Stoppers, KillTaken(a)
      PROVE  SessionsEnd'
  <2>1. /\ inputSession' = inputSession /\ closedSessions \subseteq closedSessions' /\ lost' = lost
        /\ pc[a] # "none" /\ \E x \in Steps : pc' = [pc EXCEPT ![a] = x]
    BY <1>15 DEF KillTaken, Goto, Steps, app, world, CloseSession
  <2>2. \A u \in Starts : outcome'[u] = "ok" /\ pc'[u] \in {"report", "done"} =>
           outcome[u] = "ok" /\ pc[u] \in {"report", "done"}
    BY <1>15, <1>0, Numbers DEF KillTaken, Goto, OutcomeInv
  <2>3. \A b \in Stoppers : pc[b] = "drain" =>
           \/ pc'[b] = "drain" /\ taken'[b].session = taken[b].session
           \/ \A u \in Starts : taken[b].session = u => u \in closedSessions'
    BY <1>15, <1>0, Numbers DEF KillTaken, Goto, NoTake, CloseSession
  <2>4. pc'[Shut] # "none" => pc[Shut] # "none"
    BY <2>1, <1>0, Numbers
  <2> QED
    BY <2>1, <2>2, <2>3, <2>4, SessionsKept
<1>16. ASSUME NEW s \in Starts, Boot(s)
      PROVE  SessionsEnd'
  <2>1. UNCHANGED <<inputSession, closedSessions, lost, pc, outcome, taken>>
    BY <1>16 DEF Boot, app, world
  <2> QED
    BY <2>1, SessionsKept
<1>17. ASSUME NEW s \in Starts, Crash(s)
      PROVE  SessionsEnd'
  <2>1. UNCHANGED <<inputSession, closedSessions, lost, pc, outcome, taken>>
    BY <1>17 DEF Crash, app, world
  <2> QED
    BY <2>1, SessionsKept
<1>18. CASE OnStartViiper
  <2>1. /\ begun' \in Starts /\ pc[begun'] = "none" /\ pc' = [pc EXCEPT ![begun'] = "lock"]
        /\ UNCHANGED <<inputSession, closedSessions, lost, outcome, taken>>
    BY <1>18, Numbers DEF OnStartViiper, Goto, NumbersInv, Unused, Starts, world
  <2>2. /\ \A u \in Starts : pc'[u] \in {"report", "done"} => pc[u] \in {"report", "done"}
        /\ \A b \in Stoppers : pc[b] = "drain" => pc'[b] = "drain"
        /\ pc'[Shut] = pc[Shut]
    BY <1>0, <2>1, Numbers
  <2> QED
    BY <2>1, <2>2, SessionsKept
<1>19. CASE MonitorSees
  <2>1. UNCHANGED <<inputSession, closedSessions, lost, pc, outcome, taken>>
    BY <1>19 DEF MonitorSees, app, world
  <2> QED
    BY <2>1, SessionsKept
<1>20. CASE OnViiperDisconnected
  <2>1. /\ lost' # 0
        /\ MaxStarts + lost' \in Stoppers \ Starts /\ pc[MaxStarts + lost'] = "none" /\ inputSession' = Nil
        /\ pc' = [pc EXCEPT ![MaxStarts + lost'] = "drain"]
        /\ taken' = [taken EXCEPT ![MaxStarts + lost'].session = inputSession]
        /\ UNCHANGED <<closedSessions, outcome>>
    BY <1>20, <1>0, Numbers DEF OnViiperDisconnected, Goto, world, NumbersInv, Unused, Teardowns
  <2>2. /\ \A b \in Stoppers : pc[b] = "drain" => pc'[b] = "drain" /\ taken'[b] = taken[b]
        /\ pc'[MaxStarts + lost'] = "drain" /\ taken'[MaxStarts + lost'].session = inputSession
        /\ \A u \in Starts : pc'[u] = pc[u]
    BY <1>0, <2>1
  <2>3. \A u \in Starts : HeldSession(u) \/ u = inputSession => HeldSession(u)'
    BY <2>1, <2>2 DEF HeldSession
  <2>4. SessionsAreClosed'
    BY <2>1, <2>2, <2>3 DEF SessionsEnd, SessionsAreClosed
  <2> QED
    BY <2>1, <2>4 DEF SessionsEnd
<1>21. CASE Shutdown
  <2>1. /\ lost' = lost
        /\ Shut \in Stoppers \ Starts /\ pc[Shut] = "none" /\ inputSession' = Nil
        /\ pc' = [pc EXCEPT ![Shut] = "drain"]
        /\ taken' = [taken EXCEPT ![Shut].session = inputSession]
        /\ UNCHANGED <<closedSessions, outcome>>
    BY <1>21, <1>0, Numbers DEF Shutdown, Goto, world
  <2>2. /\ \A b \in Stoppers : pc[b] = "drain" => pc'[b] = "drain" /\ taken'[b] = taken[b]
        /\ pc'[Shut] = "drain" /\ taken'[Shut].session = inputSession
        /\ \A u \in Starts : pc'[u] = pc[u]
    BY <1>0, <2>1
  <2>3. \A u \in Starts : HeldSession(u) \/ u = inputSession => HeldSession(u)'
    BY <2>1, <2>2 DEF HeldSession
  <2>4. SessionsAreClosed'
    BY <2>1, <2>2, <2>3 DEF SessionsEnd, SessionsAreClosed
  <2> QED
    BY <2>1, <2>4 DEF SessionsEnd
<1>22. CASE Exit
  <2>1. UNCHANGED <<inputSession, closedSessions, lost, pc, outcome, taken>>
    BY <1>22 DEF Exit, app, world
  <2> QED
    BY <2>1, SessionsKept
<1>23. CASE UNCHANGED vars
  <2>1. UNCHANGED <<inputSession, closedSessions, lost, pc, outcome, taken>>
    BY <1>23 DEF vars, app, world
  <2> QED
    BY <2>1, SessionsKept
<1> QED
  BY <1>1, <1>2, <1>3, <1>4, <1>5, <1>6, <1>7, <1>8, <1>9, <1>10, <1>11, <1>12, <1>13, <1>14,
     <1>15, <1>16, <1>17, <1>18, <1>19, <1>20, <1>21, <1>22, <1>23 DEF Next, AppStep,
     StartStep, StopStep

-----------------------------------------------------------------------------
(* Theorems *)

\* All of it together.
LEMMA ServerInvariant == SafeSpec => []ServerInv
<1>1. Init => ServerInv
  BY InitNumbers, InitPids, InitSpawn, InitTurns DEF ServerInv
<1>2. ServerInv /\ [Next]_vars => ServerInv'
  <2> SUFFICES ASSUME ServerInv, [Next]_vars
               PROVE  ServerInv'
    OBVIOUS
  <2>1. /\ NumbersInv /\ PidInv /\ SpawnInv /\ OnlyOne
        /\ TurnsInv /\ OutcomeInv /\ FailedInv /\ SessionsEnd
    BY DEF ServerInv
  <2>2. NumbersInv' /\ PidInv' /\ SpawnInv' /\ OnlyOne'
    BY <2>1, NextNumbers, NextPids, NextSpawn, NextOnlyOne
  <2>3. TurnsInv' /\ OutcomeInv' /\ FailedInv' /\ SessionsEnd'
    BY <2>1, NextTurns, NextOutcome, NextFailed, NextSessions
  <2> QED
    BY <2>2, <2>3 DEF ServerInv
<1> QED
  BY <1>1, <1>2, PTL DEF SafeSpec

\* The variables hold what app/gui/server.go declares, and a goroutine is where
\* its part of the code can be.
THEOREM ServerTypeCorrect == SafeSpec => []TypeOK
<1>1. ServerInv => TypeOK
  BY NumbersGiveTypes DEF ServerInv
<1> QED
  BY <1>1, ServerInvariant, PTL

\* However startups, disconnects, stops and crashes overlap, no two viiper.exe of
\* ours are alive that nobody is about to kill, or whose startup is not cancelled,
\* and that left no startup's ping unanswered (server.go:92-96, 111-117).
THEOREM OneServerAtATime == SafeSpec => []OneServer
<1>1. ServerInv => OneServer
  <2> SUFFICES ASSUME OnlyOne
               PROVE  OneServer
    BY DEF ServerInv
  <2> DEFINE L == {s \in AliveProcs : ~Doomed(s) /\ s \notin slow}
  <2>1. CASE L = {}
    BY <2>1, FS_EmptySet DEF OneServer
  <2>2. ASSUME NEW x \in L
        PROVE  OneServer
    <3>1. L = {x}
      BY <2>2 DEF OnlyOne
    <3>2. Cardinality(L) = 1
      BY <3>1, FS_Singleton
    <3> QED
      BY <3>2 DEF OneServer
  <2> QED
    BY <2>1, <2>2
<1> QED
  BY <1>1, ServerInvariant, PTL

\* A startup that reports failure leaves no process of its own alive, unless
\* somebody is about to kill it, until a disconnect or the shutdown interferes
\* (server.go:150-165).
THEOREM FailureLeavesNothing == SafeSpec => []FailedLeavesNothing
<1>1. ServerInv => FailedLeavesNothing
  BY DEF ServerInv, FailedInv, FailedPart, Quiet, FailedLeavesNothing
<1> QED
  BY <1>1, ServerInvariant, PTL

\* A session that was opened is the published one, or closed, or in the hands of
\* a goroutine that will close or publish it.  And none is published once the
\* shutdown has taken the session, but this only until the first disconnect: after
\* one, a startup may have lost its cancel function (viiper_lifecycle.go:25-29).
THEOREM NoSessionIsLost == SafeSpec => []SessionsEnd
<1>1. ServerInv => SessionsEnd
  BY DEF ServerInv
<1> QED
  BY <1>1, ServerInvariant, PTL

=============================================================================
