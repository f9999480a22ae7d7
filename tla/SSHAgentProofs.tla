--------------------------- MODULE SSHAgentProofs ---------------------------
(***************************************************************************)
(* What holds of the agent for any number of channels and any backoff:     *)
(* its states are well typed, and a stop of the proxy that has come to its *)
(* end has told every connection thread to end and has forgotten the keys, *)
(* unless an exception cut a pass of close() short.  That the proxy comes  *)
(* to its end, and the threads to theirs, is liveness.                     *)
(***************************************************************************)
EXTENDS SSHAgent, TLAPS

-----------------------------------------------------------------------------
(* Where the loop of close() is. *)

\* The loop is at a thread of the list, or past the last one, and the list only grows; it is
\* a call of the proxy's or of the ssh client's.
PlaceInv ==
  /\ main \in Closing => at \in 1..(opened + 1)
  /\ main \in {"close", "forget"} => at <= opened
  /\ main \in Closing => pass # "none"

TypeInv == TypeOK /\ PlaceInv

\* The agent starts well typed (Agent.__init__).
LEMMA InitTypeInv == Init => TypeInv
BY SSHAgentAssumption DEF Init, TypeInv, TypeOK, PlaceInv, Closing, Threads

\* Every step of the main thread, of paramiko and of the connection threads keeps the types.
LEMMA NextTypeInv == TypeInv /\ [Next]_vars => TypeInv'
<1> SUFFICES ASSUME TypeInv, [Next]_vars PROVE TypeInv'
  OBVIOUS
<1> USE SSHAgentAssumption DEF TypeInv, TypeOK, PlaceInv, Closing, Threads, closing, connecting,
      environment, thread
<1>1. CASE StartContainer
  BY <1>1 DEF StartContainer
<1>2. CASE TryConnect
  <2>1. CASE main' = "session" /\ transport' = "up" /\ UNCHANGED connecting
    BY <1>2, <2>1 DEF TryConnect
  <2>2. CASE NextBackoff /\ UNCHANGED <<main, transport>>
    <3>1. /\ backoff' \in 1..(2 * MaxBackoff)
          /\ previousBackoff' \in 0..MaxBackoff
      BY <1>2, <2>2 DEF TryConnect, NextBackoff
    <3> QED
      BY <1>2, <2>2, <3>1 DEF TryConnect
  <2> QED
    BY <1>2, <2>1, <2>2 DEF TryConnect
<1>3. CASE GiveUp
  BY <1>3 DEF GiveUp
<1>4. CASE OpenSession
  BY <1>4 DEF OpenSession
<1>5. CASE Use
  BY <1>5 DEF Use
<1>6. CASE Stop
  BY <1>6 DEF Stop, BeginClose
<1>7. CASE StopThread
  BY <1>7 DEF StopThread
<1>8. CASE CloseThread
  <2>1. CASE held[at]
    BY <1>8, <2>1 DEF CloseThread, CloseChannel
  <2>2. CASE ~held[at]
    <3>1. main' \in {"client", "container"} /\ at' = 0 /\ pass' = "none"
      BY <1>8, <2>2 DEF CloseThread, EndClose
    <3>2. cut' \subseteq {"proxy", "client"}
      BY <1>8, <2>2 DEF CloseThread
    <3>3. UNCHANGED <<channel, connecting, transport, keys, opened, starting, thread, inbox>>
      BY <1>8, <2>2 DEF CloseThread
    <3> QED
      BY <3>1, <3>2, <3>3
  <2> QED
    BY <2>1, <2>2
<1>9. CASE ForgetThread
  BY <1>9 DEF ForgetThread
<1>10. CASE ForgetKeys
  <2>1. main' \in {"client", "container"} /\ at' = 0 /\ pass' = "none"
    BY <1>10 DEF ForgetKeys, EndClose
  <2>2. keys' \in BOOLEAN
    BY <1>10 DEF ForgetKeys
  <2>3. UNCHANGED <<cut, connecting, transport, opened, starting, thread, environment>>
    BY <1>10 DEF ForgetKeys
  <2> QED
    BY <2>1, <2>2, <2>3
<1>11. CASE CloseClient
  BY <1>11 DEF CloseClient, BeginClose, AllClosed
<1>12. CASE RemoveContainer
  BY <1>12 DEF RemoveContainer
<1>13. CASE StartThread
  <2>1. starting \in Threads
    BY <1>13 DEF StartThread
  <2> QED
    BY <1>13, <2>1 DEF StartThread
<1>14. CASE LoseConnection
  BY <1>14 DEF LoseConnection, AllClosed
<1>15. CASE AppendThread
  <2>1. opened' \in 0..NChannels
    BY <1>15 DEF AppendThread
  <2> QED
    BY <1>15, <2>1 DEF AppendThread
<1>16. ASSUME NEW t \in Threads, Request(t) PROVE TypeInv'
  BY <1>16 DEF Request
<1>17. ASSUME NEW t \in Threads, EndChannel(t) PROVE TypeInv'
  BY <1>17 DEF EndChannel
<1>18. ASSUME NEW t \in Threads, Poll(t) PROVE TypeInv'
  <2>1. pc' \in [Threads -> {"none", "new", "loop", "read", "stop", "close", "forget", "ended"}]
    BY <1>18 DEF Poll, Goto
  <2>2. why' \in [Threads -> {"none", "eof", "lost"}]
    BY <1>18 DEF Poll
  <2> QED
    BY <1>18, <2>1, <2>2 DEF Poll
<1>19. ASSUME NEW t \in Threads, AnswerRequest(t) PROVE TypeInv'
  <2>1. pc' \in [Threads -> {"none", "new", "loop", "read", "stop", "close", "forget", "ended"}]
    BY <1>19 DEF AnswerRequest, Goto
  <2>2. why' \in [Threads -> {"none", "eof", "lost"}]
    BY <1>19 DEF AnswerRequest
  <2>3. inbox' \in [Threads -> {"empty", "partial", "full"}]
    BY <1>19 DEF AnswerRequest
  <2> QED
    BY <1>19, <2>1, <2>2, <2>3 DEF AnswerRequest
<1>20. ASSUME NEW t \in Threads, StopSelf(t) PROVE TypeInv'
  <2>1. pc' \in [Threads -> {"none", "new", "loop", "read", "stop", "close", "forget", "ended"}]
    BY <1>20 DEF StopSelf, Goto, Stopped
  <2>2. exit' \in [Threads -> BOOLEAN]
    BY <1>20 DEF StopSelf
  <2> QED
    BY <1>20, <2>1, <2>2 DEF StopSelf
<1>21. ASSUME NEW t \in Threads, CloseSelf(t) PROVE TypeInv'
  <2>1. pc' \in [Threads -> {"none", "new", "loop", "read", "stop", "close", "forget", "ended"}]
    BY <1>21 DEF CloseSelf, Goto, Stopped
  <2>2. channel' \in [Threads -> {"none", "open", "eof", "closed"}]
    BY <1>21 DEF CloseSelf, CloseChannel
  <2> QED
    BY <1>21, <2>1, <2>2 DEF CloseSelf
<1>22. ASSUME NEW t \in Threads, ForgetSelf(t) PROVE TypeInv'
  BY <1>22 DEF ForgetSelf, Goto, Stopped
<1>23. CASE UNCHANGED vars
  BY <1>23 DEF vars
<1> QED
  BY <1>1, <1>2, <1>3, <1>4, <1>5, <1>6, <1>7, <1>8, <1>9, <1>10, <1>11, <1>12, <1>13, <1>14,
     <1>15, <1>16, <1>17, <1>18, <1>19, <1>20, <1>21, <1>22, <1>23
     DEF Next, Main, Run, Remote

\* The typing of all states, with the place of the loop of close().
LEMMA TypeInvHolds == Spec => []TypeInv
BY InitTypeInv, NextTypeInv, PTL DEF Spec

\* Every reachable state of the agent is well typed: the loop of close() indexes its list
\* within bounds although the list may grow under it, and the backoff stays below twice its
\* limit.
THEOREM TypeCorrect == Spec => []TypeOK
<1>1. TypeInv => TypeOK
  BY DEF TypeInv
<1> QED
  BY <1>1, TypeInvHolds, PTL

-----------------------------------------------------------------------------
(* What a stop leaves. *)

\* A thread is told to end: it tests that before each look at its channel.
Told(t) == pc[t] # "none" => exit[t]

\* The end of the proxy, as far as it is safety: the keys are forgotten and every thread is
\* told to end, but for the passes of close() that an exception cut short
\* (CustomSSHAgent.close, SSHAgentProxy.stop).
StopComplete ==
  main = "done" =>
    /\ "client" \in cut \/ \A t \in Threads : Told(t)
    /\ transport # "none" /\ keys => cut = {"proxy", "client"}

Before == {"new", "connect"}
Stopping == {"client", "container", "done"}

\* What there is of threads: those listed, none before there is a connection, and none comes
\* or is left unstarted once the client has joined its transport thread.
ThreadsInv ==
  /\ \A t \in Threads : (pc[t] # "none") <=> t <= opened
  /\ main \in Before \/ transport = "none" => opened = 0
  /\ main \in Before => transport = "none"
  /\ pass = "client" => transport = "down"
  /\ main \in {"container", "done"} => transport # "up"

\* Where each pass of close() is, and what it has done so far.
PassInv ==
  /\ main \in Closing <=> pass # "none"
  /\ main \notin Closing \cup Stopping \cup {"gone"} => cut = {}
  /\ pass = "proxy" => cut = {}
  /\ keys /\ (main = "client" \/ pass = "client") => "proxy" \in cut
  /\ "client" \in cut => main \in {"container", "done"}
  /\ main \in {"container", "done"} /\ transport # "none" /\ keys => {"proxy", "client"} \subseteq cut

\* The second pass has told the threads before the one it is at, and this one when it has
\* come to its channel.
ToldInv ==
  /\ pass = "client" => \A t \in Threads : t < at => exit[t]
  /\ main \in {"close", "forget"} => exit[at]
  /\ main \in {"container", "done"} /\ "client" \notin cut =>
       \A t \in Threads : t <= opened => exit[t]

StopInv == ThreadsInv /\ PassInv /\ ToldInv

\* No thread comes to be, or ceases to be one, in a step of a connection thread.
LEMMA RunKeepsThreads ==
  ASSUME TypeInv, NEW t \in Threads, Run(t)
  PROVE  /\ \A u \in Threads : pc'[u] = "none" <=> pc[u] = "none"
         /\ \A u \in Threads : exit[u] => exit'[u]
         /\ UNCHANGED <<main, closing, transport, keys, opened, starting>>
<1> USE DEF TypeInv, TypeOK, Goto, Stopped, closing
<1>1. CASE Poll(t)
  BY <1>1 DEF Poll
<1>2. CASE AnswerRequest(t)
  BY <1>2 DEF AnswerRequest
<1>3. CASE StopSelf(t)
  BY <1>3 DEF StopSelf
<1>4. CASE CloseSelf(t)
  BY <1>4 DEF CloseSelf
<1>5. CASE ForgetSelf(t)
  BY <1>5 DEF ForgetSelf
<1> QED
  BY <1>1, <1>2, <1>3, <1>4, <1>5 DEF Run

\* There are no threads, no pass and no connection at the start.
LEMMA InitStopInv == Init => StopInv
BY SSHAgentAssumption
   DEF Init, StopInv, ThreadsInv, PassInv, ToldInv, Closing, Before, Stopping, Threads

\* A pass of close() tells every thread that is listed, and no step of another thread
\* untells one.
LEMMA NextStopInv == TypeInv /\ StopInv /\ [Next]_vars => StopInv'
<1> SUFFICES ASSUME TypeInv, StopInv, [Next]_vars PROVE StopInv'
  OBVIOUS
<1>0. /\ opened \in 0..NChannels /\ Threads = 1..NChannels /\ NChannels \in Nat
      /\ starting \in {0, opened}
      /\ main \in Closing => at \in 1..(opened + 1)
      /\ main \in {"close", "forget"} => at <= opened
      /\ pass \in {"none", "proxy", "client"}
      /\ transport \in {"none", "up", "down"}
      /\ keys \in BOOLEAN
      /\ cut \subseteq {"proxy", "client"}
      /\ DOMAIN pc = Threads /\ DOMAIN exit = Threads
      /\ exit \in [Threads -> BOOLEAN]
  BY SSHAgentAssumption DEF TypeInv, TypeOK, PlaceInv, Threads
<1> USE <1>0 DEF StopInv, ThreadsInv, PassInv, ToldInv, Closing, Before, Stopping, closing,
      connecting, environment, thread
<1>1. CASE StartContainer
  BY <1>1 DEF StartContainer
<1>2. CASE TryConnect
  BY <1>2 DEF TryConnect, NextBackoff
<1>3. CASE GiveUp
  BY <1>3 DEF GiveUp
<1>4. CASE OpenSession
  BY <1>4 DEF OpenSession
<1>5. CASE Use
  BY <1>5 DEF Use
<1>6. CASE Stop
  BY <1>6 DEF Stop, BeginClose
<1>7. CASE StopThread
  BY <1>7 DEF StopThread
<1>8. CASE CloseThread
  BY <1>8 DEF CloseThread, EndClose
<1>9. CASE ForgetThread
  BY <1>9 DEF ForgetThread
<1>10. CASE ForgetKeys
  BY <1>10 DEF ForgetKeys, EndClose
<1>11. CASE CloseClient
  BY <1>11 DEF CloseClient, BeginClose
<1>12. CASE RemoveContainer
  BY <1>12 DEF RemoveContainer
<1>13. CASE StartThread
  BY <1>13 DEF StartThread
<1>14. CASE LoseConnection
  BY <1>14 DEF LoseConnection
<1>15. CASE AppendThread
  <2>1. /\ opened' = opened + 1 /\ opened' \in Threads
        /\ transport = "up"
        /\ UNCHANGED <<main, at, pass, transport, keys, exit, cut>>
    BY <1>15 DEF AppendThread
  <2>2. \A t \in Threads : (pc'[t] # "none") <=> t <= opened'
    BY <1>15, <2>1 DEF AppendThread
  <2>3. main \in {"close", "forget"} => at <= opened
    OBVIOUS
  <2>4. ThreadsInv'
    BY <2>1, <2>2
  <2>5. PassInv' /\ ToldInv'
    BY <2>1, <2>3
  <2> QED
    BY <2>4, <2>5
<1>16. ASSUME NEW t \in Threads, Request(t) PROVE StopInv'
  BY <1>16 DEF Request
<1>17. ASSUME NEW t \in Threads, EndChannel(t) PROVE StopInv'
  BY <1>17 DEF EndChannel
<1>18. ASSUME NEW t \in Threads, Run(t) PROVE StopInv'
  <2>1. /\ \A u \in Threads : pc'[u] = "none" <=> pc[u] = "none"
        /\ \A u \in Threads : exit[u] => exit'[u]
        /\ UNCHANGED <<main, at, pass, cut, transport, keys, opened>>
    BY <1>18, RunKeepsThreads
  <2>2. main \in {"close", "forget"} => at \in Threads
    BY SMT
  <2>3. ThreadsInv' /\ PassInv'
    BY <2>1
  <2>4. ToldInv'
    BY <2>1, <2>2
  <2> QED
    BY <2>3, <2>4
<1>19. CASE UNCHANGED vars
  BY <1>19 DEF vars
<1> QED
  BY <1>1, <1>2, <1>3, <1>4, <1>5, <1>6, <1>7, <1>8, <1>9, <1>10, <1>11, <1>12, <1>13, <1>14,
     <1>15, <1>16, <1>17, <1>18, <1>19 DEF Next, Main, Remote

\* When the stop of the proxy is over, every thread that was ever listed is told to end and
\* the keys are forgotten, unless an exception cut a pass of close() short: the second pass
\* for the threads, both of them for the keys.  Threads that come while the first pass runs
\* are found by the second, after which none can come (CustomSSHAgent.close).
THEOREM StopTellsAll == Spec => []StopComplete
<1>1. TypeInv /\ StopInv => StopComplete
  <2> SUFFICES ASSUME TypeInv, StopInv, main = "done" PROVE StopComplete
    BY DEF StopComplete
  <2>1. "client" \in cut \/ \A t \in Threads : Told(t)
    BY DEF StopInv, ThreadsInv, ToldInv, Told
  <2>2. transport # "none" /\ keys => cut = {"proxy", "client"}
    BY DEF TypeInv, TypeOK, StopInv, PassInv
  <2> QED
    BY <2>1, <2>2 DEF StopComplete
<1>2. Spec => []StopInv
  BY InitStopInv, NextStopInv, TypeInvHolds, PTL DEF Spec
<1> QED
  BY <1>1, <1>2, TypeInvHolds, PTL

=============================================================================
