------------------------------ MODULE SSHAgent ------------------------------
(***************************************************************************)
(* The agent that lends ssh keys to containers                             *)
(* (src/buildrunner/sshagent/__init__.py): the proxy connects to the sshd  *)
(* of its container, paramiko calls the agent for every channel that the   *)
(* container opens, and a thread per channel answers requests until it is  *)
(* stopped: by itself, when its channel ends, or by the main thread, when  *)
(* the step is cleaned up.                                                 *)
(*                                                                         *)
(* paramiko is modelled by what the code relies on: its transport thread   *)
(* calls the handler, closing the client joins that thread, closes the     *)
(* channels and then closes the agent once more.  Closing a channel from   *)
(* this side, or losing the connection, is no eof.                         *)
(***************************************************************************)
EXTENDS Naturals

CONSTANTS
  NChannels,  \* bound on the channels the container opens
  MaxBackoff  \* the largest backoff with which a connection is tried

ASSUME SSHAgentAssumption == NChannels \in Nat /\ MaxBackoff \in Nat \ {0}

Threads == 1..NChannels

VARIABLES
  main,      \* where the main thread is
  at,        \* the connection thread that the loop of close() is at
  pass,      \* whose call of close() it is: the proxy's or the ssh client's
  backoff, previousBackoff,
  transport, \* of the ssh client
  keys,      \* whether the agent holds its keys
  opened,    \* the threads in _connection_threads
  starting,  \* the thread that the handler has appended and not started, or 0
  pc,        \* where each connection thread is
  why,       \* why it stops itself
  exit,      \* _exit
  held,      \* whether _remote_channel is set
  channel,   \* each channel as this side knows it
  inbox,     \* the request in the buffer of each channel
  cut        \* history: the passes of close() that an exception ended

connecting == <<backoff, previousBackoff>>
closing == <<at, pass, cut>>
environment == <<channel, inbox>>
thread == <<pc, why, exit, held>>
vars == <<main, at, pass, backoff, previousBackoff, transport, keys, opened, starting, pc, why,
          exit, held, channel, inbox, cut>>

Closing == {"check", "close", "forget"}
TypeOK ==
  /\ main \in {"new", "connect", "session", "using", "stop", "client", "container", "done",
               "gone"} \cup Closing
  /\ at \in 0..(NChannels + 1)
  /\ pass \in {"none", "proxy", "client"}
  /\ backoff \in 1..(2 * MaxBackoff) /\ previousBackoff \in 0..MaxBackoff
  /\ transport \in {"none", "up", "down"}
  /\ keys \in BOOLEAN
  /\ opened \in 0..NChannels /\ starting \in {0, opened}
  /\ pc \in [Threads -> {"none", "new", "loop", "read", "stop", "close", "forget",
                         "ended"}]
  /\ why \in [Threads -> {"none", "eof", "lost"}]
  /\ exit \in [Threads -> BOOLEAN] /\ held \in [Threads -> BOOLEAN]
  /\ channel \in [Threads -> {"none", "open", "eof", "closed"}]
  /\ inbox \in [Threads -> {"empty", "partial", "full"}]
  /\ cut \subseteq {"proxy", "client"}

Init ==
  /\ main = "new" /\ at = 0 /\ pass = "none" /\ cut = {}
  /\ backoff = 1 /\ previousBackoff = 0
  /\ transport = "none" /\ keys = TRUE
  /\ opened = 0 /\ starting = 0
  /\ pc = [t \in Threads |-> "none"] /\ why = [t \in Threads |-> "none"]
  /\ exit = [t \in Threads |-> FALSE] /\ held = [t \in Threads |-> FALSE]
  /\ channel = [t \in Threads |-> "none"] /\ inbox = [t \in Threads |-> "empty"]

-----------------------------------------------------------------------------
(* The start of the proxy. *)

\* The container runs, or something raises before there is a client.
StartContainer ==
  /\ main = "new"
  /\ main' \in {"connect", "container"}
  /\ UNCHANGED <<closing, connecting, transport, keys, opened, starting, thread, environment>>

NextBackoff ==
  /\ backoff' = backoff + previousBackoff
  /\ previousBackoff' = backoff

\* Mutant of TryConnect: attempts go on whatever the backoff.
TryConnectAlways ==
  /\ main = "connect"
  /\ NextBackoff
  /\ UNCHANGED <<main, transport, closing, keys, opened, starting, thread, environment>>

\* Attempts go on while the backoff is small enough; it grows after the last one too.
TryConnect ==
  /\ main = "connect" /\ backoff <= MaxBackoff
  /\ \/ main' = "session" /\ transport' = "up" /\ UNCHANGED connecting
     \/ NextBackoff /\ UNCHANGED <<main, transport>>
  /\ UNCHANGED <<closing, keys, opened, starting, thread, environment>>

GiveUp ==
  /\ main = "connect" /\ backoff > MaxBackoff
  /\ main' = "using"
  /\ UNCHANGED <<closing, connecting, transport, keys, opened, starting, thread, environment>>

\* The session asks for the agent to be forwarded; whether it works or raises, the task is
\* cleaned up in the end.
OpenSession ==
  /\ main = "session"
  /\ main' = "using"
  /\ UNCHANGED <<closing, connecting, transport, keys, opened, starting, thread, environment>>

\* The task is cleaned up, or its cleanup is left before it comes to the agent.
Use ==
  /\ main = "using"
  /\ main' \in {"stop", "gone"}
  /\ UNCHANGED <<closing, connecting, transport, keys, opened, starting, thread, environment>>

-----------------------------------------------------------------------------
(* The transport thread and the container at the other end. *)

\* forward_agent_handler: a new thread is listed, then started.
AppendThread ==
  /\ transport = "up" /\ main # "session" /\ starting = 0 /\ opened < NChannels
  /\ opened' = opened + 1 /\ starting' = opened'
  /\ pc' = [pc EXCEPT ![opened'] = "new"]
  /\ held' = [held EXCEPT ![opened'] = TRUE]
  /\ channel' = [channel EXCEPT ![opened'] = "open"]
  /\ UNCHANGED <<main, closing, connecting, transport, keys, why, exit, inbox>>

StartThread ==
  /\ starting # 0
  /\ pc' = [pc EXCEPT ![starting] = "loop"]
  /\ starting' = 0
  /\ UNCHANGED <<main, closing, connecting, transport, keys, opened, why, exit, held, environment>>

\* Bytes of a request arrive.
Request(t) ==
  /\ transport = "up" /\ starting = 0 /\ channel[t] = "open" /\ inbox[t] # "full"
  /\ \E more \in {"partial", "full"} : inbox' = [inbox EXCEPT ![t] = more]
  /\ UNCHANGED <<main, closing, connecting, transport, keys, opened, starting, thread, channel>>

\* The container ends its side of a channel, with an eof or by a close alone.
EndChannel(t) ==
  /\ transport = "up" /\ starting = 0 /\ channel[t] = "open"
  /\ \E state \in {"eof", "closed"} : channel' = [channel EXCEPT ![t] = state]
  /\ UNCHANGED <<main, closing, connecting, transport, keys, opened, starting, thread, inbox>>

AllClosed == channel' = [t \in Threads |-> IF channel[t] = "open" THEN "closed" ELSE channel[t]]

\* The connection breaks, for example because the container ends.
LoseConnection ==
  /\ transport = "up" /\ starting = 0
  /\ transport' = "down"
  /\ AllClosed
  /\ UNCHANGED <<main, closing, connecting, keys, opened, starting, thread, inbox>>

-----------------------------------------------------------------------------
(* The connection threads (CustomAgentConnectionThread). *)

Goto(t, next) == pc' = [pc EXCEPT ![t] = next]

\* The test of the loop and a look at the channel.  A channel that is gone raises, which is
\* ignored as any exception but those of ssh; an eof stops the thread; bytes in the buffer
\* are a request.
Poll(t) ==
  /\ pc[t] = "loop"
  /\ LET eof == held[t] /\ channel[t] = "eof" IN
       \/ /\ exit[t]
          /\ Goto(t, "ended") /\ UNCHANGED why
       \/ /\ ~exit[t] /\ eof
          /\ Goto(t, "stop") /\ why' = [why EXCEPT ![t] = "eof"]
       \/ /\ ~exit[t] /\ held[t] /\ ~eof /\ inbox[t] # "empty"
          /\ Goto(t, "read") /\ UNCHANGED why
  /\ UNCHANGED <<main, closing, connecting, transport, keys, opened, starting, exit, held,
                 environment>>

\* The read waits for the whole request, until the channel ends.  The request is answered
\* with the keys, a signature or a failure, and ssh may raise in it.
AnswerRequest(t) ==
  /\ pc[t] = "read"
  /\ \/ /\ inbox[t] = "full"
        /\ inbox' = [inbox EXCEPT ![t] = "empty"]
        /\ \/ Goto(t, "loop") /\ UNCHANGED why
           \/ Goto(t, "stop") /\ why' = [why EXCEPT ![t] = "lost"]
     \/ /\ inbox[t] # "full" /\ channel[t] # "open"
        /\ why' = [why EXCEPT ![t] = "lost"]
        /\ Goto(t, "stop")
        /\ UNCHANGED inbox
  /\ UNCHANGED <<main, closing, connecting, transport, keys, opened, starting, exit, held,
                 channel>>

\* After its own stop the thread ends, or comes back to the test of its loop.
Stopped(t) == IF why[t] = "eof" THEN "loop" ELSE "ended"

StopSelf(t) ==
  /\ pc[t] = "stop"
  /\ exit' = [exit EXCEPT ![t] = TRUE]
  /\ Goto(t, IF held[t] THEN "close" ELSE Stopped(t))
  /\ UNCHANGED <<main, closing, connecting, transport, keys, opened, starting, why, held,
                 environment>>

CloseChannel(t) == channel' = [channel EXCEPT ![t] = IF @ = "open" THEN "closed" ELSE @]

\* If the channel was forgotten in between, the call raises; the loop ignores that, and
\* the end of the thread is its end all the same.
CloseSelf(t) ==
  /\ pc[t] = "close"
  /\ IF held[t] THEN CloseChannel(t) /\ Goto(t, "forget")
     ELSE UNCHANGED channel /\ Goto(t, Stopped(t))
  /\ UNCHANGED <<main, closing, connecting, transport, keys, opened, starting, why, exit, held,
                 inbox>>

ForgetSelf(t) ==
  /\ pc[t] = "forget"
  /\ held' = [held EXCEPT ![t] = FALSE]
  /\ Goto(t, Stopped(t))
  /\ UNCHANGED <<main, closing, connecting, transport, keys, opened, starting, why, exit,
                 environment>>

-----------------------------------------------------------------------------
(* The stop of the proxy. *)

BeginClose(caller) == main' = "check" /\ at' = 1 /\ pass' = caller
EndClose == main' = (IF pass = "proxy" THEN "client" ELSE "container") /\ at' = 0 /\ pass' = "none"

Stop ==
  /\ main = "stop"
  /\ BeginClose("proxy")
  /\ UNCHANGED <<cut, connecting, transport, keys, opened, starting, thread, environment>>

\* Mutant of StopThread: the channel is closed and the thread is not told to exit.
StopThreadChannelOnly ==
  /\ main = "check" /\ at <= opened
  /\ IF held[at] THEN main' = "close" /\ UNCHANGED at
     ELSE at' = at + 1 /\ UNCHANGED main
  /\ UNCHANGED <<pass, cut, connecting, transport, keys, opened, starting, thread, environment>>

\* The threads in the order of their list, those that come while the loop runs included.
StopThread ==
  /\ main = "check" /\ at <= opened
  /\ exit' = [exit EXCEPT ![at] = TRUE]
  /\ IF held[at] THEN main' = "close" /\ UNCHANGED at
     ELSE at' = at + 1 /\ UNCHANGED main
  /\ UNCHANGED <<pass, cut, connecting, transport, keys, opened, starting, pc, why, held,
                 environment>>

\* A thread that forgot its channel in between makes the call raise, and close() is left: the
\* threads after it are not stopped, the keys are kept.
CloseThread ==
  /\ main = "close"
  /\ IF held[at]
     THEN CloseChannel(at) /\ main' = "forget" /\ UNCHANGED closing
     ELSE EndClose /\ cut' = cut \cup {pass} /\ UNCHANGED channel
  /\ UNCHANGED <<connecting, transport, keys, opened, starting, thread, inbox>>

ForgetThread ==
  /\ main = "forget"
  /\ held' = [held EXCEPT ![at] = FALSE]
  /\ main' = "check" /\ at' = at + 1
  /\ UNCHANGED <<pass, cut, connecting, transport, keys, opened, starting, pc, why, exit,
                 environment>>

ForgetKeys ==
  /\ main = "check" /\ at > opened
  /\ keys' = FALSE
  /\ EndClose
  /\ UNCHANGED <<cut, connecting, transport, opened, starting, thread, environment>>

\* The ssh client joins the transport thread, whose channels are closed; then it closes the
\* agent, if it has been connected.
CloseClient ==
  /\ main = "client" /\ starting = 0
  /\ IF transport = "none"
     THEN main' = "container" /\ UNCHANGED <<at, pass, transport, channel>>
     ELSE BeginClose("client") /\ transport' = "down" /\ AllClosed
  /\ UNCHANGED <<cut, connecting, keys, opened, starting, thread, inbox>>

\* A removal that docker refuses is logged.
RemoveContainer ==
  /\ main = "container"
  /\ main' = "done"
  /\ UNCHANGED <<closing, connecting, transport, keys, opened, starting, thread, environment>>

-----------------------------------------------------------------------------
Main ==
  \/ StartContainer \/ TryConnect \/ GiveUp \/ OpenSession \/ Use
  \/ Stop \/ StopThread \/ CloseThread \/ ForgetThread \/ ForgetKeys \/ CloseClient
  \/ RemoveContainer

Run(t) ==
  \/ Poll(t) \/ AnswerRequest(t) \/ StopSelf(t) \/ CloseSelf(t) \/ ForgetSelf(t)

Remote == LoseConnection \/ AppendThread \/ \E t \in Threads : Request(t) \/ EndChannel(t)

Next == Main \/ StartThread \/ Remote \/ \E t \in Threads : Run(t)
Spec == Init /\ [][Next]_vars

\* The threads of the process are scheduled; the container owes nothing.
FairSpec ==
  /\ Spec
  /\ WF_vars(Main) /\ WF_vars(StartThread)
  /\ \A t \in Threads : WF_vars(Run(t))

-----------------------------------------------------------------------------
(* Properties. *)

\* The proxy comes to its end, however the container connects, opens channels and ends them;
\* and with it end all connection threads, which would otherwise keep the process from
\* exiting, and the keys are forgotten, which threads and channels opened late would find.
\* A task whose cleanup does not reach the agent leaves both.  A thread that stops itself
\* may make a call of close() raise: the second one then leaves threads, and only when both
\* raise are keys left (CustomSSHAgent.close).
AgentEnds ==
  <>(\/ main = "gone"
     \/ /\ main = "done"
        /\ "client" \in cut \/ \A t \in Threads : pc[t] \in {"none", "ended"}
        /\ transport # "none" /\ keys => cut = {"proxy", "client"})

=============================================================================
