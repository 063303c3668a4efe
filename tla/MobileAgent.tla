----------------------------- MODULE MobileAgent -----------------------------
(***************************************************************************)
(* The Agent inside the Android app. A foreground service starts it on a   *)
(* thread of its own, samples the phone every ten seconds, and stops it    *)
(* through a channel of commands. The service, its timer and the buttons   *)
(* share the main thread of the app, which handles one message at a time;  *)
(* the Agent's thread runs beside it and, at its end, takes the channel    *)
(* away in one step and the running flag in another.                       *)
(***************************************************************************)
EXTENDS Naturals, Sequences

CONSTANTS
  MaxAgents,    \* bound on the Agents started
  MaxPresses,   \* bound on the owner's uses of the two buttons
  MaxCommands,  \* bound on the commands the owner types
  MaxChanges,   \* bound on the changes of the phone's conditions
  MaxQueue      \* bound on the samples an Agent has not handled

ASSUME MobileAssumptions ==
  {MaxAgents, MaxPresses, MaxCommands, MaxChanges, MaxQueue} \subseteq Nat

VARIABLES
  running,   \* MOBILE_RUNNING
  commands,  \* MOBILE_COMMANDS: the Agent whose channel it is, if there is one
  agents,    \* the thread of each Agent
  service,   \* the service instance
  inbox,     \* messages of the system to the service, on the main thread
  safe,      \* whether the phone's conditions allow contribution now
  presses, typed, changes

vars == <<running, commands, agents, service, inbox, safe, presses, typed, changes>>

Ids == 1..MaxAgents

Commands == {"pause-resources", "resume-resources", "quit"}

\* loop: in run_agent. closing: run_agent has returned, the runtime waits for tasks.
\* cleared: the channel is taken away. gone: the flag too.
Phases == {"unborn", "loop", "closing", "cleared", "gone"}

Agent == [phase : Phases, queue : Seq(Commands), paused : BOOLEAN, busy : BOOLEAN]

\* stopping: stopSelf was called. ticking: environmentTick is posted. timed: startedAt is
\* set, so the session may have lasted for MAX_SESSION_MS.
Service == [there : BOOLEAN, stopping : BOOLEAN, ticking : BOOLEAN, timed : BOOLEAN]

NoService == [there |-> FALSE, stopping |-> FALSE, ticking |-> FALSE, timed |-> FALSE]

Present == IF service.there THEN service ELSE [NoService EXCEPT !.there = TRUE]

---------------------------------------------------------------------------
\* Steps shared by several handlers.

Live == {a \in Ids : agents[a].phase = "loop"}

\* send_mobile_command: nothing happens without a channel, or when its end is closed.
Sent(command) ==
  [a \in Ids |->
     IF a \in commands \cap Live
     THEN [agents[a] EXCEPT !.queue = Append(@, command)] ELSE agents[a]]

\* stopSelf: the system will destroy the instance, once.
StopSelf(s, messages) ==
  /\ service' = [s EXCEPT !.stopping = TRUE]
  /\ inbox' = IF s.stopping THEN messages ELSE Append(messages, "destroy")

---------------------------------------------------------------------------
\* The owner and the phone.

\* startAgent, stopAgent: an intent for the service.
Press(button) ==
  /\ presses < MaxPresses
  /\ presses' = presses + 1
  /\ inbox' = Append(inbox, button)
  /\ UNCHANGED <<running, commands, agents, service, safe, typed, changes>>

\* send: a command typed into the app.
Type(command) ==
  /\ typed < MaxCommands
  /\ typed' = typed + 1
  /\ agents' = Sent(command)
  /\ UNCHANGED <<running, commands, service, inbox, safe, presses, changes>>

\* Battery, charger, temperature or network.
Change ==
  /\ changes < MaxChanges
  /\ changes' = changes + 1
  /\ safe' = ~ safe
  /\ UNCHANGED <<running, commands, agents, service, inbox, presses, typed>>

---------------------------------------------------------------------------
\* The service, on the main thread.

\* Mutant: the timer is set going only for an Agent that was just started.
StartCommandTicksOnce ==
  /\ inbox # <<>> /\ Head(inbox) = "start"
  /\ \/ /\ running
        /\ service' = [Present EXCEPT !.ticking = FALSE]
        /\ inbox' = Tail(inbox)
        /\ UNCHANGED <<running, commands, agents>>
     \/ \E a \in Ids :
          /\ ~ running
          /\ agents[a].phase = "unborn" /\ \A b \in Ids : agents[b].phase = "unborn" => a <= b
          /\ running' = TRUE
          /\ commands' = {a}
          /\ agents' = [agents EXCEPT ![a].phase = "loop"]
          /\ service' = [Present EXCEPT !.ticking = TRUE, !.timed = TRUE]
          /\ inbox' = Tail(inbox)
     \/ /\ ~ running
        /\ commands' = {}
        /\ StopSelf(Present, Tail(inbox))
        /\ UNCHANGED <<running, agents>>
  /\ UNCHANGED <<safe, presses, typed, changes>>

\* onStartCommand, ACTION_START: an Agent that runs, or is still ending, is left alone; else
\* one is started, or the start fails and takes the channel back. The timer starts anew.
StartCommand ==
  /\ inbox # <<>> /\ Head(inbox) = "start"
  /\ \/ /\ running
        /\ service' = [Present EXCEPT !.ticking = TRUE]
        /\ inbox' = Tail(inbox)
        /\ UNCHANGED <<running, commands, agents>>
     \/ \E a \in Ids :
          /\ ~ running
          /\ agents[a].phase = "unborn" /\ \A b \in Ids : agents[b].phase = "unborn" => a <= b
          /\ running' = TRUE
          /\ commands' = {a}
          /\ agents' = [agents EXCEPT ![a].phase = "loop"]
          /\ service' = [Present EXCEPT !.ticking = TRUE, !.timed = TRUE]
          /\ inbox' = Tail(inbox)
     \/ /\ ~ running
        /\ commands' = {}
        /\ StopSelf(Present, Tail(inbox))
        /\ UNCHANGED <<running, agents>>
  /\ UNCHANGED <<safe, presses, typed, changes>>

\* Mutant: stopping counts as stopped at once.
StopCommandClearsFlag ==
  /\ inbox # <<>> /\ Head(inbox) = "stop"
  /\ agents' = Sent("quit")
  /\ running' = FALSE
  /\ StopSelf(Present, Tail(inbox))
  /\ UNCHANGED <<commands, safe, presses, typed, changes>>

\* onStartCommand, ACTION_STOP.
StopCommand ==
  /\ inbox # <<>> /\ Head(inbox) = "stop"
  /\ agents' = Sent("quit")
  /\ StopSelf(Present, Tail(inbox))
  /\ UNCHANGED <<running, commands, safe, presses, typed, changes>>

\* Mutant: the Agent is left to the stop command that came before.
DestroyLeavesAgent ==
  /\ inbox # <<>> /\ Head(inbox) = "destroy"
  /\ service' = NoService
  /\ inbox' = Tail(inbox)
  /\ UNCHANGED <<running, commands, agents, safe, presses, typed, changes>>

\* onDestroy.
Destroy ==
  /\ inbox # <<>> /\ Head(inbox) = "destroy"
  /\ agents' = Sent("quit")
  /\ service' = NoService
  /\ inbox' = Tail(inbox)
  /\ UNCHANGED <<running, commands, safe, presses, typed, changes>>

\* updateEnvironment: the sample is sent whatever was sent before.
Tick ==
  /\ service.ticking
  /\ \A a \in commands : Len(agents[a].queue) < MaxQueue
  /\ agents' = Sent(IF safe THEN "resume-resources" ELSE "pause-resources")
  /\ UNCHANGED <<running, commands, service, inbox, safe, presses, typed, changes>>

\* The tick that finds the session has lasted long enough.
LastTick ==
  /\ service.ticking /\ service.timed
  /\ agents' =
       [a \in Ids |->
          IF a \in commands \cap Live
          THEN [agents[a] EXCEPT !.queue =
                  @ \o <<IF safe THEN "resume-resources" ELSE "pause-resources", "quit">>]
          ELSE agents[a]]
  /\ StopSelf([service EXCEPT !.ticking = FALSE], inbox)
  /\ UNCHANGED <<running, commands, safe, presses, typed, changes>>

---------------------------------------------------------------------------
\* The Agent's thread.

OnThread == UNCHANGED <<service, inbox, safe, presses, typed, changes>>

\* handle_command. Receiving ends with the loop: what is still queued is lost.
Receive(a) ==
  /\ agents[a].phase = "loop"
  /\ agents[a].queue # <<>>
  /\ LET command == Head(agents[a].queue)
     IN  agents' =
           IF command = "quit"
           THEN [agents EXCEPT ![a].phase = "closing", ![a].queue = <<>>]
           ELSE [agents EXCEPT ![a].queue = Tail(@), ![a].paused = (command = "pause-resources")]
  /\ UNCHANGED <<running, commands>> /\ OnThread

\* run_agent ends with an error.
AgentFails(a) ==
  /\ agents[a].phase = "loop"
  /\ agents' = [agents EXCEPT ![a].phase = "closing", ![a].queue = <<>>]
  /\ UNCHANGED <<running, commands>> /\ OnThread

\* An inbound task is taken, unless contribution is paused.
TaskStarts(a) ==
  /\ agents[a].phase = "loop"
  /\ ~ agents[a].paused
  /\ ~ agents[a].busy
  /\ agents' = [agents EXCEPT ![a].busy = TRUE]
  /\ UNCHANGED <<running, commands>> /\ OnThread

TaskEnds(a) ==
  /\ agents[a].busy
  /\ agents' = [agents EXCEPT ![a].busy = FALSE]
  /\ UNCHANGED <<running, commands>> /\ OnThread

\* The runtime is dropped, once its blocking tasks are over, and the channel is taken away.
ChannelGoes(a) ==
  /\ agents[a].phase = "closing"
  /\ ~ agents[a].busy
  /\ agents' = [agents EXCEPT ![a].phase = "cleared"]
  /\ commands' = {}
  /\ UNCHANGED running
  /\ OnThread

\* The flag falls last.
FlagFalls(a) ==
  /\ agents[a].phase = "cleared"
  /\ agents' = [agents EXCEPT ![a].phase = "gone"]
  /\ running' = FALSE
  /\ UNCHANGED commands
  /\ OnThread

---------------------------------------------------------------------------
Init ==
  /\ running = FALSE
  /\ commands = {}
  /\ agents = [a \in Ids |-> [phase |-> "unborn", queue |-> <<>>, paused |-> FALSE, busy |-> FALSE]]
  /\ service = NoService
  /\ inbox = <<>>
  /\ safe \in BOOLEAN
  /\ presses = 0 /\ typed = 0 /\ changes = 0

Handle == StartCommand \/ StopCommand \/ Destroy

Next ==
  \/ \E button \in {"start", "stop"} : Press(button)
  \/ \E command \in Commands : Type(command)
  \/ Change
  \/ StartCommand
  \/ StopCommand
  \/ Destroy
  \/ Tick
  \/ LastTick
  \/ \E a \in Ids : Receive(a)
  \/ \E a \in Ids : AgentFails(a)
  \/ \E a \in Ids : TaskStarts(a)
  \/ \E a \in Ids : TaskEnds(a)
  \/ \E a \in Ids : ChannelGoes(a)
  \/ \E a \in Ids : FlagFalls(a)

Spec == Init /\ [][Next]_vars

\* The main thread handles its messages and its timer, an Agent the commands sent to it; a
\* task is a bounded computation. Nothing is asked of the owner, the phone and the peers.
FairSpec ==
  /\ Spec
  /\ WF_vars(Handle)
  /\ WF_vars(Tick)
  /\ \A a \in Ids :
       WF_vars(Receive(a)) /\ WF_vars(TaskEnds(a)) /\ WF_vars(ChannelGoes(a)) /\ WF_vars(FlagFalls(a))

---------------------------------------------------------------------------
\* Properties.

\* The values the state takes.
TypeOK ==
  /\ running \in BOOLEAN /\ safe \in BOOLEAN
  /\ commands \in SUBSET Ids
  /\ agents \in [Ids -> Agent]
  /\ service \in Service
  /\ inbox \in Seq({"start", "stop", "destroy"})
  /\ presses \in Nat /\ typed \in Nat /\ changes \in Nat

\* "mobile agent is already running": there is never a second Agent on the phone, and the
\* one that runs can be stopped. The thread that ends takes away whatever channel and flag
\* it finds, at a time of its own.
OneReachableAgent ==
  LET Ending == {a \in Ids : agents[a].phase \in {"closing", "cleared"}}
  IN  /\ \A a, b \in Live \cup Ending : a = b
      /\ \A a \in Live \cup Ending : running
      /\ \A a \in Live : commands = {a}

\* The message is one of those that wait.
Waits(message, messages) == \E i \in 1..Len(messages) : messages[i] = message

\* What the two properties below rest on: an Agent in its loop has been told to quit, or
\* its service is there with the timer going, and once it is stopping, the message that
\* makes onDestroy send quit is waiting. Neither a press of the owner while the session
\* ends nor a late start leaves an Agent behind that nothing will ever stop or pause.
NeverForgotten ==
  \A a \in Live :
    \/ Waits("quit", agents[a].queue)
    \/ /\ service.there /\ service.ticking
       /\ service.stopping => Waits("destroy", inbox)

\* "Tap Stop agent to end it": an Agent whose service is stopped, however the session
\* ended and whatever the owner pressed meanwhile, leaves its loop.
SessionEnds ==
  \A a \in Ids :
    (a \in Live /\ (service.stopping \/ ~ service.there)) ~> a \notin Live

\* "pauses contribution outside safe conditions": if the conditions stay unsafe during a
\* session, the Agent pauses, whatever the owner has typed or pressed.
PhonePauses ==
  \A a \in Ids :
    (a \in Live /\ service.there /\ ~ safe)
      ~> (agents[a].paused \/ a \notin Live \/ ~ service.there \/ safe)

=============================================================================
