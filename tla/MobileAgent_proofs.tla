----------------------------- MODULE MobileAgent_proofs -----------------------------
(***************************************************************************)
(* One Agent at a time, and always within reach of the stop button, for    *)
(* any number of Agents, presses, commands and changes.                    *)
(***************************************************************************)
EXTENDS MobileAgent, TLAPS

\* The thread of a is there.
Alive(a) == agents[a].phase \in {"loop", "closing", "cleared"}

\* The invariant, in the terms of its proof: it is inductive with the types.
OneAlive ==
  /\ \A a, b \in Ids : Alive(a) /\ Alive(b) => a = b
  /\ \A a \in Ids : Alive(a) => running
  /\ \A a \in Ids : agents[a].phase = "loop" => commands = {a}

IInv == TypeOK /\ OneAlive

---------------------------------------------------------------------------
\* Sending a command changes queues only.
LEMMA SentFacts ==
  ASSUME TypeOK, NEW command \in Commands
  PROVE  /\ Sent(command) \in [Ids -> Agent]
         /\ \A a \in Ids : Sent(command)[a].phase = agents[a].phase
<1>1. \A a \in Ids : [agents[a] EXCEPT !.queue = Append(@, command)] \in Agent
  <2> SUFFICES ASSUME NEW a \in Ids
               PROVE  [agents[a] EXCEPT !.queue = Append(@, command)] \in Agent
    OBVIOUS
  <2>1. agents[a] \in Agent /\ agents[a].queue \in Seq(Commands)
    BY DEF TypeOK, Agent
  <2>2. Append(agents[a].queue, command) \in Seq(Commands)
    BY <2>1
  <2> QED
    BY <2>1, <2>2 DEF Agent
<1>2. \A a \in Ids : agents[a] \in Agent
  BY DEF TypeOK
<1>3. \A a \in Ids :
        Sent(command)[a] = IF a \in commands \cap Live
                           THEN [agents[a] EXCEPT !.queue = Append(@, command)] ELSE agents[a]
  BY DEF Sent
<1>4. \A a \in Ids : Sent(command)[a] \in Agent
  BY <1>1, <1>2, <1>3
<1>5. \A a \in Ids : [agents[a] EXCEPT !.queue = Append(@, command)].phase = agents[a].phase
  BY <1>2 DEF Agent
<1>6. Sent(command) \in [Ids -> Agent]
  BY <1>4 DEF Sent
<1> QED
  BY <1>3, <1>5, <1>6

\* An instance that is told to stop, and its message.
LEMMA StopSelfFacts ==
  ASSUME NEW s \in Service, NEW messages \in Seq({"start", "stop", "destroy"}),
         StopSelf(s, messages)
  PROVE  service' \in Service /\ inbox' \in Seq({"start", "stop", "destroy"})
<1>1. service' = [s EXCEPT !.stopping = TRUE]
  BY DEF StopSelf
<1>2. service' \in Service
  BY <1>1 DEF Service
<1>3. inbox' = messages \/ inbox' = Append(messages, "destroy")
  BY DEF StopSelf
<1>4. Append(messages, "destroy") \in Seq({"start", "stop", "destroy"})
  OBVIOUS
<1> QED
  BY <1>2, <1>3, <1>4

LEMMA PresentFacts ==
  ASSUME TypeOK
  PROVE  Present \in Service
BY DEF TypeOK, Present, NoService, Service

\* The rest of the messages.
LEMMA InboxFacts ==
  ASSUME TypeOK, inbox # <<>>
  PROVE  Tail(inbox) \in Seq({"start", "stop", "destroy"})
BY DEF TypeOK

\* Steps that leave the phases, the channel and the flag alone keep what OneAlive says.
LEMMA SamePhases ==
  ASSUME OneAlive, \A a \in Ids : agents'[a].phase = agents[a].phase, UNCHANGED <<running, commands>>
  PROVE  OneAlive'
BY DEF OneAlive, Alive

\* One thread goes on, to a place nearer its end.
LEMMA OneThread ==
  ASSUME IInv, NEW a \in Ids, NEW q \in Agent, agents' = [agents EXCEPT ![a] = q], OnThread
  PROVE  /\ (running' \in BOOLEAN /\ commands' \in SUBSET Ids) => TypeOK'
         /\ \A b \in Ids : agents'[b] = IF b = a THEN q ELSE agents[b]
<1>1. agents \in [Ids -> Agent]
  BY DEF IInv, TypeOK
<1>2. agents' \in [Ids -> Agent]
  BY <1>1
<1> QED
  BY <1>1, <1>2 DEF IInv, TypeOK, OnThread

\* What IInv says of one thread.
LEMMA ThreadTyped ==
  ASSUME IInv, NEW a \in Ids
  PROVE  /\ agents[a] \in Agent /\ agents[a].phase \in Phases
         /\ agents[a].queue \in Seq(Commands) /\ agents[a].paused \in BOOLEAN
         /\ agents[a].busy \in BOOLEAN /\ running \in BOOLEAN /\ commands \in SUBSET Ids
BY DEF IInv, TypeOK, Agent

---------------------------------------------------------------------------
\* The steps.

LEMMA PressIInv ==
  ASSUME IInv, NEW button \in {"start", "stop"}, Press(button)
  PROVE  IInv'
<1>1. inbox' \in Seq({"start", "stop", "destroy"})
  BY DEF IInv, TypeOK, Press
<1>2. TypeOK'
  BY <1>1 DEF IInv, TypeOK, Press
<1>3. OneAlive'
  BY SamePhases DEF IInv, Press
<1> QED
  BY <1>2, <1>3 DEF IInv

LEMMA TypeIInv ==
  ASSUME IInv, NEW command \in Commands, Type(command)
  PROVE  IInv'
<1>1. /\ agents' \in [Ids -> Agent] /\ \A a \in Ids : agents'[a].phase = agents[a].phase
  BY SentFacts DEF IInv, Type
<1>2. TypeOK'
  BY <1>1 DEF IInv, TypeOK, Type
<1>3. OneAlive'
  BY <1>1, SamePhases DEF IInv, Type
<1> QED
  BY <1>2, <1>3 DEF IInv

LEMMA ChangeIInv ==
  ASSUME IInv, Change
  PROVE  IInv'
<1>1. TypeOK'
  BY DEF IInv, TypeOK, Change
<1>2. OneAlive'
  BY SamePhases DEF IInv, Change
<1> QED
  BY <1>1, <1>2 DEF IInv

\* A thread is started only when the flag is down, and then there is no other.
LEMMA StartCommandIInv ==
  ASSUME IInv, StartCommand
  PROVE  IInv'
<1>1. Tail(inbox) \in Seq({"start", "stop", "destroy"})
  BY InboxFacts DEF IInv, StartCommand
<1>2. Present \in Service
  BY PresentFacts DEF IInv
<1>3. UNCHANGED <<safe, presses, typed, changes>>
  BY DEF StartCommand
<1>4. ASSUME running, service' = [Present EXCEPT !.ticking = TRUE], inbox' = Tail(inbox),
             UNCHANGED <<running, commands, agents>>
      PROVE  IInv'
  <2>1. service' \in Service
    BY <1>2, <1>4 DEF Service
  <2>2. TypeOK'
    BY <1>1, <1>3, <1>4, <2>1 DEF IInv, TypeOK
  <2>3. OneAlive'
    BY <1>4, SamePhases DEF IInv
  <2> QED
    BY <2>2, <2>3 DEF IInv
<1>5. ASSUME NEW a \in Ids, ~ running, running' = TRUE, commands' = {a},
             agents' = [agents EXCEPT ![a].phase = "loop"],
             service' = [Present EXCEPT !.ticking = TRUE, !.timed = TRUE], inbox' = Tail(inbox)
      PROVE  IInv'
  <2>1. service' \in Service
    BY <1>2, <1>5 DEF Service
  <2> DEFINE q == [agents[a] EXCEPT !.phase = "loop"]
  <2>2. agents[a] \in Agent /\ agents \in [Ids -> Agent]
    BY DEF IInv, TypeOK
  <2>3. q \in Agent /\ q.phase = "loop"
    BY <2>2 DEF Agent, Phases
  <2>4. agents' = [agents EXCEPT ![a] = q]
    BY <1>5
  <2> HIDE DEF q
  <2>5. agents' \in [Ids -> Agent] /\ \A b \in Ids : agents'[b] = IF b = a THEN q ELSE agents[b]
    BY <2>2, <2>3, <2>4
  <2>6. TypeOK'
    BY <1>1, <1>3, <1>5, <2>1, <2>5 DEF IInv, TypeOK
  <2>7. \A b \in Ids : ~ Alive(b)
    BY <1>5 DEF IInv, OneAlive
  <2>8. OneAlive'
    BY <1>5, <2>3, <2>5, <2>7 DEF OneAlive, Alive
  <2> QED
    BY <2>6, <2>8 DEF IInv
<1>6. ASSUME ~ running, commands' = {}, StopSelf(Present, Tail(inbox)), UNCHANGED <<running, agents>>
      PROVE  IInv'
  <2>1. service' \in Service /\ inbox' \in Seq({"start", "stop", "destroy"})
    BY <1>1, <1>2, <1>6, StopSelfFacts
  <2>2. TypeOK'
    BY <1>3, <1>6, <2>1 DEF IInv, TypeOK
  <2>3. \A b \in Ids : ~ Alive(b)
    BY <1>6 DEF IInv, OneAlive
  <2>4. OneAlive'
    BY <1>6, <2>3 DEF OneAlive, Alive
  <2> QED
    BY <2>2, <2>4 DEF IInv
<1> QED
  BY <1>4, <1>5, <1>6 DEF StartCommand

LEMMA StopCommandIInv ==
  ASSUME IInv, StopCommand
  PROVE  IInv'
<1>1. service' \in Service /\ inbox' \in Seq({"start", "stop", "destroy"})
  BY InboxFacts, PresentFacts, StopSelfFacts DEF IInv, StopCommand
<1>2. agents' \in [Ids -> Agent] /\ \A a \in Ids : agents'[a].phase = agents[a].phase
  BY SentFacts DEF IInv, StopCommand, Commands
<1>3. TypeOK'
  BY <1>1, <1>2 DEF IInv, TypeOK, StopCommand
<1>4. OneAlive'
  BY <1>2, SamePhases DEF IInv, StopCommand
<1> QED
  BY <1>3, <1>4 DEF IInv

LEMMA DestroyIInv ==
  ASSUME IInv, Destroy
  PROVE  IInv'
<1>1. inbox' \in Seq({"start", "stop", "destroy"})
  BY InboxFacts DEF IInv, Destroy
<1>2. service' \in Service
  BY DEF Destroy, NoService, Service
<1>3. agents' \in [Ids -> Agent] /\ \A a \in Ids : agents'[a].phase = agents[a].phase
  BY SentFacts DEF IInv, Destroy, Commands
<1>4. TypeOK'
  BY <1>1, <1>2, <1>3 DEF IInv, TypeOK, Destroy
<1>5. OneAlive'
  BY <1>3, SamePhases DEF IInv, Destroy
<1> QED
  BY <1>4, <1>5 DEF IInv

LEMMA TickIInv ==
  ASSUME IInv, Tick
  PROVE  IInv'
<1>1. (IF safe THEN "resume-resources" ELSE "pause-resources") \in Commands
  BY DEF Commands
<1>2. agents' \in [Ids -> Agent] /\ \A a \in Ids : agents'[a].phase = agents[a].phase
  BY <1>1, SentFacts DEF IInv, Tick
<1>3. TypeOK'
  BY <1>2 DEF IInv, TypeOK, Tick
<1>4. OneAlive'
  BY <1>2, SamePhases DEF IInv, Tick
<1> QED
  BY <1>3, <1>4 DEF IInv

LEMMA LastTickIInv ==
  ASSUME IInv, LastTick
  PROVE  IInv'
<1> DEFINE sample == IF safe THEN "resume-resources" ELSE "pause-resources"
           Q(a) == [agents[a] EXCEPT !.queue = @ \o <<sample, "quit">>]
<1>1. sample \in Commands /\ "quit" \in Commands
  BY DEF Commands
<1> HIDE DEF sample
<1>2. \A a \in Ids : Q(a) \in Agent /\ Q(a).phase = agents[a].phase
  <2> SUFFICES ASSUME NEW a \in Ids PROVE Q(a) \in Agent /\ Q(a).phase = agents[a].phase
    OBVIOUS
  <2>1. agents[a] \in Agent /\ agents[a].queue \in Seq(Commands)
    BY ThreadTyped
  <2>2. agents[a].queue \o <<sample, "quit">> \in Seq(Commands)
    BY <1>1, <2>1
  <2> QED
    BY <2>1, <2>2 DEF Agent
<1>3. agents' = [a \in Ids |-> IF a \in commands \cap Live THEN Q(a) ELSE agents[a]]
  BY DEF LastTick, sample
<1>4. \A a \in Ids : agents[a] \in Agent
  BY ThreadTyped
<1> HIDE DEF Q
<1>5. agents' \in [Ids -> Agent] /\ \A a \in Ids : agents'[a].phase = agents[a].phase
  BY <1>2, <1>3, <1>4
<1>6. [service EXCEPT !.ticking = FALSE] \in Service
  BY DEF IInv, TypeOK, Service
<1>7. service' \in Service /\ inbox' \in Seq({"start", "stop", "destroy"})
  BY <1>6, StopSelfFacts DEF LastTick, IInv, TypeOK
<1>8. TypeOK'
  BY <1>5, <1>7 DEF IInv, TypeOK, LastTick
<1>9. OneAlive'
  BY <1>5, SamePhases DEF IInv, LastTick
<1> QED
  BY <1>8, <1>9 DEF IInv

\* A thread whose phase changes from one alive to another stays the only one.
LEMMA StaysAlone ==
  ASSUME IInv, NEW a \in Ids, NEW q \in Agent, agents' = [agents EXCEPT ![a] = q], OnThread,
         Alive(a), UNCHANGED <<running, commands>>,
         q.phase \in {"loop", "closing", "cleared"}, q.phase = "loop" => agents[a].phase = "loop"
  PROVE  IInv'
<1>1. TypeOK' /\ \A b \in Ids : agents'[b] = IF b = a THEN q ELSE agents[b]
  BY OneThread, ThreadTyped
<1>2. OneAlive'
  BY <1>1 DEF IInv, OneAlive, Alive
<1> QED
  BY <1>1, <1>2 DEF IInv

LEMMA ReceiveIInv ==
  ASSUME IInv, NEW a \in Ids, Receive(a)
  PROVE  IInv'
<1> DEFINE o == agents[a]
           command == Head(o.queue)
           q == IF command = "quit" THEN [o EXCEPT !.phase = "closing", !.queue = <<>>]
                ELSE [o EXCEPT !.queue = Tail(@), !.paused = (command = "pause-resources")]
<1>1. o \in Agent /\ o.phase = "loop" /\ o.queue \in Seq(Commands) /\ o.queue # <<>>
  BY ThreadTyped DEF Receive
<1>2. agents' = [agents EXCEPT ![a] = q] /\ UNCHANGED <<running, commands>> /\ OnThread
  BY DEF Receive
<1>3. q \in Agent /\ q.phase \in {"loop", "closing"}
  <2>1. Tail(o.queue) \in Seq(Commands) /\ <<>> \in Seq(Commands)
    BY <1>1
  <2>2. "closing" \in Phases /\ (command = "pause-resources") \in BOOLEAN
    BY DEF Phases
  <2> HIDE DEF o, command
  <2>3. CASE command = "quit"
    BY <1>1, <2>1, <2>2, <2>3 DEF Agent
  <2>4. CASE command # "quit"
    <3> DEFINE pausing == command = "pause-resources"
    <3>1. pausing \in BOOLEAN
      BY <2>2
    <3>2. q = [o EXCEPT !.queue = Tail(o.queue), !.paused = pausing]
      BY <2>4
    <3> HIDE DEF pausing, q
    <3> QED
      BY <1>1, <2>1, <3>1, <3>2 DEF Agent
  <2> QED
    BY <2>3, <2>4
<1>4. Alive(a)
  BY <1>1 DEF Alive
<1> HIDE DEF q
<1> QED
  BY <1>1, <1>2, <1>3, <1>4, StaysAlone

LEMMA AgentFailsIInv ==
  ASSUME IInv, NEW a \in Ids, AgentFails(a)
  PROVE  IInv'
<1> DEFINE q == [agents[a] EXCEPT !.phase = "closing", !.queue = <<>>]
<1>1. agents[a] \in Agent /\ agents[a].phase = "loop"
  BY ThreadTyped DEF AgentFails
<1>2. agents' = [agents EXCEPT ![a] = q] /\ UNCHANGED <<running, commands>> /\ OnThread
  BY DEF AgentFails
<1>3. q \in Agent /\ q.phase = "closing"
  <2>1. "closing" \in Phases /\ <<>> \in Seq(Commands)
    BY DEF Phases
  <2> QED
    BY <1>1, <2>1 DEF Agent
<1>4. Alive(a)
  BY <1>1 DEF Alive
<1> HIDE DEF q
<1> QED
  BY <1>1, <1>2, <1>3, <1>4, StaysAlone

\* A task starts or ends: the phases stay.
LEMMA BusyIInv ==
  ASSUME IInv, NEW a \in Ids, NEW b \in BOOLEAN, agents' = [agents EXCEPT ![a].busy = b],
         UNCHANGED <<running, commands>>, OnThread
  PROVE  IInv'
<1> DEFINE q == [agents[a] EXCEPT !.busy = b]
<1>1. agents[a] \in Agent
  BY ThreadTyped
<1>2. q \in Agent /\ q.phase = agents[a].phase
  BY <1>1 DEF Agent
<1>3. agents' = [agents EXCEPT ![a] = q]
  OBVIOUS
<1> HIDE DEF q
<1>4. TypeOK' /\ \A c \in Ids : agents'[c] = IF c = a THEN q ELSE agents[c]
  BY <1>2, <1>3, OneThread, ThreadTyped
<1>5. OneAlive'
  BY <1>2, <1>4, SamePhases DEF IInv
<1> QED
  BY <1>4, <1>5 DEF IInv

\* Nobody else is there whose channel could go.
LEMMA ChannelGoesIInv ==
  ASSUME IInv, NEW a \in Ids, ChannelGoes(a)
  PROVE  IInv'
<1> DEFINE q == [agents[a] EXCEPT !.phase = "cleared"]
<1>1. agents[a] \in Agent /\ agents[a].phase = "closing"
  BY ThreadTyped DEF ChannelGoes
<1>2. agents' = [agents EXCEPT ![a] = q] /\ commands' = {} /\ running' = running /\ OnThread
  BY DEF ChannelGoes
<1>3. q \in Agent /\ q.phase = "cleared"
  BY <1>1 DEF Agent, Phases
<1> HIDE DEF q
<1>4. TypeOK' /\ \A b \in Ids : agents'[b] = IF b = a THEN q ELSE agents[b]
  BY <1>2, <1>3, OneThread, ThreadTyped
<1>5. OneAlive'
  BY <1>1, <1>2, <1>3, <1>4 DEF IInv, OneAlive, Alive
<1> QED
  BY <1>4, <1>5 DEF IInv

\* Nobody else is there whose flag could fall.
LEMMA FlagFallsIInv ==
  ASSUME IInv, NEW a \in Ids, FlagFalls(a)
  PROVE  IInv'
<1> DEFINE q == [agents[a] EXCEPT !.phase = "gone"]
<1>1. agents[a] \in Agent /\ agents[a].phase = "cleared"
  BY ThreadTyped DEF FlagFalls
<1>2. agents' = [agents EXCEPT ![a] = q] /\ commands' = commands /\ running' = FALSE /\ OnThread
  BY DEF FlagFalls
<1>3. q \in Agent /\ q.phase = "gone"
  BY <1>1 DEF Agent, Phases
<1> HIDE DEF q
<1>4. TypeOK' /\ \A b \in Ids : agents'[b] = IF b = a THEN q ELSE agents[b]
  BY <1>2, <1>3, OneThread, ThreadTyped
<1>5. OneAlive'
  BY <1>1, <1>2, <1>3, <1>4 DEF IInv, OneAlive, Alive
<1> QED
  BY <1>4, <1>5 DEF IInv

---------------------------------------------------------------------------
\* All steps.

LEMMA InitIInv == Init => IInv
<1> SUFFICES ASSUME Init PROVE IInv
  OBVIOUS
<1>1. \A a \in Ids : agents[a].phase = "unborn"
  BY DEF Init
<1>2. agents \in [Ids -> Agent]
  <2>1. "unborn" \in Phases /\ <<>> \in Seq(Commands)
    BY DEF Phases
  <2>2. [phase |-> "unborn", queue |-> <<>>, paused |-> FALSE, busy |-> FALSE] \in Agent
    BY <2>1 DEF Agent
  <2> QED
    BY <2>2 DEF Init
<1>3. TypeOK
  <2>1. service \in Service
    BY DEF Init, NoService, Service
  <2>2. inbox \in Seq({"start", "stop", "destroy"})
    BY DEF Init
  <2> QED
    BY <1>2, <2>1, <2>2 DEF Init, TypeOK
<1>4. OneAlive
  BY <1>1 DEF OneAlive, Alive
<1> QED
  BY <1>3, <1>4 DEF IInv

LEMMA StepIInv == IInv /\ [Next]_vars => IInv'
<1> SUFFICES ASSUME IInv, [Next]_vars PROVE IInv'
  OBVIOUS
<1>1. CASE UNCHANGED vars
  <2>1. TypeOK'
    BY <1>1 DEF IInv, TypeOK, vars
  <2>2. OneAlive'
    BY <1>1, SamePhases DEF IInv, vars
  <2> QED
    BY <2>1, <2>2 DEF IInv
<1>2. ASSUME NEW a \in Ids, TaskStarts(a) \/ TaskEnds(a)
      PROVE  IInv'
  BY <1>2, BusyIInv DEF TaskStarts, TaskEnds
<1>3. CASE Next
  BY <1>2, <1>3, PressIInv, TypeIInv, ChangeIInv, StartCommandIInv, StopCommandIInv, DestroyIInv,
     TickIInv, LastTickIInv, ReceiveIInv, AgentFailsIInv, ChannelGoesIInv, FlagFallsIInv
     DEF Next
<1> QED
  BY <1>1, <1>3

LEMMA Invariant == Spec => []IInv
<1> QED
  BY InitIInv, StepIInv, PTL DEF Spec

---------------------------------------------------------------------------
\* Results.

\* The flag, the channel, the threads, the service and its messages only take the values
\* they are meant to take.
THEOREM TypeCorrect == Spec => []TypeOK
<1>1. IInv => TypeOK
  BY DEF IInv
<1> QED
  BY <1>1, Invariant, PTL

\* start_mobile_agent never starts a second Agent beside one that runs or is still ending,
\* and what the ending thread takes away is never another's: stop_mobile_agent reaches the
\* Agent that runs, however often the owner starts and stops it.
THEOREM AlwaysOneReachable == Spec => []OneReachableAgent
<1>1. IInv => OneReachableAgent
  BY DEF IInv, OneAlive, Alive, OneReachableAgent, Live
<1> QED
  BY <1>1, Invariant, PTL

---------------------------------------------------------------------------
\* Nobody is forgotten.

\* An instance that is stopping will be destroyed.
DestroyWaits == service.stopping => Waits("destroy", inbox)

Kept == IInv /\ DestroyWaits /\ NeverForgotten

\* A message waits behind what is added, and until it is the first.
LEMMA WaitsOn ==
  ASSUME NEW S, NEW q \in Seq(S), NEW m \in S, NEW x \in S
  PROVE  /\ Waits(m, q) => Waits(m, Append(q, x))
         /\ Waits(x, Append(q, x))
         /\ q # <<>> /\ Waits(m, q) /\ Head(q) # m => Waits(m, Tail(q))
<1>1. /\ Append(q, x) \in Seq(S) /\ Len(Append(q, x)) = Len(q) + 1 /\ Len(q) \in Nat
      /\ \A i \in 1..Len(q) : Append(q, x)[i] = q[i]
      /\ Append(q, x)[Len(q) + 1] = x
  OBVIOUS
<1>2. Waits(m, q) => Waits(m, Append(q, x))
  BY <1>1 DEF Waits
<1>3. Waits(x, Append(q, x))
  BY <1>1 DEF Waits
<1>4. ASSUME q # <<>>, NEW i \in 1..Len(q), q[i] = m, Head(q) # m
      PROVE  Waits(m, Tail(q))
  <2>1. Head(q) = q[1] /\ Len(Tail(q)) = Len(q) - 1
        /\ \A k \in 1..(Len(q) - 1) : Tail(q)[k] = q[k + 1]
    BY <1>4
  <2>2. i - 1 \in 1..(Len(q) - 1)
    BY <1>1, <1>4, <2>1
  <2>3. Tail(q)[i - 1] = m
    BY <1>4, <2>1, <2>2
  <2> QED
    BY <2>1, <2>2, <2>3 DEF Waits
<1> QED
  BY <1>2, <1>3, <1>4 DEF Waits

\* A command sent is added to the queue of the Agent in its loop.
LEMMA SentWaits ==
  ASSUME IInv, NEW command \in Commands, NEW a \in Live
  PROVE  /\ Waits(command, Sent(command)[a].queue)
         /\ Waits("quit", agents[a].queue) => Waits("quit", Sent(command)[a].queue)
<1>1. a \in Ids /\ a \in commands
  BY DEF Live, IInv, OneAlive
<1>2. agents[a] \in Agent /\ agents[a].queue \in Seq(Commands)
  BY <1>1, ThreadTyped
<1>3. Sent(command)[a].queue = Append(agents[a].queue, command)
  BY <1>1, <1>2 DEF Sent, Agent
<1>4. "quit" \in Commands
  BY DEF Commands
<1> QED
  BY <1>2, <1>3, <1>4, WaitsOn

\* Messages of the system to the service.
LEMMA InboxWaits ==
  ASSUME IInv, NEW m \in {"start", "stop", "destroy"}
  PROVE  /\ Waits("destroy", inbox) => Waits("destroy", Append(inbox, m))
         /\ inbox # <<>> /\ Head(inbox) # "destroy" /\ Waits("destroy", inbox) =>
              Waits("destroy", Tail(inbox))
<1>1. inbox \in Seq({"start", "stop", "destroy"})
  BY DEF IInv, TypeOK
<1> QED
  BY <1>1, WaitsOn

\* stopSelf leaves a message that will destroy the instance, if none is there yet.
LEMMA StopSelfWaits ==
  ASSUME NEW s \in Service, NEW messages \in Seq({"start", "stop", "destroy"}),
         s.stopping => Waits("destroy", messages), StopSelf(s, messages)
  PROVE  /\ Waits("destroy", inbox')
         /\ service'.there = s.there /\ service'.ticking = s.ticking
<1>1. service' = [s EXCEPT !.stopping = TRUE]
  BY DEF StopSelf
<1>2. service'.there = s.there /\ service'.ticking = s.ticking
  BY <1>1 DEF Service
<1>3. Waits("destroy", Append(messages, "destroy"))
  BY WaitsOn
<1> QED
  BY <1>2, <1>3 DEF StopSelf

\* A step that tells every Agent in its loop to quit.
LEMMA QuitsAll ==
  ASSUME Kept, IInv', DestroyWaits',
         \A a \in Ids : agents'[a].phase = "loop" =>
           Waits("quit", agents'[a].queue)
  PROVE  Kept'
BY DEF Kept, NeverForgotten, Live

\* A step that leaves the service alone, and no Agent in its loop without its quit.
LEMMA LosesNoQuit ==
  ASSUME Kept, IInv', UNCHANGED service, Waits("destroy", inbox) => Waits("destroy", inbox'),
         \A a \in Ids : agents'[a].phase = "loop" =>
           /\ agents[a].phase = "loop"
           /\ Waits("quit", agents[a].queue) => Waits("quit", agents'[a].queue)
  PROVE  Kept'
BY DEF Kept, DestroyWaits, NeverForgotten, Live

\* What Sent leaves of the phases.
LEMMA SentLive ==
  ASSUME IInv, NEW command \in Commands, agents' = Sent(command), NEW a \in Ids
  PROVE  agents'[a].phase = "loop" => a \in Live /\ agents[a].phase = "loop"
BY SentFacts DEF IInv, Live

LEMMA StartCommandKept ==
  ASSUME Kept, StartCommand
  PROVE  Kept'
<1>1. IInv /\ IInv'
  BY StartCommandIInv DEF Kept
<1>2. inbox # <<>> /\ Head(inbox) # "destroy"
  BY DEF StartCommand
<1>3. Waits("destroy", inbox) => Waits("destroy", Tail(inbox))
  BY <1>1, <1>2, InboxWaits
<1>4. Present \in Service /\ Present.there
  BY <1>1, PresentFacts DEF IInv, TypeOK, Present, Service, NoService
<1>5. Present.stopping => Waits("destroy", Tail(inbox))
  BY <1>1, <1>3 DEF Kept, DestroyWaits, Present, NoService
<1>6. ASSUME running, service' = [Present EXCEPT !.ticking = TRUE], inbox' = Tail(inbox),
             UNCHANGED <<running, commands, agents>>
      PROVE  Kept'
  <2>1. service'.there /\ service'.ticking /\ service'.stopping = Present.stopping
    BY <1>4, <1>6 DEF Service
  <2>2. DestroyWaits'
    BY <1>5, <1>6, <2>1 DEF DestroyWaits
  <2> QED
    BY <1>1, <2>1, <2>2 DEF Kept, DestroyWaits, NeverForgotten
<1>7. ASSUME service' = [Present EXCEPT !.ticking = TRUE, !.timed = TRUE], inbox' = Tail(inbox)
      PROVE  Kept'
  <2>1. service'.there /\ service'.ticking /\ service'.stopping = Present.stopping
    BY <1>4, <1>7 DEF Service
  <2>2. DestroyWaits'
    BY <1>5, <1>7, <2>1 DEF DestroyWaits
  <2> QED
    BY <1>1, <2>1, <2>2 DEF Kept, DestroyWaits, NeverForgotten
<1>8. ASSUME ~ running, StopSelf(Present, Tail(inbox)), UNCHANGED <<running, agents>>
      PROVE  Kept'
  <2>1. Tail(inbox) \in Seq({"start", "stop", "destroy"})
    BY <1>1, <1>2, InboxFacts DEF IInv
  <2>2. DestroyWaits'
    BY <1>4, <1>5, <1>8, <2>1, StopSelfWaits DEF DestroyWaits
  <2>3. \A a \in Ids : agents'[a].phase # "loop"
    BY <1>1, <1>8 DEF IInv, OneAlive, Alive
  <2> QED
    BY <1>1, <2>2, <2>3, QuitsAll
<1> QED
  BY <1>6, <1>7, <1>8 DEF StartCommand

LEMMA StopCommandKept ==
  ASSUME Kept, StopCommand
  PROVE  Kept'
<1>1. IInv /\ IInv' /\ "quit" \in Commands
  BY StopCommandIInv DEF Kept, Commands
<1>2. inbox # <<>> /\ Head(inbox) # "destroy"
  BY DEF StopCommand
<1>3. Tail(inbox) \in Seq({"start", "stop", "destroy"})
  BY <1>1, <1>2, InboxFacts DEF IInv
<1>4. Present \in Service /\ (Present.stopping => Waits("destroy", Tail(inbox)))
  BY <1>1, <1>2, InboxWaits, PresentFacts DEF Kept, IInv, DestroyWaits, Present, NoService
<1>5. DestroyWaits'
  BY <1>3, <1>4, StopSelfWaits DEF StopCommand, DestroyWaits
<1>6. \A a \in Ids : agents'[a].phase = "loop" => Waits("quit", agents'[a].queue)
  BY <1>1, SentLive, SentWaits DEF StopCommand
<1> QED
  BY <1>1, <1>5, <1>6, QuitsAll

LEMMA DestroyKept ==
  ASSUME Kept, Destroy
  PROVE  Kept'
<1>1. IInv /\ IInv' /\ "quit" \in Commands
  BY DestroyIInv DEF Kept, Commands
<1>2. DestroyWaits'
  BY DEF Destroy, NoService, DestroyWaits
<1>3. \A a \in Ids : agents'[a].phase = "loop" => Waits("quit", agents'[a].queue)
  BY <1>1, SentLive, SentWaits DEF Destroy
<1> QED
  BY <1>1, <1>2, <1>3, QuitsAll

\* The last tick sends quit after the sample.
LEMMA LastTickKept ==
  ASSUME Kept, LastTick
  PROVE  Kept'
<1>1. IInv /\ IInv'
  BY LastTickIInv DEF Kept
<1>2. inbox \in Seq({"start", "stop", "destroy"}) /\ service \in Service
  BY <1>1 DEF IInv, TypeOK
<1>3. [service EXCEPT !.ticking = FALSE] \in Service
      /\ [service EXCEPT !.ticking = FALSE].stopping = service.stopping
  BY <1>2 DEF Service
<1>4. DestroyWaits'
  BY <1>2, <1>3, StopSelfWaits DEF LastTick, Kept, DestroyWaits
<1>5. ASSUME NEW a \in Ids, agents'[a].phase = "loop"
      PROVE  Waits("quit", agents'[a].queue)
  <2> DEFINE sample == IF safe THEN "resume-resources" ELSE "pause-resources"
             o == agents[a]
  <2>1. o \in Agent /\ o.queue \in Seq(Commands)
    BY <1>1, ThreadTyped
  <2>2. agents'[a] = IF a \in commands \cap Live
                     THEN [o EXCEPT !.queue = @ \o <<sample, "quit">>] ELSE o
    BY DEF LastTick
  <2>3. o.phase = "loop"
    BY <1>5, <2>1, <2>2 DEF Agent
  <2>4. a \in commands \cap Live
    BY <1>1, <2>3 DEF IInv, OneAlive, Live
  <2>5. agents'[a].queue = o.queue \o <<sample, "quit">>
    BY <2>1, <2>2, <2>4 DEF Agent
  <2>6. sample \in Commands /\ "quit" \in Commands
    BY DEF Commands
  <2> HIDE DEF sample, o
  <2>7. /\ Len(o.queue \o <<sample, "quit">>) = Len(o.queue) + 2 /\ Len(o.queue) \in Nat
        /\ (o.queue \o <<sample, "quit">>)[Len(o.queue) + 2] = "quit"
    BY <2>1, <2>6
  <2> QED
    BY <2>5, <2>7 DEF Waits
<1> QED
  BY <1>1, <1>4, <1>5, QuitsAll

\* A thread takes the first command: if that is quit, it leaves its loop.
LEMMA ReceiveKept ==
  ASSUME Kept, NEW a \in Ids, Receive(a)
  PROVE  Kept'
<1>1. IInv /\ IInv' /\ agents \in [Ids -> Agent]
  BY ReceiveIInv DEF Kept, IInv, TypeOK
<1> DEFINE o == agents[a]
<1>2. o \in Agent /\ o.phase = "loop" /\ o.queue \in Seq(Commands) /\ o.queue # <<>>
  BY <1>1, ThreadTyped DEF Receive
<1>3. UNCHANGED <<service, inbox>>
  BY DEF Receive, OnThread
<1>4. \A b \in Ids \ {a} : agents'[b] = agents[b]
  BY <1>1 DEF Receive
<1>5. CASE Head(o.queue) = "quit"
  <2>1. agents' = [agents EXCEPT ![a].phase = "closing", ![a].queue = <<>>]
    BY <1>5 DEF Receive
  <2>2. agents'[a].phase = "closing"
    BY <1>1, <1>2, <2>1 DEF Agent
  <2> QED
    BY <1>1, <1>3, <1>4, <2>2, LosesNoQuit
<1>6. CASE Head(o.queue) # "quit"
  <2>1. agents'[a].queue = Tail(o.queue)
    BY <1>1, <1>2, <1>6 DEF Receive, Agent
  <2>2. "quit" \in Commands
    BY DEF Commands
  <2>3. Waits("quit", o.queue) => Waits("quit", Tail(o.queue))
    BY <1>2, <1>6, <2>2, WaitsOn
  <2> QED
    BY <1>1, <1>2, <1>3, <1>4, <2>1, <2>3, LosesNoQuit
<1> QED
  BY <1>5, <1>6

\* The other steps of a thread take no command away while it is in its loop.
LEMMA ThreadKept ==
  ASSUME Kept, NEW a \in Ids,
         \/ AgentFails(a) \/ TaskStarts(a) \/ TaskEnds(a) \/ ChannelGoes(a) \/ FlagFalls(a)
  PROVE  Kept'
<1>1. IInv /\ agents[a] \in Agent /\ agents \in [Ids -> Agent]
  BY ThreadTyped DEF Kept, IInv, TypeOK
<1>2. IInv'
  BY <1>1, AgentFailsIInv, BusyIInv, ChannelGoesIInv, FlagFallsIInv DEF TaskStarts, TaskEnds
<1>3. UNCHANGED <<service, inbox>>
  BY DEF AgentFails, TaskStarts, TaskEnds, ChannelGoes, FlagFalls, OnThread
<1>4. \A b \in Ids \ {a} : agents'[b] = agents[b]
  BY <1>1 DEF AgentFails, TaskStarts, TaskEnds, ChannelGoes, FlagFalls
<1>5. agents'[a].phase = "loop" => agents[a].phase = "loop" /\ agents'[a].queue = agents[a].queue
  BY <1>1 DEF AgentFails, TaskStarts, TaskEnds, ChannelGoes, FlagFalls, Agent
<1> QED
  BY <1>2, <1>3, <1>4, <1>5, LosesNoQuit

LEMMA SentKept ==
  ASSUME Kept, IInv', UNCHANGED <<service, inbox>>, NEW command \in Commands, agents' = Sent(command)
  PROVE  Kept'
<1>1. \A a \in Ids : agents'[a].phase = "loop" =>
        /\ agents[a].phase = "loop"
        /\ Waits("quit", agents[a].queue) => Waits("quit", agents'[a].queue)
  BY SentLive, SentWaits DEF Kept
<1> QED
  BY <1>1, LosesNoQuit

LEMMA StepKept == Kept /\ [Next]_vars => Kept'
<1> SUFFICES ASSUME Kept, [Next]_vars PROVE Kept'
  OBVIOUS
<1>1. IInv /\ IInv'
  BY StepIInv DEF Kept
<1>2. CASE UNCHANGED vars
  BY <1>1, <1>2, LosesNoQuit DEF vars
<1>3. ASSUME NEW button \in {"start", "stop"}, Press(button)
      PROVE  Kept'
  <2>1. Waits("destroy", inbox) => Waits("destroy", inbox')
    BY <1>1, <1>3, InboxWaits DEF Press
  <2> QED
    BY <1>1, <1>3, <2>1, LosesNoQuit DEF Press
<1>4. ASSUME NEW command \in Commands, Type(command)
      PROVE  Kept'
  BY <1>1, <1>4, SentKept DEF Type
<1>5. CASE Change
  BY <1>1, <1>5, LosesNoQuit DEF Change
<1>6. CASE Tick
  <2>1. (IF safe THEN "resume-resources" ELSE "pause-resources") \in Commands
    BY DEF Commands
  <2> QED
    BY <1>1, <1>6, <2>1, SentKept DEF Tick
<1>7. CASE Next
  BY <1>3, <1>4, <1>5, <1>6, <1>7, StartCommandKept, StopCommandKept, DestroyKept, LastTickKept,
     ReceiveKept, ThreadKept DEF Next
<1> QED
  BY <1>2, <1>7

\* stop_mobile_agent, the last tick and onDestroy between them reach every Agent: one that is
\* in its loop has its quit queued, or a service with a running timer that a stop still
\* finds. With the fairness of the main thread and of the Agent's loop, this is why every
\* session ends and why the phone's conditions are sampled as long as it lasts.
THEOREM NobodyForgotten == Spec => []NeverForgotten
<1>1. Init => Kept
  <2> SUFFICES ASSUME Init PROVE Kept
    OBVIOUS
  <2>1. IInv
    BY InitIInv
  <2>2. Live = {} /\ ~ service.stopping
    BY DEF Init, Live, NoService
  <2> QED
    BY <2>1, <2>2 DEF Kept, DestroyWaits, NeverForgotten
<1>2. Kept => NeverForgotten
  BY DEF Kept
<1> QED
  BY <1>1, <1>2, StepKept, PTL DEF Spec

=============================================================================
