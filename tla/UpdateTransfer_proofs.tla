------------------------- MODULE UpdateTransfer_proofs -------------------------
(***************************************************************************)
(* The update table, its request and its staging file agree, for any       *)
(* peers, components, versions and package sizes.                          *)
(***************************************************************************)
EXTENDS UpdateTransfer, TLAPS

\* A manifest is asked for, or a download runs, never both.
Exclusive == up => requested = Nothing \/ pending = Nothing

\* The inductive invariant. That a request is out for the table needs the two entries
\* to exclude each other; that the file tracks the download needs the request to be the
\* one of this download.
IInv == TypeOK /\ OneRequestOut /\ FileTracksProgress /\ Exclusive

LEMMA ConstantFacts ==
  /\ Agent \in Components
  /\ MaxVersion \in Nat /\ Size \in Nat \ {0} /\ MaxUpdates \in Nat
  /\ Nothing \notin Request /\ Nothing \notin Download /\ Nothing \notin File
BY TransferAssumptions DEF TransferAssumptions

LEMMA InitIInv == Init => IInv
<1> SUFFICES ASSUME Init PROVE IInv
  OBVIOUS
<1>1. TypeOK
  <2>1. ignored \in BOOLEAN
    BY DEF Init
  <2> QED
    BY <2>1, ConstantFacts DEF Init, TypeOK
<1>2. OneRequestOut /\ FileTracksProgress /\ Exclusive
  BY DEF Init, OneRequestOut, Awaited, FileTracksProgress, Exclusive
<1> QED
  BY <1>1, <1>2 DEF IInv

\* The request of an entry of the table is a message.
LEMMA ManifestMessageType ==
  ASSUME NEW p \in Peers, NEW c \in Components
  PROVE  ManifestMessage(p, c) \in Message /\ ManifestMessage(p, c).kind = "manifest"
<1>1. 0 \in 0..MaxVersion /\ 0 \in 0..Size
  BY ConstantFacts
<1> QED
  BY <1>1 DEF ManifestMessage, Message

LEMMA ChunkMessageType ==
  ASSUME NEW d \in Download
  PROVE  ChunkMessage(d) \in Message /\ ChunkMessage(d).kind = "chunk"
<1>1. /\ d.path.peer \in Peers /\ d.path.component \in Components
      /\ d.path.version \in Versions /\ d.received \in 0..(Size - 1)
  BY DEF Download, Paths
<1>2. d.path.version \in 0..MaxVersion /\ d.received \in 0..Size
  BY <1>1, ConstantFacts DEF Versions
<1> QED
  BY <1>1, <1>2 DEF ChunkMessage, Message

\* What is asked for while the Agent runs.
LEMMA Asked ==
  ASSUME IInv, up, NEW m \in wire
  PROVE  /\ wire = {m} /\ ~ignored
         /\ m.kind = "manifest" => /\ requested \in Request /\ pending = Nothing
                                   /\ m.component = requested.component
                                   /\ m.peer = requested.peer
         /\ m.kind = "chunk" => /\ requested = Nothing /\ pending \in Download
                                /\ m = ChunkMessage(pending)
<1>0. ~ignored /\ wire = Awaited
  BY DEF IInv, OneRequestOut
<1>1. CASE requested # Nothing
  <2>1. requested \in Request /\ pending = Nothing
    BY <1>1 DEF IInv, TypeOK, Exclusive
  <2>2. requested.peer \in Peers /\ requested.component \in Components
    BY <2>1 DEF Request
  <2>3. m = ManifestMessage(requested.peer, requested.component) /\ wire = {m}
    BY <1>0, <1>1 DEF Awaited
  <2>4. m.kind = "manifest" /\ m.component = requested.component /\ m.peer = requested.peer
    BY <2>3 DEF ManifestMessage
  <2> QED
    BY <1>0, <2>1, <2>3, <2>4
<1>2. CASE requested = Nothing
  <2>1. pending # Nothing /\ pending \in Download
    BY <1>0, <1>2 DEF IInv, TypeOK, Awaited
  <2>2. m = ChunkMessage(pending) /\ wire = {m}
    BY <1>0, <1>2, <2>1 DEF Awaited
  <2>3. m.kind = "chunk"
    BY <2>1, <2>2, ChunkMessageType
  <2> QED
    BY <1>0, <1>2, <2>1, <2>2, <2>3
<1> QED
  BY <1>0, <1>1, <1>2

\* An update begins.
LEMMA BeginIInv ==
  ASSUME IInv, NEW p \in Peers, NEW c \in Components, NEW apply \in BOOLEAN,
         Begin(p, c, apply)
  PROVE  IInv'
<1>1. requested' \in Request /\ requested' # Nothing
  BY ConstantFacts DEF Begin, Request
<1>2. requested'.peer = p /\ requested'.component = c
  BY DEF Begin
<1>3. wire = {} /\ ~ignored /\ ~ignored'
  BY DEF Begin, Idle, IInv, OneRequestOut, Awaited
<1>4. wire' = {ManifestMessage(p, c)} /\ pending' = Nothing /\ pending = Nothing
  BY <1>3 DEF Begin, Idle
<1>5. updates' \in 0..MaxUpdates
  BY ConstantFacts DEF Begin, IInv, TypeOK
<1>6. TypeOK'
  BY <1>1, <1>4, <1>5, ManifestMessageType DEF Begin, IInv, TypeOK
<1>7. OneRequestOut' /\ FileTracksProgress' /\ Exclusive'
  BY <1>1, <1>2, <1>3, <1>4 DEF OneRequestOut, Awaited, FileTracksProgress, Exclusive
<1> QED
  BY <1>6, <1>7 DEF IInv

\* An answer ends the update, whatever happens to the staging file.
LEMMA EndedIInv ==
  ASSUME IInv, up, NEW m \in wire, Ended(m),
         files' \in [Paths -> File \cup {Nothing}], ready' \subseteq Paths,
         applied' \in [path : Paths, file : File] \cup {Nothing}, up' \in BOOLEAN,
         UNCHANGED <<running, trusted, shared, updates, ignored>>
  PROVE  IInv'
<1>1. requested' = Nothing /\ pending' = Nothing /\ wire' = {} /\ ~ignored'
  BY Asked DEF Ended
<1>2. TypeOK'
  BY <1>1 DEF IInv, TypeOK
<1>3. OneRequestOut' /\ FileTracksProgress' /\ Exclusive'
  BY <1>1 DEF OneRequestOut, Awaited, FileTracksProgress, Exclusive
<1> QED
  BY <1>2, <1>3 DEF IInv

\* The download goes on with one more request.
LEMMA AskedNext ==
  ASSUME IInv, up, NEW m \in wire, NEW d \in Download,
         requested' = Nothing, pending' = d, wire' = (wire \ {m}) \cup {ChunkMessage(d)},
         files' \in [Paths -> File \cup {Nothing}],
         files'[d.path] # Nothing, files'[d.path].length = d.received,
         UNCHANGED <<up, running, trusted, ready, applied, shared, updates, ignored>>
  PROVE  IInv'
<1>1. wire' = {ChunkMessage(d)} /\ ~ignored'
  BY Asked
<1>2. d # Nothing
  BY ConstantFacts
<1>3. TypeOK'
  BY <1>1, ChunkMessageType DEF IInv, TypeOK
<1>4. OneRequestOut' /\ FileTracksProgress' /\ Exclusive'
  BY <1>1, <1>2 DEF OneRequestOut, Awaited, FileTracksProgress, Exclusive
<1> QED
  BY <1>3, <1>4 DEF IInv

LEMMA ManifestIInv ==
  ASSUME IInv, up, NEW m \in wire, ManifestAnswered(m)
  PROVE  IInv'
<1> DEFINE v == shared[m.peer][m.component]
           f == [component |-> m.component, version |-> v, peer |-> m.peer]
           d == [path |-> f, received |-> 0, apply |-> requested.apply]
<1>1. m.peer \in Peers /\ m.component \in Components
  BY DEF IInv, TypeOK, Message
<1>2. v \in Versions
  <2>1. v \in 0..MaxVersion /\ v # 0
    BY <1>1 DEF IInv, TypeOK, ManifestAnswered
  <2> HIDE DEF v
  <2> QED
    BY <2>1, ConstantFacts DEF Versions
<1>3. requested.apply \in BOOLEAN
  BY Asked DEF ManifestAnswered, Request
<1>4. f \in Paths
  BY <1>1, <1>2 DEF Paths
<1>5. 0 \in 0..(Size - 1) /\ 0 \in 0..Size
  BY ConstantFacts
<1>6. d \in Download /\ d.path = f /\ d.received = 0
  BY <1>3, <1>4, <1>5 DEF Download
<1>7. Emptied(f) \in File /\ Emptied(f).length = 0
  BY <1>5 DEF Emptied, File
<1>8. /\ requested' = Nothing /\ pending' = d /\ wire' = (wire \ {m}) \cup {ChunkMessage(d)}
      /\ files' = [files EXCEPT ![f] = Emptied(f)]
      /\ UNCHANGED <<up, running, trusted, ready, applied, shared, updates, ignored>>
  BY DEF ManifestAnswered
<1> HIDE DEF v, f, d
<1>9. /\ files' \in [Paths -> File \cup {Nothing}] /\ files'[f] = Emptied(f)
  BY <1>4, <1>7, <1>8 DEF IInv, TypeOK
<1>10. Emptied(f) # Nothing
  BY <1>7, ConstantFacts
<1> QED
  BY <1>6, <1>7, <1>8, <1>9, <1>10, AskedNext

\* The staging file of the download, and the file after a chunk.
LEMMA ChunkFacts ==
  ASSUME IInv, up, NEW m \in wire, m.kind = "chunk", NEW sound \in BOOLEAN
  PROVE  /\ pending \in Download /\ pending.path \in Paths /\ requested = Nothing
         /\ Written(files[pending.path], sound) \in File
         /\ Written(files[pending.path], sound).length = pending.received + 1
         /\ Written(files[pending.path], sound) # Nothing
<1>1. pending \in Download /\ requested = Nothing /\ pending # Nothing
  BY Asked, ConstantFacts
<1>2. pending.path \in Paths /\ pending.received \in 0..(Size - 1)
  BY <1>1 DEF Download
<1> DEFINE file == files[pending.path]
<1>3. file \in File /\ file.length = pending.received
  BY <1>1, <1>2 DEF IInv, TypeOK, FileTracksProgress
<1>4. pending.received + 1 \in 0..Size
  BY <1>2, ConstantFacts
<1>5. file.sound \in BOOLEAN
  BY <1>3 DEF File
<1> HIDE DEF file
<1>6. Written(file, sound) \in File /\ Written(file, sound).length = pending.received + 1
  BY <1>3, <1>4, <1>5 DEF Written, File
<1>7. Written(file, sound) # Nothing
  BY <1>6, ConstantFacts
<1> QED
  BY <1>1, <1>2, <1>6, <1>7 DEF file

LEMMA ChunkWrittenIInv ==
  ASSUME IInv, up, NEW m \in wire, NEW sound \in BOOLEAN, ChunkWritten(m, sound)
  PROVE  IInv'
<1> DEFINE d == [pending EXCEPT !.received = @ + 1]
           file == Written(files[pending.path], sound)
<1>1. /\ pending \in Download /\ pending.path \in Paths /\ requested = Nothing
      /\ file \in File /\ file.length = pending.received + 1 /\ file # Nothing
  BY ChunkFacts DEF ChunkWritten
<1>2. pending.received + 1 \in 0..(Size - 1)
  BY <1>1, ConstantFacts DEF ChunkWritten, Download
<1>3. d \in Download /\ d.path = pending.path /\ d.received = pending.received + 1
  BY <1>1, <1>2 DEF Download
<1>4. /\ files' = [files EXCEPT ![d.path] = Written(files[d.path], sound)]
      /\ pending' = d /\ requested' = requested
      /\ wire' = (wire \ {m}) \cup {ChunkMessage(d)}
      /\ UNCHANGED <<up, running, trusted, ready, applied, shared, updates, ignored>>
  BY DEF ChunkWritten
<1> HIDE DEF d
<1>5. files' = [files EXCEPT ![pending.path] = file]
  BY <1>3, <1>4
<1> HIDE DEF file
<1>6. files' \in [Paths -> File \cup {Nothing}] /\ files'[d.path] = file
  BY <1>1, <1>3, <1>5 DEF IInv, TypeOK
<1> QED
  BY <1>1, <1>3, <1>4, <1>6, AskedNext

LEMMA LastChunkIInv ==
  ASSUME IInv, up, NEW m \in wire, NEW sound \in BOOLEAN, LastChunkWritten(m, sound)
  PROVE  IInv'
<1> DEFINE f == pending.path
           file == Written(files[f], sound)
<1>1. f \in Paths /\ file \in File
  BY ChunkFacts DEF LastChunkWritten
<1>2. /\ Ended(m)
      /\ files' = [files EXCEPT ![f] = file] \/ files' = [files EXCEPT ![f] = Nothing]
      /\ ready' = ready \cup {f} \/ ready' = ready
      /\ \/ UNCHANGED <<up, applied>>
         \/ applied' = [path |-> f, file |-> file] /\ up' = FALSE
      /\ UNCHANGED <<running, trusted, shared, updates, ignored>>
  BY DEF LastChunkWritten, HandedOver
<1> HIDE DEF f, file
<1>3. files' \in [Paths -> File \cup {Nothing}]
  BY <1>1, <1>2 DEF IInv, TypeOK
<1>4. ready' \subseteq Paths /\ up' \in BOOLEAN
  BY <1>1, <1>2 DEF IInv, TypeOK
<1>5. applied' \in [path : Paths, file : File] \cup {Nothing}
  <2>1. applied \in [path : Paths, file : File] \cup {Nothing}
    BY DEF IInv, TypeOK
  <2>2. [path |-> f, file |-> file] \in [path : Paths, file : File]
    BY <1>1
  <2>3. applied' = applied \/ applied' = [path |-> f, file |-> file]
    BY <1>2
  <2> QED
    BY <2>1, <2>2, <2>3
<1> QED
  BY <1>2, <1>3, <1>4, <1>5, EndedIInv

\* An ignored answer leaves the entry of the table with nothing out.
LEMMA OtherKindIInv ==
  ASSUME IInv, up, NEW m \in wire, OtherKindAnswered(m)
  PROVE  IInv'
<1>1. wire' = {} /\ ignored' = TRUE
  BY Asked DEF OtherKindAnswered
<1>2. requested # Nothing \/ pending # Nothing
  BY DEF IInv, OneRequestOut, Awaited
<1>3. TypeOK'
  <2>1. ignored' \in BOOLEAN /\ wire' \subseteq Message
    BY <1>1
  <2> QED
    BY <2>1 DEF OtherKindAnswered, IInv, TypeOK
<1>4. OneRequestOut' /\ FileTracksProgress' /\ Exclusive'
  BY <1>1, <1>2 DEF OtherKindAnswered, IInv, OneRequestOut, Idle, FileTracksProgress, Exclusive
<1> QED
  BY <1>3, <1>4 DEF IInv

LEMMA AnswerIInv ==
  ASSUME IInv, NEW m \in wire, Answer(m)
  PROVE  IInv'
<1>1. up
  BY DEF Answer
<1>2. CASE ManifestAnswered(m)
  BY <1>1, <1>2, ManifestIInv
<1>3. CASE \E sound \in BOOLEAN : ChunkWritten(m, sound) \/ LastChunkWritten(m, sound)
  BY <1>1, <1>3, ChunkWrittenIInv, LastChunkIInv
<1>4. CASE ManifestRefused(m) \/ ErrorAnswered(m)
  BY <1>1, <1>4, EndedIInv DEF ManifestRefused, ErrorAnswered, IInv, TypeOK
<1>5. CASE ChunkRefused(m) \/ OutboundFailure(m)
  <2>1. Ended(m) /\ UNCHANGED <<up, running, trusted, ready, applied, shared, updates, ignored>>
    BY <1>5 DEF ChunkRefused, OutboundFailure
  <2>2. files' = files \/ files' = [files EXCEPT ![pending.path] = Nothing]
    BY <1>5 DEF ChunkRefused, OutboundFailure
  <2>3. files' \in [Paths -> File \cup {Nothing}]
    BY <2>2 DEF IInv, TypeOK
  <2> QED
    BY <1>1, <2>1, <2>3, EndedIInv DEF IInv, TypeOK
<1>6. CASE OtherKindAnswered(m)
  BY <1>1, <1>6, OtherKindIInv
<1> QED
  BY <1>2, <1>3, <1>4, <1>5, <1>6 DEF Answer

\* The owner, the peers, and the end and start of the Agent.
LEMMA AroundIInv ==
  ASSUME IInv,
         \/ \E f \in Paths : ApplyUpdate(f)
         \/ \E p \in Peers : TrustChanges(p)
         \/ Stop \/ Restart
         \/ \E p \in Peers, c \in Components, v \in 0..MaxVersion : PeerChanges(p, c, v)
  PROVE  IInv'
<1>1. ASSUME NEW f \in Paths, ApplyUpdate(f) PROVE IInv'
  <2>1. files[f] \in File
    BY <1>1 DEF ApplyUpdate, IInv, TypeOK
  <2>2. applied' \in [path : Paths, file : File] /\ up' = FALSE
    BY <1>1, <2>1 DEF ApplyUpdate, HandedOver
  <2>3. TypeOK'
    BY <1>1, <2>2 DEF ApplyUpdate, IInv, TypeOK
  <2> QED
    BY <2>2, <2>3 DEF IInv, OneRequestOut, Awaited, FileTracksProgress, Exclusive
<1>2. ASSUME NEW p \in Peers, TrustChanges(p) PROVE IInv'
  <2>1. TypeOK'
    BY <1>2 DEF TrustChanges, IInv, TypeOK
  <2> QED
    BY <1>2, <2>1
       DEF TrustChanges, IInv, Idle, OneRequestOut, Awaited, FileTracksProgress, Exclusive
<1>3. CASE Stop
  <2>1. TypeOK' /\ up' = FALSE
    BY <1>3 DEF Stop, IInv, TypeOK
  <2> QED
    BY <2>1 DEF IInv, OneRequestOut, Awaited, FileTracksProgress, Exclusive
<1>4. CASE Restart
  <2>1. applied # Nothing => applied.path.version \in 0..MaxVersion
    <3>1. ASSUME applied # Nothing PROVE applied.path.version \in Versions
      BY <3>1 DEF IInv, TypeOK, Paths
    <3> QED
      BY <3>1, ConstantFacts DEF Versions
  <2>2. running' \in 0..MaxVersion
    BY <1>4, <2>1 DEF Restart, IInv, TypeOK
  <2>3. TypeOK'
    BY <1>4, <2>2 DEF Restart, IInv, TypeOK
  <2> QED
    BY <1>4, <2>3 DEF Restart, IInv, OneRequestOut, Awaited, FileTracksProgress, Exclusive
<1>5. ASSUME NEW p \in Peers, NEW c \in Components, NEW v \in 0..MaxVersion,
             PeerChanges(p, c, v)
      PROVE  IInv'
  <2>1. shared' \in [Peers -> [Components -> 0..MaxVersion]]
    BY <1>5 DEF PeerChanges, IInv, TypeOK
  <2>2. TypeOK'
    BY <1>5, <2>1 DEF PeerChanges, IInv, TypeOK
  <2> QED
    BY <1>5, <2>2 DEF PeerChanges, IInv, Idle, OneRequestOut, Awaited, FileTracksProgress, Exclusive
<1> QED
  BY <1>1, <1>2, <1>3, <1>4, <1>5

---------------------------------------------------------------------------
LEMMA StepIInv == IInv /\ [Next]_vars => IInv'
<1> SUFFICES ASSUME IInv, [Next]_vars PROVE IInv'
  OBVIOUS
<1>1. CASE UNCHANGED vars
  BY <1>1 DEF vars, IInv, TypeOK, Idle, OneRequestOut, Awaited, FileTracksProgress, Exclusive
<1>2. CASE \E p \in Peers, c \in Components, apply \in BOOLEAN : UpdateCommand(p, c, apply)
  BY <1>2, BeginIInv DEF UpdateCommand
<1>3. CASE \E p \in Peers : Identified(p)
  BY <1>3, BeginIInv, ConstantFacts DEF Identified
<1>4. CASE \E m \in wire : Answer(m)
  BY <1>4, AnswerIInv
<1> QED
  BY <1>1, <1>2, <1>3, <1>4, AroundIInv DEF Next

LEMMA Invariant == Spec => []IInv
BY InitIInv, StepIInv, PTL DEF Spec

\* The update table, the staging directory and the wire stay within their types.
THEOREM TypeCorrect == Spec => []TypeOK
<1>1. IInv => TypeOK
  BY DEF IInv
<1> QED
  BY <1>1, Invariant, PTL

\* While the Agent runs, UpdateManager is occupied exactly when one request is out, and
\* the request is the one it waits for, however commands, identify events, answers and
\* failures interleave: never two updates at once, and one that waits for nothing only
\* where an answer of the other kind was ignored, which ends no entry of the table.
THEOREM AlwaysOneRequest == Spec => []OneRequestOut
<1>1. IInv => OneRequestOut
  BY DEF IInv
<1> QED
  BY <1>1, Invariant, PTL

\* The offset asked for next is the length of the staging file, whatever earlier downloads
\* and runs of the Agent left under its name.
THEOREM FileMatchesOffset == Spec => []FileTracksProgress
<1>1. IInv => FileTracksProgress
  BY DEF IInv
<1> QED
  BY <1>1, Invariant, PTL

---------------------------------------------------------------------------
\* An update gets on.

\* What is to come of an active update, by the request that is out.
LEMMA ComesNext ==
  ASSUME IInv, up, NEW m \in wire
  PROVE  /\ ToCome \in 1..(Size + 1)
         /\ m.kind = "manifest" => ToCome = Size + 1
         /\ m.kind = "chunk" => ToCome = Size - pending.received
                                /\ pending.received \in 0..(Size - 1)
<1>1. m.kind \in {"manifest", "chunk"}
  BY DEF IInv, TypeOK, Message
<1>2. CASE m.kind = "manifest"
  <2>1. requested # Nothing
    BY <1>2, Asked, ConstantFacts
  <2> QED
    BY <1>2, <2>1, ConstantFacts DEF ToCome
<1>3. CASE m.kind = "chunk"
  <2>1. requested = Nothing /\ pending # Nothing /\ pending \in Download
    BY <1>3, Asked, ConstantFacts
  <2>2. pending.received \in 0..(Size - 1)
    BY <2>1 DEF Download
  <2> QED
    BY <1>3, <2>1, <2>2, ConstantFacts DEF ToCome
<1> QED
  BY <1>1, <1>2, <1>3

\* An answer ends the update, moves it on by one, or is ignored.
LEMMA AnswerAdvances ==
  ASSUME IInv, NEW m \in wire, Answer(m), ~OtherKindAnswered(m)
  PROVE  ToCome' \in 0..(ToCome - 1)
<1>1. up /\ ToCome \in 1..(Size + 1)
  BY ComesNext DEF Answer
<1>2. CASE Ended(m)
  <2>1. ToCome' = 0
    BY <1>2 DEF Ended, ToCome
  <2> QED
    BY <1>1, <2>1, ConstantFacts
<1>3. CASE ManifestAnswered(m)
  <2>1. requested' = Nothing /\ pending'.received = 0
    BY <1>3 DEF ManifestAnswered
  <2>2. ToCome = Size + 1
    BY <1>1, <1>3, ComesNext DEF ManifestAnswered
  <2>3. ToCome' \in {Size, 0}
    BY <2>1, ConstantFacts DEF ToCome
  <2> QED
    BY <2>2, <2>3, ConstantFacts
<1>4. ASSUME NEW sound \in BOOLEAN, ChunkWritten(m, sound)
      PROVE  ToCome' \in 0..(ToCome - 1)
  <2>1. pending \in Download /\ requested = Nothing
    BY <1>1, <1>4, ChunkFacts DEF ChunkWritten
  <2>2. ToCome = Size - pending.received /\ pending.received \in 0..(Size - 1)
    BY <1>1, <1>4, ComesNext DEF ChunkWritten
  <2>3. requested' = Nothing /\ pending'.received = pending.received + 1
        /\ pending.received + 1 < Size
    BY <1>4, <2>1 DEF ChunkWritten, Download
  <2>4. ToCome' \in {Size - (pending.received + 1), 0}
    BY <2>3 DEF ToCome
  <2> QED
    BY <2>2, <2>3, <2>4, ConstantFacts
<1> QED
  BY <1>2, <1>3, <1>4
     DEF Answer, ManifestRefused, LastChunkWritten, ChunkRefused, ErrorAnswered, OutboundFailure

\* The peer is asked Size + 1 times at most for one update, whatever it answers and whatever
\* happens beside it; with AlwaysOneRequest and an end to every request, the update ends,
\* unless an answer is of the other kind: that one alone is lost and moves nothing.
THEOREM AlwaysAdvances == Spec => UpdateAdvances
<1> DEFINE Advances == ToCome \in 1..(Size + 1) /\ ToCome' \in 0..(ToCome - 1)
           Lost     == ignored' /\ wire' = {} /\ UNCHANGED <<requested, pending>>
           Goal     == IF wire' = wire THEN UNCHANGED <<requested, pending>>
                       ELSE Advances \/ Lost
<1>1. ASSUME IInv, up, NEW m \in wire, Answer(m), ~OtherKindAnswered(m)
      PROVE  wire' # wire /\ ToCome' \in 0..(ToCome - 1)
  <2>1. ToCome' \in 0..(ToCome - 1)
    BY <1>1, AnswerAdvances
  <2>2. wire = {m}
    BY <1>1, Asked
  <2>3. ASSUME Ended(m) PROVE wire' # wire
    BY <2>2, <2>3 DEF Ended
  <2>4. ASSUME ManifestAnswered(m) PROVE wire' # wire
    <3>1. m.kind = "manifest" /\ wire' = {ChunkMessage(pending')}
      BY <2>2, <2>4 DEF ManifestAnswered
    <3>2. ChunkMessage(pending').kind = "chunk"
      BY DEF ChunkMessage
    <3> QED
      BY <2>2, <3>1, <3>2
  <2>5. ASSUME NEW sound \in BOOLEAN, ChunkWritten(m, sound)
        PROVE  wire' # wire
    <3>1. pending \in Download /\ pending.received \in 0..(Size - 1)
          /\ m = ChunkMessage(pending)
      BY <1>1, <2>5, Asked DEF ChunkWritten, Download
    <3>2. pending'.received = pending.received + 1 /\ wire' = {ChunkMessage(pending')}
      BY <2>2, <2>5, <3>1 DEF ChunkWritten, Download
    <3>3. /\ ChunkMessage(pending).offset = pending.received
          /\ ChunkMessage(pending').offset = pending'.received
      BY DEF ChunkMessage
    <3> QED
      BY <2>2, <3>1, <3>2, <3>3, ConstantFacts
  <2> QED
    BY <1>1, <2>1, <2>3, <2>4, <2>5
       DEF Answer, ManifestRefused, LastChunkWritten, ChunkRefused, ErrorAnswered,
           OutboundFailure
<1>2. ASSUME IInv, up, NEW m \in wire, OtherKindAnswered(m)
      PROVE  Lost
  BY <1>2, Asked DEF OtherKindAnswered
<1>3. ASSUME IInv, up, ~Idle, ~ \E m \in wire : Answer(m), Next
      PROVE  wire' = wire /\ UNCHANGED <<requested, pending>>
  BY <1>3 DEF Next, UpdateCommand, Identified, Begin, ApplyUpdate, TrustChanges, Stop,
              Restart, PeerChanges, Idle
<1>4. ASSUME IInv, up, NEW m \in wire
      PROVE  ToCome \in 1..(Size + 1)
  BY <1>4, ComesNext
<1>5. ASSUME IInv, Next, up, ~Idle PROVE Goal
  <2>1. ASSUME NEW m \in wire, Answer(m) PROVE Goal
    BY <1>1, <1>2, <1>4, <1>5, <2>1
  <2>2. CASE ~ \E m \in wire : Answer(m)
    BY <1>3, <1>5, <2>2
  <2> QED
    BY <2>1, <2>2
<1>6. IInv /\ [Next]_vars =>
        [up /\ ~Idle =>
           IF wire' = wire THEN UNCHANGED <<requested, pending>>
           ELSE \/ ToCome \in 1..(Size + 1) /\ ToCome' \in 0..(ToCome - 1)
                \/ ignored' /\ wire' = {} /\ UNCHANGED <<requested, pending>>]_vars
  BY <1>5
<1> QED
  BY <1>6, Invariant, PTL DEF Spec, UpdateAdvances

=============================================================================
