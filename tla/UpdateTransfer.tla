----------------------------- MODULE UpdateTransfer -----------------------------
(***************************************************************************)
(* How an Agent fetches an update from a trusted peer: the signed          *)
(* manifest, then the package chunk by chunk into a staging file, its      *)
(* verification, the READY report, and the hand-over to the updater, after *)
(* which the Agent exits and starts again.                                 *)
(*                                                                         *)
(* One update is active at a time, whatever its component. An answer is of *)
(* the kind asked for, an error, of the other kind (a peer that runs       *)
(* another build), or does not come; what a peer shares changes when it is *)
(* itself updated.                                                         *)
(***************************************************************************)
EXTENDS Naturals

CONSTANTS
  Peers,
  Components,   \* Agent, Debugger, Android
  Agent,        \* the component that is this program
  Versioned,    \* the components that must be newer than the running Agent
  Automatic,    \* the update policy is automatic
  MaxVersion,   \* bound on the versions
  Size,         \* chunks of a package
  MaxUpdates,   \* bound on the updates begun
  Nothing

VARIABLES
  up,           \* the Agent runs
  running,      \* its version
  trusted,
  requested,    \* UpdateManager::requested
  pending,      \* UpdateManager::pending
  wire,         \* requests sent and not answered
  files,        \* the staging directory
  ready,        \* the files reported READY to the owner
  applied,      \* what the updater was last given, as it was then
  shared,       \* the version each peer shares of each component; 0: none
  updates,
  ignored       \* history: an answer of the other kind was ignored in this run

vars == <<up, running, trusted, requested, pending, wire, files, ready, applied,
          shared, updates, ignored>>

Versions == 1..MaxVersion

\* A staging file is named after its component, version and peer.
Paths == [component : Components, version : Versions, peer : Peers]

\* Its length, and whether all its bytes are those of the package.
File == [length : 0..Size, sound : BOOLEAN]
Whole == [length |-> Size, sound |-> TRUE]

Request   == [peer : Peers, component : Components, apply : BOOLEAN]
Download  == [path : Paths, received : 0..(Size - 1), apply : BOOLEAN]
Message   == [kind : {"manifest", "chunk"}, peer : Peers, component : Components,
              version : 0..MaxVersion, offset : 0..Size]

ASSUME TransferAssumptions ==
  /\ Agent \in Components /\ Versioned \subseteq Components
  /\ Automatic \in BOOLEAN
  /\ MaxVersion \in Nat /\ Size \in Nat \ {0} /\ MaxUpdates \in Nat
  /\ Nothing \notin Request \cup Download \cup File \cup [path : Paths, file : File]

ManifestMessage(p, c) ==
  [kind |-> "manifest", peer |-> p, component |-> c, version |-> 0, offset |-> 0]
ChunkMessage(d) ==
  [kind |-> "chunk", peer |-> d.path.peer, component |-> d.path.component,
   version |-> d.path.version, offset |-> d.received]

Idle == requested = Nothing /\ pending = Nothing

---------------------------------------------------------------------------
Init ==
  /\ up = TRUE
  /\ running = 0
  /\ trusted \in SUBSET Peers
  /\ requested = Nothing /\ pending = Nothing /\ wire = {}
  /\ files = [f \in Paths |-> Nothing]
  /\ ready = {}
  /\ applied = Nothing
  /\ shared \in [Peers -> [Components -> 0..MaxVersion]]
  /\ updates = 0 /\ ignored = FALSE

\* Mutant: looks only at the download, not at the manifest asked for.
BeginOverRequested(p, c, apply) ==
  /\ up /\ p \in trusted /\ pending = Nothing
  /\ updates < MaxUpdates
  /\ updates' = updates + 1
  /\ requested' = [peer |-> p, component |-> c, apply |-> apply]
  /\ wire' = wire \cup {ManifestMessage(p, c)}
  /\ UNCHANGED <<up, running, trusted, pending, files, ready, applied, shared, ignored>>

\* begin_component_update_request; the refusals change nothing.
Begin(p, c, apply) ==
  /\ up /\ p \in trusted /\ Idle
  /\ updates < MaxUpdates
  /\ updates' = updates + 1
  /\ requested' = [peer |-> p, component |-> c, apply |-> apply]
  /\ wire' = wire \cup {ManifestMessage(p, c)}
  /\ UNCHANGED <<up, running, trusted, pending, files, ready, applied, shared, ignored>>

\* The commands update, download-update, download-debugger-update and
\* download-android-update.
UpdateCommand(p, c, apply) == (apply => c = Agent) /\ Begin(p, c, apply)

\* An identify event of a trusted peer that runs a newer Agent.
Identified(p) ==
  /\ Automatic /\ pending = Nothing
  /\ shared[p][Agent] > running
  /\ Begin(p, Agent, TRUE)

\* The active update ends, and the message that ends it is done with.
Ended(m) ==
  /\ requested' = Nothing /\ pending' = Nothing
  /\ wire' = wire \ {m}

\* The manifest must be newer, for the components that must.
Acceptable(c, v) == c \in Versioned => v > running

\* A manifest is refused (target, size, signature, version), or cannot be staged.
ManifestRefused(m) ==
  /\ m.kind = "manifest" /\ shared[m.peer][m.component] # 0
  /\ Ended(m)
  /\ UNCHANGED <<up, running, trusted, files, ready, applied, shared, updates, ignored>>

\* Mutant: the staging file is opened without being emptied.
EmptiedKeeps(f) == IF files[f] = Nothing THEN [length |-> 0, sound |-> TRUE] ELSE files[f]

\* File::create.
Emptied(f) == [length |-> 0, sound |-> TRUE]

\* The manifest is accepted: the staging file is created, the first chunk asked for.
ManifestAnswered(m) ==
  LET v == shared[m.peer][m.component]
      f == [component |-> m.component, version |-> v, peer |-> m.peer]
      d == [path |-> f, received |-> 0, apply |-> requested.apply]
  IN  /\ m.kind = "manifest" /\ v # 0 /\ Acceptable(m.component, v)
      /\ requested' = Nothing
      /\ pending' = d
      /\ files' = [files EXCEPT ![f] = Emptied(f)]
      /\ wire' = (wire \ {m}) \cup {ChunkMessage(d)}
      /\ UNCHANGED <<up, running, trusted, ready, applied, shared, updates, ignored>>

\* The staging file after one more chunk, whose bytes are the package's or not: the
\* peer reads its file anew for each chunk.
Written(file, sound) == [length |-> file.length + 1, sound |-> file.sound /\ sound]

\* schedule_self_update: the updater gets the file, the Agent exits.
HandedOver(f, file) ==
  /\ applied' = [path |-> f, file |-> file]
  /\ up' = FALSE

\* Mutant: takes the last chunk for one in the middle.
ChunkWrittenPastEnd(m, sound) ==
  LET d == [pending EXCEPT !.received = @ + 1]
  IN  /\ m.kind = "chunk" /\ shared[m.peer][m.component] = m.version
      /\ pending.received + 1 <= Size
      /\ files' = [files EXCEPT ![d.path] = Written(@, sound)]
      /\ pending' = d
      /\ wire' = (wire \ {m}) \cup {ChunkMessage(d)}
      /\ UNCHANGED <<up, running, trusted, requested, ready, applied, shared, updates,
                     ignored>>

\* A chunk that is not the last.
ChunkWritten(m, sound) ==
  LET d == [pending EXCEPT !.received = @ + 1]
  IN  /\ m.kind = "chunk" /\ shared[m.peer][m.component] = m.version
      /\ pending.received + 1 < Size
      /\ files' = [files EXCEPT ![d.path] = Written(@, sound)]
      /\ pending' = d
      /\ wire' = (wire \ {m}) \cup {ChunkMessage(d)}
      /\ UNCHANGED <<up, running, trusted, requested, ready, applied, shared, updates,
                     ignored>>

\* verify_download: the size and the SHA-256 of the whole file.
Verified(file) == file = Whole

\* The last chunk: the file is verified, reported, and applied at once if so asked.
LastChunkWritten(m, sound) ==
  LET f    == pending.path
      file == Written(files[f], sound)
  IN  /\ m.kind = "chunk" /\ shared[m.peer][m.component] = m.version
      /\ pending.received + 1 = Size
      /\ Ended(m)
      /\ IF Verified(file)
         THEN /\ files' = [files EXCEPT ![f] = file]
              /\ ready' = ready \cup {f}
              /\ \/ pending.apply /\ HandedOver(f, file)
                 \/ UNCHANGED <<up, applied>>
         ELSE /\ files' = [files EXCEPT ![f] = Nothing]
              /\ UNCHANGED <<up, ready, applied>>
      /\ UNCHANGED <<running, trusted, shared, updates, ignored>>

\* The chunk is malformed or cannot be written: the staging file goes.
ChunkRefused(m) ==
  /\ m.kind = "chunk" /\ shared[m.peer][m.component] = m.version
  /\ Ended(m)
  /\ files' = [files EXCEPT ![pending.path] = Nothing]
  /\ UNCHANGED <<up, running, trusted, ready, applied, shared, updates, ignored>>

\* The peer does not share it, shares another version by now, or cannot read it. The
\* staging file stays.
ErrorAnswered(m) ==
  /\ Ended(m)
  /\ UNCHANGED <<up, running, trusted, files, ready, applied, shared, updates, ignored>>

\* A manifest where no manifest is asked for, or a chunk where nothing is downloaded:
\* ignored, and the request is over. The entry stays with nothing out.
OtherKindAnswered(m) ==
  /\ \/ m.kind = "chunk" /\ requested = Nothing
     \/ m.kind = "manifest" /\ pending = Nothing
  /\ wire' = wire \ {m}
  /\ ignored' = TRUE
  /\ UNCHANGED <<up, running, trusted, requested, pending, files, ready, applied, shared,
                 updates>>

\* Mutant: the manifest asked for stays in the table.
FailureKeepsRequested(m) ==
  /\ wire' = wire \ {m}
  /\ pending' = Nothing
  /\ UNCHANGED <<requested, up, running, trusted, files, ready, applied, shared, updates,
                 ignored>>

\* Mutant: a failed chunk starts the update over.
FailureStartsOver(m) ==
  /\ requested' = [peer |-> m.peer, component |-> m.component, apply |-> FALSE]
  /\ pending' = Nothing
  /\ wire' = {ManifestMessage(m.peer, m.component)}
  /\ UNCHANGED <<up, running, trusted, files, ready, applied, shared, updates, ignored>>

\* The request fails: timeout, closed connection.
OutboundFailure(m) ==
  /\ Ended(m)
  /\ files' = IF pending = Nothing THEN files ELSE [files EXCEPT ![pending.path] = Nothing]
  /\ UNCHANGED <<up, running, trusted, ready, applied, shared, updates, ignored>>

Answer(m) ==
  /\ up /\ m \in wire
  /\ \/ ManifestRefused(m) \/ ManifestAnswered(m)
     \/ \E sound \in BOOLEAN : ChunkWritten(m, sound) \/ LastChunkWritten(m, sound)
     \/ ChunkRefused(m) \/ ErrorAnswered(m) \/ OtherKindAnswered(m) \/ OutboundFailure(m)

---------------------------------------------------------------------------
\* The command apply-update, with a file that was reported READY for this program.
ApplyUpdate(f) ==
  /\ up
  /\ f \in ready /\ f.component = Agent /\ files[f] # Nothing
  /\ HandedOver(f, files[f])
  /\ UNCHANGED <<running, trusted, requested, pending, wire, files, ready, shared, updates,
                 ignored>>

\* The commands trust and untrust.
TrustChanges(p) ==
  /\ up
  /\ trusted' = IF p \in trusted THEN trusted \ {p} ELSE trusted \cup {p}
  /\ UNCHANGED <<up, running, requested, pending, wire, files, ready, applied, shared,
                 updates, ignored>>

\* The owner stops the Agent, or it crashes.
Stop ==
  /\ up /\ up' = FALSE
  /\ UNCHANGED <<running, trusted, requested, pending, wire, files, ready, applied, shared,
                 updates, ignored>>

\* The Agent starts again, as the version it was or, when the updater was given a whole
\* package, as that one. Tables and requests are gone; the staging directory is not.
Restart ==
  /\ ~up /\ up' = TRUE
  /\ running' \in {running} \cup
       (IF applied # Nothing /\ applied.file = Whole THEN {applied.path.version} ELSE {})
  /\ requested' = Nothing /\ pending' = Nothing /\ wire' = {} /\ ignored' = FALSE
  /\ UNCHANGED <<trusted, files, ready, applied, shared, updates>>

\* A peer is updated, or stops sharing a component.
PeerChanges(p, c, v) ==
  /\ shared' = [shared EXCEPT ![p][c] = v]
  /\ UNCHANGED <<up, running, trusted, requested, pending, wire, files, ready, applied,
                 updates, ignored>>

Next ==
  \/ \E p \in Peers, c \in Components, apply \in BOOLEAN : UpdateCommand(p, c, apply)
  \/ \E p \in Peers : Identified(p) \/ TrustChanges(p)
  \/ \E m \in wire : Answer(m)
  \/ \E f \in Paths : ApplyUpdate(f)
  \/ Stop \/ Restart
  \/ \E p \in Peers, c \in Components, v \in 0..MaxVersion : PeerChanges(p, c, v)

Spec == Init /\ [][Next]_vars

\* request_response ends every request with an answer or a failure, while the Agent runs.
FairSpec == Spec /\ WF_vars(\E m \in wire : Answer(m))

---------------------------------------------------------------------------
\* Properties.

\* The values the state takes.
TypeOK ==
  /\ up \in BOOLEAN /\ running \in 0..MaxVersion /\ trusted \subseteq Peers
  /\ requested \in Request \cup {Nothing}
  /\ pending \in Download \cup {Nothing}
  /\ wire \subseteq Message
  /\ files \in [Paths -> File \cup {Nothing}]
  /\ ready \subseteq Paths
  /\ applied \in [path : Paths, file : File] \cup {Nothing}
  /\ shared \in [Peers -> [Components -> 0..MaxVersion]]
  /\ updates \in 0..MaxUpdates /\ ignored \in BOOLEAN

\* The request an active update waits for.
Awaited ==
  IF requested # Nothing THEN {ManifestMessage(requested.peer, requested.component)}
  ELSE IF pending # Nothing THEN {ChunkMessage(pending)} ELSE {}

\* An update is active exactly when one request of it is out, and never two at a time.
\* One thing alone leaves the table occupied with nothing outstanding, until the Agent
\* starts again: an answer of the other kind, which is ignored with its request over.
OneRequestOut == up => IF ignored THEN ~Idle /\ wire = {} ELSE wire = Awaited

\* The staging file holds what has been received of this download and nothing of an
\* earlier one that failed, was refused, or was cut off by a stop.
FileTracksProgress ==
  up /\ pending # Nothing =>
    files[pending.path] # Nothing /\ files[pending.path].length = pending.received

\* The answers an active update has before it at most: its manifest and its chunks.
ToCome ==
  IF requested # Nothing THEN Size + 1
  ELSE IF pending # Nothing THEN Size - pending.received ELSE 0

\* Only the answer to the request that is out moves an active update, and each brings it
\* nearer to its end, or is of the other kind and leaves it where it is: not a command,
\* not an identify event, not a peer that is updated or no longer trusted meanwhile. A
\* chunk asked for again would keep the table occupied.
UpdateAdvances ==
  [][up /\ ~Idle =>
       IF wire' = wire THEN UNCHANGED <<requested, pending>>
       ELSE \/ ToCome \in 1..(Size + 1) /\ ToCome' \in 0..(ToCome - 1)
            \/ ignored' /\ wire' = {} /\ UNCHANGED <<requested, pending>>]_vars

\* Every update ends, reported ready or failed, unless the Agent stops first or the peer
\* answers with the other kind: nothing else keeps the table occupied.
UpdateEnds == up /\ ~Idle ~> ~up \/ Idle \/ ignored

\* The updater is given only what matches its signed manifest.
AppliedIsWhole == applied # Nothing => applied.file = Whole

=============================================================================
