---------------------------- MODULE ArtifactDownload ----------------------------
(***************************************************************************)
(* The receiving side of the artifact protocol in one Agent: the downloads *)
(* the owner asked for, the requests sent to their providers, and the      *)
(* blocks and manifests the content-addressed store has accepted.          *)
(*                                                                         *)
(* A request leaves the table when it is answered, fails, or its provider  *)
(* is given up; what arrives for it later is ignored. A download leaves    *)
(* the table when it ends, but the requests sent for it stay: a later      *)
(* download of the same artifact finds them there.                         *)
(***************************************************************************)
EXTENDS Integers, Sequences, FiniteSets, SequencesExt

CONSTANTS
  Peers,          \* the remote Agents
  Artifacts,      \* content ids
  Blocks,         \* block ids
  BlocksOf,       \* the blocks of the artifact a content id names
  Manifests,      \* block sets a provider may answer with, right or wrong
  MaxParallel,    \* MAX_PARALLEL_ARTIFACT_BLOCKS
  MaxProviders,   \* MAX_ARTIFACT_PROVIDERS
  MaxCommands,    \* bound on the downloads and listings the owner asks for
  NoDownload, Nothing

ASSUME DownloadAssumptions ==
  /\ IsFiniteSet(Artifacts) /\ IsFiniteSet(Blocks)
  /\ BlocksOf \in [Artifacts -> SUBSET Blocks]
  /\ Manifests \subseteq SUBSET Blocks
  /\ MaxParallel \in Nat \ {0}
  /\ MaxProviders \in Nat \ {0}
  /\ MaxCommands \in Nat
  /\ Nothing \notin Artifacts \cup Blocks

VARIABLES
  trusted,      \* peers the owner trusts
  outbound,     \* requests sent and not answered (artifact_outbound)
  downloads,    \* artifact_downloads
  stored,       \* blocks whose file has the right digest
  published,    \* artifacts with a manifest in the store
  commands      \* downloads and listings asked for so far

vars == <<trusted, outbound, downloads, stored, published, commands>>

ProviderLists == {ps \in UNION {[1..n -> Peers] : n \in 1..MaxProviders} : IsInjective(ps)}

\* Requests of each kind; copy tells apart those that ask the same of the same peer.
ManifestRequest(p, a) ==
  [kind |-> "manifest", peer |-> p, artifact |-> a, block |-> Nothing, copy |-> 1]
BlockRequest(p, a, b) ==
  [kind |-> "block", peer |-> p, artifact |-> a, block |-> b, copy |-> 1]
InventoryRequest(p) ==
  [kind |-> "inventory", peer |-> p, artifact |-> Nothing, block |-> Nothing, copy |-> 1]

Requests ==
  {r \in [kind : {"manifest", "block", "inventory"}, peer : Peers,
          artifact : Artifacts \cup {Nothing}, block : Blocks \cup {Nothing}, copy : Nat] :
     /\ r.artifact = Nothing <=> r.kind = "inventory"
     /\ r.block # Nothing <=> r.kind = "block"}

Download ==
  [providers : ProviderLists, failed : SUBSET Peers, next : Nat,
   known : BOOLEAN, manifest : SUBSET Blocks,   \* manifest.is_some(), and its blocks
   pending : Seq(Blocks), inFlight : Nat]

NewDownload(ps) ==
  [providers |-> ps, failed |-> {}, next |-> 0,
   known |-> FALSE, manifest |-> {}, pending |-> <<>>, inFlight |-> 0]

SaturatingDecrement(n) == IF n = 0 THEN 0 ELSE n - 1

---------------------------------------------------------------------------
\* Providers in turn.

Active(d) == {p \in Range(d.providers) : p \notin d.failed}

\* The n-th provider that next_active_provider looks at.
Looked(d, n) == d.providers[((d.next + n - 1) % Len(d.providers)) + 1]

\* Mutant: takes the first, failed or not. (The mutants in this module are no part of
\* the model; each stands in for the definition after it.)
LooksOnce(d) == 1

\* How many it looks at, up to the first that has not failed.
Looks(d) ==
  CHOOSE n \in 1..Len(d.providers) :
    /\ Looked(d, n) \notin d.failed
    /\ \A m \in 1..(n - 1) : Looked(d, m) \in d.failed

\* next_active_provider: the provider, and the download after it.
Chosen(d) == Looked(d, Looks(d))
Moved(d)  == [d EXCEPT !.next = (@ + Looks(d)) % Len(d.providers)]

---------------------------------------------------------------------------
(***************************************************************************)
(* The helpers call one another, so they are written on a pair             *)
(* T = [out, dl] of the two tables, as operators that return the tables    *)
(* after the call.                                                         *)
(***************************************************************************)

\* send_request and outbound.insert.
Send(out, request) ==
  LET n == CHOOSE n \in 1..(Cardinality(out) + 1) : [request EXCEPT !.copy = n] \notin out
  IN  out \cup {[request EXCEPT !.copy = n]}

Without(T, a)   == [T EXCEPT !.dl[a] = NoDownload]
Answered(T, r)  == [T EXCEPT !.out = @ \ {r}]

\* request_artifact_manifest.
RequestManifest(T, a) ==
  LET d == T.dl[a]
  IN  IF d = NoDownload \/ Active(d) = {} THEN Without(T, a)
      ELSE [out |-> Send(T.out, ManifestRequest(Chosen(d), a)),
            dl  |-> [T.dl EXCEPT ![a] = Moved(d)]]

\* A turn of the loop of request_artifact_blocks.
RequestBlock(T, a) ==
  LET d == T.dl[a]
  IN  IF d = NoDownload \/ d.inFlight >= MaxParallel \/ d.pending = <<>> THEN T
      ELSE IF Active(d) = {} THEN Without(T, a)
      ELSE [out |-> Send(T.out, BlockRequest(Chosen(d), a, Head(d.pending))),
            dl  |-> [T.dl EXCEPT ![a] = [Moved(d) EXCEPT !.pending  = Tail(@),
                                                         !.inFlight = @ + 1]]]

\* request_artifact_blocks: MaxParallel turns always reach the limit.
RequestBlocks(T, a) ==
  FoldLeft(LAMBDA t, i : RequestBlock(t, a), T, [i \in 1..MaxParallel |-> i])

\* The download of a failed request: the provider is out, a block waits again.
ProviderOut(T, r) == [T EXCEPT !.dl[r.artifact].failed = @ \cup {r.peer}]
BlockBack(T, r) ==
  [T EXCEPT !.dl[r.artifact] = [@ EXCEPT !.inFlight = SaturatingDecrement(@),
                                         !.pending  = Append(@, r.block)]]

\* What follows the failure of request r, with the download as M or B leaves it.
Retry(T, r, M, B) ==
  IF r.kind = "inventory" \/ T.dl[r.artifact] = NoDownload THEN T
  ELSE IF r.kind = "manifest" THEN RequestManifest(M, r.artifact)
  ELSE IF Active(B.dl[r.artifact]) = {} THEN Without(T, r.artifact)
  ELSE RequestBlocks(B, r.artifact)

\* Mutants of the next definition: the slot kept, the block lost, a manifest put back as
\* if it were a block, the provider kept, the manifest not asked for again.
FailedKeepsSlot(T, r) ==
  LET M == ProviderOut(T, r)
  IN  Retry(T, r, M, [M EXCEPT !.dl[r.artifact].pending = Append(@, r.block)])
FailedLosesBlock(T, r) ==
  LET M == ProviderOut(T, r)
  IN  Retry(T, r, M, [M EXCEPT !.dl[r.artifact].inFlight = SaturatingDecrement(@)])
FailedMixesKinds(T, r) ==
  LET M == ProviderOut(T, r) IN Retry(T, r, BlockBack(M, r), BlockBack(M, r))
FailedForgives(T, r) == Retry(T, r, T, BlockBack(T, r))
FailedGivesUpTurn(T, r) ==
  IF r.kind = "manifest" /\ T.dl[r.artifact] # NoDownload THEN ProviderOut(T, r)
  ELSE Retry(T, r, ProviderOut(T, r), BlockBack(ProviderOut(T, r), r))

\* handle_artifact_request_failure, for a request already out of the table.
RequestFailed(T, r) == Retry(T, r, ProviderOut(T, r), BlockBack(ProviderOut(T, r), r))

\* The second half of fail_artifact_provider, for one download.
DroppedFrom(T, a, p) ==
  LET d == T.dl[a]
      M == [T EXCEPT !.dl[a].failed = @ \cup {p}]
  IN  IF d = NoDownload THEN T
      ELSE IF p \notin Range(d.providers) THEN T
      ELSE IF Active(M.dl[a]) = {} THEN Without(T, a)
      ELSE IF d.known THEN RequestBlocks(M, a)
      ELSE M

RequestsTo(T, p) == {r \in T.out : r.peer = p}

\* fail_artifact_provider: its requests fail in the order the hash table yields them,
\* then every download gives it up.
RequestsFailed(T, order) ==
  FoldLeft(LAMBDA t, r : RequestFailed(Answered(t, r), r), T, order)
DroppedEverywhere(T, p) ==
  FoldLeft(LAMBDA t, a : DroppedFrom(t, a, p), T, SetToSeq(Artifacts))
ProviderFailed(T, p, order) == DroppedEverywhere(RequestsFailed(T, order), p)

---------------------------------------------------------------------------
\* Actions. Tables holds what a handler leaves.

Tables == [out |-> outbound, dl |-> downloads]

Becomes(T) == outbound' = T.out /\ downloads' = T.dl

\* All orders of the requests sent to p.
Orders(T, p) == SetToSeqs(RequestsTo(T, p))

Init ==
  /\ trusted \in SUBSET Peers
  /\ outbound = {}
  /\ downloads = [a \in Artifacts |-> NoDownload]
  /\ stored = {}
  /\ published = {}
  /\ commands = 0

\* The commands trust and untrust.
Trust(p) ==
  /\ trusted' = trusted \cup {p}
  /\ UNCHANGED <<outbound, downloads, stored, published, commands>>

Untrust(p) ==
  /\ trusted' = trusted \ {p}
  /\ UNCHANGED <<outbound, downloads, stored, published, commands>>

\* The command artifact-peer-list.
ListPeer(p) ==
  /\ commands < MaxCommands
  /\ p \in trusted
  /\ commands' = commands + 1
  /\ outbound' = Send(outbound, InventoryRequest(p))
  /\ UNCHANGED <<trusted, downloads, stored, published>>

\* The commands artifact-fetch (one provider) and artifact-fetch-many.
Fetch(a, ps) ==
  /\ commands < MaxCommands
  /\ downloads[a] = NoDownload
  /\ Range(ps) \subseteq trusted
  /\ commands' = commands + 1
  /\ Becomes(RequestManifest([Tables EXCEPT !.dl[a] = NewDownload(ps)], a))
  /\ UNCHANGED <<trusted, stored, published>>

InventoryAnswered(r) ==
  /\ r.kind = "inventory"
  /\ Becomes(Answered(Tables, r))
  /\ UNCHANGED <<trusted, stored, published, commands>>

(***************************************************************************)
(* finish_artifact_download: the manifest is published when every block of *)
(* it is there and together they have the digest the content id names, and *)
(* the quota leaves room for it.                                           *)
(***************************************************************************)
Published(a, known, manifest, blocks) ==
  IF known /\ manifest = BlocksOf[a] /\ manifest \subseteq blocks
  THEN {published \cup {a}, published}
  ELSE {published}

\* A manifest that names the content id asked for.
ManifestAnswered(r, m) ==
  LET a == r.artifact
      T == Answered(Tables, r)
      missing == m \ stored
      D == [T EXCEPT !.dl[a] = [@ EXCEPT !.known = TRUE, !.manifest = m,
                                         !.pending = SetToSeq(missing)]]
  IN  /\ r.kind = "manifest"
      /\ IF downloads[a] = NoDownload
         THEN Becomes(T) /\ UNCHANGED published
         ELSE IF missing = {}
         THEN Becomes(Without(T, a)) /\ published' \in Published(a, TRUE, m, stored)
         ELSE Becomes(RequestBlocks(D, a)) /\ UNCHANGED published
      /\ UNCHANGED <<trusted, stored, commands>>

\* The manifest is malformed: only this request fails, not its provider.
ManifestInvalid(r) ==
  /\ r.kind = "manifest"
  /\ Becomes(RequestFailed(Answered(Tables, r), r))
  /\ UNCHANGED <<trusted, stored, published, commands>>

\* The block asked for, accepted by the store.
BlockStored(r) ==
  LET a == r.artifact
      T == Answered(Tables, r)
      D == [T EXCEPT !.dl[a].inFlight = SaturatingDecrement(@)]
      blocks == stored \cup {r.block}
  IN  /\ r.kind = "block"
      /\ stored' = blocks
      /\ IF downloads[a] = NoDownload
         THEN Becomes(T) /\ UNCHANGED published
         ELSE IF D.dl[a].pending = <<>> /\ D.dl[a].inFlight = 0
         THEN Becomes(Without(T, a)) /\ published' \in Published(a, D.dl[a].known, D.dl[a].manifest, blocks)
         ELSE Becomes(RequestBlocks(D, a)) /\ UNCHANGED published
      /\ UNCHANGED <<trusted, commands>>

\* The block asked for, with the wrong digest or beyond the quota: the download ends.
BlockRejected(r) ==
  /\ r.kind = "block"
  /\ Becomes(Without(Answered(Tables, r), r.artifact))
  /\ UNCHANGED <<trusted, stored, published, commands>>

\* An error answer, an answer of another kind, or no answer: the request fails, then
\* its provider is given up everywhere.
RequestUnanswered(r) ==
  LET T == RequestFailed(Answered(Tables, r), r)
  IN  /\ \E order \in Orders(T, r.peer) : Becomes(ProviderFailed(T, r.peer, order))
      /\ UNCHANGED <<trusted, stored, published, commands>>

\* A connection to p closes; p is given up even if it has another one.
ConnectionClosed(p) ==
  /\ \E order \in Orders(Tables, p) : Becomes(ProviderFailed(Tables, p, order))
  /\ UNCHANGED <<trusted, stored, published, commands>>

Answer(r) ==
  /\ r \in outbound
  /\ \/ InventoryAnswered(r)
     \/ \E m \in Manifests : ManifestAnswered(r, m)
     \/ ManifestInvalid(r)
     \/ BlockStored(r)
     \/ BlockRejected(r)
     \/ RequestUnanswered(r)

Next ==
  \/ \E p \in Peers : Trust(p) \/ Untrust(p) \/ ListPeer(p) \/ ConnectionClosed(p)
  \/ \E a \in Artifacts, ps \in ProviderLists : Fetch(a, ps)
  \/ \E r \in outbound : Answer(r)

Spec == Init /\ [][Next]_vars

\* request_response ends every request with an answer or a failure; that some request
\* out is answered next is all that liveness needs.
FairSpec == Spec /\ WF_vars(\E r \in outbound : Answer(r))

---------------------------------------------------------------------------
\* Properties.

Requested(a, kind) == {r \in outbound : r.artifact = a /\ r.kind = kind}

\* The values the state takes.
TypeOK ==
  /\ trusted \subseteq Peers /\ stored \subseteq Blocks /\ published \subseteq Artifacts
  /\ commands \in 0..MaxCommands
  /\ outbound \subseteq Requests
  /\ downloads \in [Artifacts -> Download \cup {NoDownload}]

\* While a download runs, every block its manifest names is stored, waiting, or asked
\* for: no failover, disconnect or stale answer makes it forget a block.
NoBlockForgotten ==
  \A a \in Artifacts :
    LET d == downloads[a]
    IN  d # NoDownload /\ d.known =>
            d.manifest \subseteq
              stored \cup Range(d.pending) \cup {r.block : r \in Requested(a, "block")}

\* A running download always has a request out for it, so it cannot wait for nothing:
\* not even after every provider asked so far has failed.
NeverIdle ==
  \A a \in Artifacts :
    downloads[a] # NoDownload => Requested(a, "manifest") \cup Requested(a, "block") # {}

\* in_flight never counts a block nobody was asked for: it would hold a slot forever.
InFlightIsOut ==
  \A a \in Artifacts :
    downloads[a] # NoDownload =>
      downloads[a].inFlight <= Cardinality(Requested(a, "block"))

\* A download never turns again to a provider that failed it, in any step: neither the
\* retry of its own request, nor the failover of another one, picks it.
FailedNotAskedAgain ==
  [][\A r \in outbound' \ outbound :
       r.kind # "inventory" =>
         \/ downloads'[r.artifact] = NoDownload
         \/ r.peer \notin downloads'[r.artifact].failed]_vars

\* What a running download has before it, the weightiest first: providers to turn to,
\* manifests to come, requests to providers it has given up, blocks to ask for and to come.
Asked(out, a) == {r \in out : r.artifact = a}
Distance(out, d, a) ==
  <<Cardinality(Active(d)),
    Cardinality({r \in Asked(out, a) : r.kind = "manifest"}),
    Cardinality({r \in Asked(out, a) : r.peer \notin Active(d)}),
    2 * Len(d.pending) + Cardinality({r \in Asked(out, a) : r.kind = "block"})>>

Nearer(s, t) == \E i \in 1..4 : s[i] < t[i] /\ \A j \in 1..(i - 1) : s[j] = t[j]

\* A step that changes anything of a running download brings it nearer to its end: each
\* answer to it does, and no stale manifest, retry, failover of a provider or answer to
\* another download takes it back.
DownloadAdvances ==
  [][\A a \in Artifacts :
       downloads[a] # NoDownload /\ downloads'[a] # NoDownload =>
         \/ Nearer(Distance(outbound', downloads'[a], a), Distance(outbound, downloads[a], a))
         \/ downloads'[a] = downloads[a] /\ Asked(outbound', a) = Asked(outbound, a)]_vars

\* Every download ends.
DownloadsEnd == \A a \in Artifacts : downloads[a] # NoDownload ~> downloads[a] = NoDownload

\* At most MaxParallel block requests of one artifact are in flight.
ParallelBound ==
  \A a \in Artifacts : Cardinality(Requested(a, "block")) <= MaxParallel

=============================================================================
