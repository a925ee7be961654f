------------------------------ MODULE NarProxy ------------------------------
(***************************************************************************)
(* ogygia-irisd's request path: a client asks for a store path's narinfo   *)
(* and then for the NAR it names, the daemon answers from the local store  *)
(* or from the first peer it may believe, and resumes a broken download.   *)
(*                                                                         *)
(* A copy of the path is the hash of its NAR and whether its narinfo is    *)
(* trusted (content-addressed, or signed with a trusted key).  The bytes   *)
(* of a compressed NAR are numbered; two compressions of one NAR differ    *)
(* in every byte.                                                          *)
(***************************************************************************)
EXTENDS Integers, Sequences, FiniteSets

CONSTANTS
  NarPeers,     \* config.peers.urls
  Self,         \* the daemon the client asks
  Nars,         \* hashes of NARs the path may be built to
  FileSize,     \* by compression: the size of the compressed file
  MaxChanges,   \* bound: builds, collections and compressions
  NoCopy, NoInfo, NoPeer

VARIABLES
  copyOf,       \* per node: what its store has of the path
  compression,  \* per node: how its cached file was compressed
  advertised,   \* the peers whose filter has the path
  changes,
  asking,       \* "none", "narinfo", "nar"
  promised,     \* the NarHash in the URL the client was given, or NoCopy
  candidates,   \* lookup_stream has not decided about these peers yet
  inflight,     \* narinfo requests under way
  infos,        \* per peer: what its narinfo says, NoInfo before it arrives
  opening,      \* the peer asked for the NAR
  steady,       \* peers nothing happened to since the request began
  source, file, \* the node a NAR comes from, and the file its response names
  mark,         \* bytes_at_last_retry
  wire,         \* the download's connection: "up" or "down"
  body,         \* what the client has received
  outcome       \* how the last request ended

world   == <<copyOf, compression, advertised, changes>>
search  == <<candidates, inflight, infos, opening, steady>>
stream  == <<source, file, mark, wire, body>>
proxyVars == <<world, asking, promised, search, stream, outcome>>

Nodes == NarPeers \cup {Self}
Compressions == DOMAIN FileSize
Copies == [nar : Nars, trusted : BOOLEAN]
Files == [nar : Nars, by : Compressions]

\* No file is empty: a compressed NAR has a header.
ASSUME ProxyAssumption ==
  /\ Nars # {} /\ Compressions # {} /\ FileSize \in [Compressions -> Nat \ {0}]
  /\ Self \notin NarPeers /\ NoPeer \notin Nodes
  /\ NoCopy \notin Nars \cup Copies /\ NoInfo \notin Copies /\ NoInfo # NoCopy
  /\ MaxChanges \in Nat

ProxyTypeOK ==
  /\ copyOf \in [Nodes -> Copies \cup {NoCopy}]
  /\ compression \in [Nodes -> Compressions]
  /\ advertised \subseteq NarPeers
  /\ asking \in {"none", "narinfo", "nar"}
  /\ promised \in Nars \cup {NoCopy}
  /\ candidates \cup inflight \cup steady \subseteq NarPeers
  /\ infos \in [NarPeers -> Copies \cup {NoCopy, NoInfo}]
  /\ opening \in NarPeers \cup {NoPeer}
  /\ source \in Nodes \cup {NoPeer}
  /\ file \in Files /\ wire \in {"up", "down"} /\ mark \in Nat
  /\ changes \in 0..MaxChanges
  /\ source # NoPeer => Len(body) < FileSize[file.by] /\ mark <= Len(body)
  /\ outcome \in {"none", "info", "served", "notfound", "failed", "hungup"}

-----------------------------------------------------------------------------
(* What the world does: builds, collections, compressions.                 *)

Change(n) ==
  /\ changes < MaxChanges
  /\ changes' = changes + 1
  /\ \/ copyOf' = [copyOf EXCEPT ![n] = NoCopy] /\ UNCHANGED compression
     \/ \E copy \in Copies : copyOf' = [copyOf EXCEPT ![n] = copy] /\ UNCHANGED compression
     \/ \E c \in Compressions : compression' = [compression EXCEPT ![n] = c] /\ UNCHANGED copyOf
  /\ steady' = steady \ {n}
  /\ UNCHANGED <<advertised, asking, promised, candidates, inflight, infos, opening, stream, outcome>>

-----------------------------------------------------------------------------
(* A request: the local store first, then the peers.                       *)

Idle == asking = "none"

Ends(how) ==
  /\ asking' = "none" /\ outcome' = how
  /\ candidates' = {} /\ inflight' = {} /\ infos' = [p \in NarPeers |-> NoInfo]
  /\ opening' = NoPeer /\ steady' = {}

Blank == [nar |-> CHOOSE nar \in Nars : TRUE, by |-> CHOOSE c \in Compressions : TRUE]

NoStream == source' = NoPeer /\ file' = Blank /\ mark' = 0 /\ wire' = "down" /\ body' = <<>>

\* lookup_stream with every peer; the narinfo fetches start as it answers.
AskPeers(kind) ==
  /\ asking' = kind /\ outcome' = "none"
  /\ candidates' = NarPeers /\ steady' = advertised
  /\ UNCHANGED <<inflight, infos, opening>>

\* get_narinfo. A path that cannot be packed is looked for among the peers.
GetNarinfo ==
  /\ Idle
  /\ \/ copyOf[Self] # NoCopy /\ promised' = copyOf[Self].nar /\ Ends("info")
     \/ promised' = NoCopy /\ AskPeers("narinfo")
  /\ NoStream
  /\ UNCHANGED world

CachedFile(node) == [nar |-> copyOf[node].nar, by |-> compression[node]]

Streams(node) ==
  /\ source' = node /\ file' = CachedFile(node)
  /\ mark' = 0 /\ wire' = "up" /\ body' = <<>>

\* get_nar: the local copy if it is the NAR of the URL, an error if it cannot
\* be packed, and the peers without one or when it was evicted meanwhile.
GetNar ==
  /\ Idle /\ promised # NoCopy
  /\ LET local == copyOf[Self] # NoCopy /\ copyOf[Self].nar = promised IN
       \/ /\ local
          /\ asking' = "nar" /\ outcome' = "none"
          /\ Streams(Self)
          /\ UNCHANGED search
       \/ local /\ Ends("failed") /\ NoStream
       \/ AskPeers("nar") /\ NoStream
  /\ UNCHANGED <<world, promised>>

Searching == asking # "none" /\ source = NoPeer

\* The select is biased: an answer that has arrived goes first.
Ready == {p \in inflight : infos[p] # NoInfo}

\* lookup_stream yields the peer when its filter has the path; a filter that
\* cannot be fetched is no filter.
Yield(p) ==
  /\ Searching /\ Ready = {} /\ opening = NoPeer /\ p \in candidates
  /\ candidates' = candidates \ {p}
  /\ \/ p \in advertised /\ inflight' = inflight \cup {p} /\ UNCHANGED steady
     \/ steady' = steady \ {p} /\ UNCHANGED inflight
  /\ UNCHANGED <<world, asking, promised, infos, opening, stream, outcome>>

\* The peer answers from its local store, or cannot be reached or pack it.
PeerAnswers(p) ==
  /\ Searching /\ p \in inflight /\ infos[p] = NoInfo
  /\ \/ infos' = [infos EXCEPT ![p] = copyOf[p]] /\ UNCHANGED steady
     \/ infos' = [infos EXCEPT ![p] = NoCopy] /\ steady' = steady \ {p}
  /\ UNCHANGED <<world, asking, promised, candidates, inflight, opening, stream, outcome>>

Believable(copy) ==
  /\ copy # NoCopy /\ copy.trusted
  /\ asking = "nar" => copy.nar = promised

\* Mutant: a peer that does not have it ends the search.
PassOverGivesUp(p) ==
  /\ Searching /\ opening = NoPeer /\ p \in Ready /\ ~Believable(infos[p])
  /\ Ends("notfound")
  /\ UNCHANGED <<world, promised, stream>>

PassOver(p) ==
  /\ Searching /\ opening = NoPeer /\ p \in Ready /\ ~Believable(infos[p])
  /\ inflight' = inflight \ {p} /\ infos' = [infos EXCEPT ![p] = NoInfo]
  /\ UNCHANGED <<world, asking, promised, candidates, opening, steady, stream, outcome>>

\* The first peer to be believed names the NAR.
Relay(p) ==
  /\ Searching /\ asking = "narinfo" /\ p \in Ready /\ Believable(infos[p])
  /\ promised' = infos[p].nar
  /\ Ends("info")
  /\ UNCHANGED <<world, stream>>

Open(p) ==
  /\ Searching /\ asking = "nar" /\ opening = NoPeer
  /\ p \in Ready /\ Believable(infos[p])
  /\ opening' = p
  /\ inflight' = inflight \ {p} /\ infos' = [infos EXCEPT ![p] = NoInfo]
  /\ UNCHANGED <<world, asking, promised, candidates, steady, stream, outcome>>

\* get_local_nar at the peer, which compares its own hash with the URL.
Offers(p) == copyOf[p] # NoCopy /\ copyOf[p].nar = promised

Opened ==
  /\ opening # NoPeer /\ Offers(opening)
  /\ Streams(opening)
  /\ opening' = NoPeer
  /\ candidates' = {} /\ inflight' = {} /\ infos' = [p \in NarPeers |-> NoInfo] /\ steady' = {}
  /\ UNCHANGED <<world, asking, promised, outcome>>

\* The peer has it no more, cannot pack it or cannot be reached: the next one.
OpenFails ==
  /\ opening # NoPeer
  /\ opening' = NoPeer
  /\ steady' = IF Offers(opening) THEN steady \ {opening} ELSE steady
  /\ UNCHANGED <<world, asking, promised, candidates, inflight, infos, stream, outcome>>

NotFound ==
  /\ Searching /\ candidates = {} /\ inflight = {} /\ opening = NoPeer
  /\ Ends("notfound")
  /\ UNCHANGED <<world, promised, stream>>

-----------------------------------------------------------------------------
(* The body: stream_with_retry. Without a Range the client's own request   *)
(* of a local NAR is not resumed.                                          *)

\* Mutant: one byte more than there are.
CompleteLate(n) == n > FileSize[file.by]

Complete(n) == n >= FileSize[file.by]

\* The connection reads the file that was open when it was made.
Receive ==
  /\ source # NoPeer /\ wire = "up"
  /\ body' = Append(body, <<file, Len(body) + 1>>)
  /\ IF Complete(Len(body'))
     THEN /\ source' = NoPeer /\ file' = Blank /\ mark' = 0 /\ wire' = "down"
          /\ asking' = "none" /\ outcome' = "served"
     ELSE UNCHANGED <<source, file, mark, wire, asking, outcome>>
  /\ UNCHANGED <<world, promised, search>>

\* It breaks, or ends before content-length bytes.
Break ==
  /\ source # NoPeer /\ wire = "up"
  /\ wire' = "down"
  /\ UNCHANGED <<world, asking, promised, search, source, file, mark, body, outcome>>

GivesUp == Ends("failed") /\ NoStream

\* Mutant: it is retried for as long as it takes.
StalledNever == FALSE

Stalled == Len(body) = mark

Stall ==
  /\ source # NoPeer /\ wire = "down"
  /\ source = Self \/ Stalled
  /\ GivesUp
  /\ UNCHANGED <<world, promised>>

\* Mutant: the file hash is not compared.
SameFileUnchecked(p) == TRUE

SameFile(p) == CachedFile(p) = file

\* 206 from byte Len(body) of the file the peer has now, and the file hash of
\* the first response; 200, 404, 416, another hash or no answer end it.
Resume ==
  /\ source \in NarPeers /\ wire = "down" /\ ~Stalled
  /\ \/ /\ Offers(source) /\ SameFile(source)
        /\ Len(body) < FileSize[compression[source]]
        /\ mark' = Len(body) /\ wire' = "up"
        /\ file' = CachedFile(source)
        /\ UNCHANGED <<asking, search, source, body, outcome>>
     \/ GivesUp
  /\ UNCHANGED <<world, promised>>

\* The client hangs up, and the handler is dropped.
ClientHangsUp ==
  /\ ~Idle
  /\ Ends("hungup") /\ NoStream
  /\ UNCHANGED <<world, promised>>

-----------------------------------------------------------------------------
ProxyInit ==
  /\ copyOf \in [Nodes -> Copies \cup {NoCopy}]
  /\ \E c \in Compressions : compression = [n \in Nodes |-> c]
  /\ advertised \in SUBSET NarPeers
  /\ \A p \in NarPeers : copyOf[p] # NoCopy => p \in advertised
  /\ changes = 0
  /\ asking = "none" /\ promised = NoCopy
  /\ candidates = {} /\ inflight = {} /\ infos = [p \in NarPeers |-> NoInfo]
  /\ opening = NoPeer /\ steady = {}
  /\ source = NoPeer /\ file = Blank
  /\ mark = 0 /\ wire = "down" /\ body = <<>>
  /\ outcome = "none"

ProxyStep ==
  \/ \E p \in NarPeers : Yield(p) \/ PeerAnswers(p) \/ PassOver(p) \/ Relay(p) \/ Open(p)
  \/ Opened \/ OpenFails \/ NotFound
  \/ Receive \/ Stall \/ Resume

ProxyNext ==
  \/ GetNarinfo \/ GetNar \/ ProxyStep
  \/ Break \/ ClientHangsUp
  \/ \E n \in Nodes : Change(n)

ProxySpec == ProxyInit /\ [][ProxyNext]_proxyVars

-----------------------------------------------------------------------------
(* Properties.                                                             *)

\* A download that ends well is one file from its first byte to its last, of
\* the NAR the URL names, whatever peers rebuilt, collected, compressed anew
\* or broke off in between (stream_with_retry).
DeliversWholeFile ==
  outcome = "served" =>
    \E f \in Files :
      f.nar = promised /\ body = [i \in 1..FileSize[f.by] |-> <<f, i>>]

\* Not found is only said when no peer could have answered: one whose filter
\* has the path, whose narinfo is trusted and names the NAR, and that nothing
\* happened to meanwhile, is never passed over (try_peer_narinfo, try_peer_nar).
NotFoundIsTrue ==
  outcome' = "notfound" /\ ~Idle =>
    \A p \in steady : ~Believable(copyOf[p])

\* Every request ends, however often the connection breaks: a retry needs
\* progress (stream_with_retry).
RequestsEnd == ~Idle ~> Idle

\* What a client is told is true, and it is told something: whole files, "not
\* found" only for what nobody has, and an end to every request.
AnswersAreTrue ==
  [](ProxyTypeOK /\ DeliversWholeFile) /\ [][NotFoundIsTrue]_proxyVars /\ RequestsEnd
=============================================================================
