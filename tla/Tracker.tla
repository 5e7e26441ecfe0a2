------------------------------ MODULE Tracker ------------------------------
(***************************************************************************)
(* The torrent tracker of core/modules/ngx_squ_btt.c and its announce call *)
(* for HTTP scripts, http/modules/ngx_squ_http_btt_module.c.  One zone of  *)
(* shared memory holds the torrents of the leechers and of the seeders, a  *)
(* list of peers for each, and lists of records that are free.  An         *)
(* announce of a worker enters the zone twice: to note the peer, and to    *)
(* read the list of the others; between the two any worker may enter it.   *)
(*                                                                         *)
(* A torrent is an info_hash, a peer a connection_id (which the handler    *)
(* makes of the address and the port).  Nothing expires: the body of       *)
(* ngx_btt_expire is compiled out, and a peer that stops stays listed.     *)
(***************************************************************************)
EXTENDS Naturals, Sequences, SequencesExt

CONSTANTS
    Workers,
    Torrents,
    Peers,
    Hash,         \* crc32 of a torrent or a peer: two may collide
    Wants,        \* what announces give as numwant; 0 where they give none
    TorrentRoom,  \* bound: chunks of the zone for torrents
    PeerRoom      \* bound: chunks of the zone for peers and peer infos

ASSUME TrackerAssumption ==
    /\ \A k \in Torrents \cup Peers : Hash[k] \in Nat
    /\ Wants \subseteq Nat
    /\ TorrentRoom \in Nat /\ PeerRoom \in Nat

VARIABLES
    torrents,   \* torrents[i]: a torrent of one side and its queue of peers
    peers,      \* peers[n]: the ngx_btt_peer_t in chunk n
    infos,      \* infos[n]: the ngx_btt_peer_info_t in chunk n
    freePeers,  \* btt->free_peers
    freeInfos,  \* btt->free_peer_infos
    used,       \* chunks for peers and infos taken from the slab so far
    call,       \* call[w]: the announce worker w is in, or the answer to its last
    said,       \* said[t][p]: "done" where p has said that it has all of t and not,
                \* not even in vain, the contrary since; "part" where it has
                \* been listed otherwise
    died        \* a worker has followed a null peer_info

lists == <<torrents, peers, infos, freePeers, freeInfos, used>>
vars == <<lists, call, said, died>>

Null == 0
Chunks == 1 .. PeerRoom
Sides == {"leechers", "seeders"}

NoPeer == [is |-> Null, info |-> Null]
NoInfo == [is |-> Null, left |-> 0]
Idle == [pc |-> "idle", peer |-> Null, torrent |-> Null, want |-> 0, answer |-> {}]

\* ngx_btt_init
Init ==
    /\ torrents = <<>>
    /\ peers = [n \in Chunks |-> NoPeer] /\ infos = [n \in Chunks |-> NoInfo]
    /\ freePeers = <<>> /\ freeInfos = <<>> /\ used = 0
    /\ call = [w \in Workers |-> Idle]
    /\ said = [t \in Torrents |-> [p \in Peers |-> "nothing"]]
    /\ died = FALSE

-----------------------------------------------------------------------------
(* Lookups and records.  The zone z is a record of the lists, so that the   *)
(* changes of one critical section can be put one after the other; "at" is  *)
(* the record an operation ends with, Null when the slab has no chunk.      *)

Zone == [torrents |-> torrents, peers |-> peers, infos |-> infos,
         freePeers |-> freePeers, freeInfos |-> freeInfos, used |-> used]

ZoneBecomes(z) ==
    /\ torrents' = z.torrents /\ peers' = z.peers /\ infos' = z.infos
    /\ freePeers' = z.freePeers /\ freeInfos' = z.freeInfos /\ used' = z.used

\* What a lookup of key k can end with: a record of k, or nothing where none is
\* in the tree or another key with the crc32 of k is (see KeyTree).
Lookup(k, recs, KeyOf) ==
    {r \in recs : KeyOf[r] = k}
    \cup {m \in {Null} : \/ \A r \in recs : KeyOf[r] # k
                         \/ \E r \in recs : KeyOf[r] # k /\ Hash[KeyOf[r]] = Hash[k]}

LookupTorrent(z, side, t) ==
    Lookup(t, {i \in DOMAIN z.torrents : z.torrents[i].side = side},
           [i \in DOMAIN z.torrents |-> z.torrents[i].is])

LookupPeer(z, i, p) ==
    IF i = Null THEN {Null}
    ELSE Lookup(p, ToSet(z.torrents[i].queue), [n \in Chunks |-> z.peers[n].is])

\* ngx_btt_get_torrent: free_torrents is never filled.
GetTorrent(z, side, t) ==
    IF Len(z.torrents) = TorrentRoom THEN [z |-> z, at |-> Null]
    ELSE [z |-> [z EXCEPT !.torrents =
                    Append(@, [side |-> side, is |-> t, queue |-> <<>>])],
          at |-> Len(z.torrents) + 1]

\* ngx_btt_get_peer, and peer_info = NULL after it: into tree and queue of
\* torrent i.
GetPeer(z, i, p) ==
    LET n == IF z.freePeers # <<>> THEN Head(z.freePeers) ELSE z.used + 1
    IN IF n > PeerRoom THEN [z |-> z, at |-> Null]
       ELSE [z |-> [z EXCEPT !.torrents[i].queue = <<n>> \o @,
                             !.peers[n] = [is |-> p, info |-> Null],
                             !.freePeers = IF @ # <<>> THEN Tail(@) ELSE @,
                             !.used = IF z.freePeers # <<>> THEN @ ELSE n],
             at |-> n]

\* ngx_btt_get_peer_info, for a peer n that has none.
GetInfo(z, n) ==
    LET m == IF z.freeInfos # <<>> THEN Head(z.freeInfos) ELSE z.used + 1
    IN IF z.peers[n].info # Null THEN [z |-> z, at |-> z.peers[n].info]
       ELSE IF m > PeerRoom THEN [z |-> z, at |-> Null]
       ELSE [z |-> [z EXCEPT !.peers[n].info = m,
                             !.freeInfos = IF @ # <<>> THEN Tail(@) ELSE @,
                             !.used = IF z.freeInfos # <<>> THEN @ ELSE m],
             at |-> m]

\* Variant: the info that went with the peer stays the peer's.
MoveInfoShared(z, from, to) ==
    IF from = Null \/ z.peers[to].info # Null THEN z
    ELSE [z EXCEPT !.peers[to].info = z.peers[from].info]

\* The leecher's info becomes the seeder's, if that has none.
MoveInfo(z, from, to) ==
    IF from = Null \/ z.peers[to].info # Null THEN z
    ELSE [z EXCEPT !.peers[to].info = z.peers[from].info,
                   !.peers[from].info = Null]

\* ngx_queue_remove of a peer that is linked.
Unlinked(q, n) == RemoveAt(q, CHOOSE k \in DOMAIN q : q[k] = n)

\* ngx_btt_free_peer: peer n leaves torrent i.
FreePeer(z, i, n) ==
    IF n = Null THEN z
    ELSE [z EXCEPT !.torrents[i].queue = Unlinked(@, n),
                   !.peers[n] = NoPeer,
                   !.freePeers = <<n>> \o @,
                   !.freeInfos = IF z.peers[n].info = Null THEN @
                                 ELSE <<z.peers[n].info>> \o @]

\* Find a torrent, or a peer of torrent i, or make one.
TheTorrent(z, side, t) ==
    {IF i = Null THEN GetTorrent(z, side, t) ELSE [z |-> z, at |-> i] :
        i \in LookupTorrent(z, side, t)}
ThePeer(z, i, p) ==
    {IF n = Null THEN GetPeer(z, i, p) ELSE [z |-> z, at |-> n] :
        n \in LookupPeer(z, i, p)}

-----------------------------------------------------------------------------
(* ngx_lua_http_btt_announce                                                *)

\* ngx_btt_update_peer with bytes left: torrent, peer and info among the
\* leechers, each found or made.  What fails leaves what was made before it.
LeecherUpdates(t, p) ==
    UNION {IF i.at = Null THEN {i}
           ELSE {IF n.at = Null THEN n ELSE GetInfo(n.z, n.at) :
                    n \in ThePeer(i.z, i.at, p)} :
              i \in TheTorrent(Zone, "leechers", t)}

\* Variant: a peer that has completed stays among the leechers.
SeederUpdatesAndStays(t, p) ==
    UNION {IF i.at = Null THEN {i}
           ELSE UNION {{IF n.at = Null THEN n
                        ELSE GetInfo(MoveInfo(n.z, old, n.at), n.at) :
                           n \in ThePeer(i.z, i.at, p)} :
                         old \in LookupPeer(i.z, j, p)} :
              i \in TheTorrent(Zone, "seeders", t),
              j \in LookupTorrent(Zone, "leechers", t)}

\* ngx_btt_update_peer with nothing left: torrent and peer among the seeders; the
\* info of the leecher goes with the peer, and the leecher goes.
SeederUpdates(t, p) ==
    UNION {IF i.at = Null THEN {i}
           ELSE UNION {{IF n.at = Null THEN n
                        ELSE LET r == GetInfo(MoveInfo(n.z, old, n.at), n.at)
                             IN IF r.at = Null THEN r
                                ELSE [z |-> FreePeer(r.z, j, old), at |-> r.at] :
                           n \in ThePeer(i.z, i.at, p)} :
                         old \in LookupPeer(i.z, j, p)} :
              i \in TheTorrent(Zone, "seeders", t),
              j \in LookupTorrent(Zone, "leechers", t)}

\* An announce that has been noted is at its end where its event is "stopped", and
\* goes on to query the list where it is another.
Afterwards(t, p) ==
    {Idle} \cup {[pc |-> "query", peer |-> p, torrent |-> t, want |-> want, answer |-> {}] :
                     want \in Wants}

\* The first critical section.  The context is zeroed, and ngx_lua_http_btt_check_args
\* looks at no number: a request without numwant asks for 0, one without left has
\* nothing left.  A request whose update fails is refused.
Update(w, t, p) ==
    /\ call[w].pc = "idle"
    /\ \E left \in {0, 1}, c \in Afterwards(t, p) :
          \E r \in IF left = 0 THEN SeederUpdates(t, p) ELSE LeecherUpdates(t, p) :
              IF r.at = Null
                THEN /\ ZoneBecomes(r.z)
                     /\ call' = [call EXCEPT ![w] = Idle]
                     /\ said' = [said EXCEPT ![t][p] =
                                    IF @ = "done" /\ left # 0 THEN "part" ELSE @]
                ELSE /\ ZoneBecomes([r.z EXCEPT !.infos[r.at] = [is |-> p, left |-> left]])
                     /\ call' = [call EXCEPT ![w] = c]
                     /\ said' = [said EXCEPT ![t][p] = IF left = 0 THEN "done" ELSE "part"]
    /\ UNCHANGED died

\* Peer n goes into the answer to announce c.
Other(c, n) == peers[n].info # Null /\ infos[peers[n].info].is # c.peer

Entry(n) == [info |-> peers[n].info, is |-> infos[peers[n].info].is]

\* Variant: the count is compared before it is increased.
FullPast(c, got) == c.want # 0 /\ Cardinality(got) = c.want + 1

\* The loop has counted up to numwant, which it never does to 0.
Full(c, got) == c.want # 0 /\ Cardinality(got) = c.want

\* ngx_btt_get_peer_list: the first of the queue that complete the answer to
\* numwant, or all, without the peer that asks.  A peer that was left without an
\* info when the zone was full is followed like any other.  The set is that of the
\* one list there is, with the place k where the loop ends.
GetPeerList(c, answer, queue) ==
    LET Got(k) == answer \cup {Entry(queue[l]) : l \in {l \in 1 .. k : Other(c, queue[l])}}
        Ends(k) == \/ k = Len(queue)
                   \/ Full(c, Got(k))
                   \/ peers[queue[k + 1]].info = Null
    IN {[got |-> Got(k), null |-> k # Len(queue) /\ ~Full(c, Got(k))] :
            k \in {k \in 0 .. Len(queue) : Ends(k) /\ \A l \in 0 .. k - 1 : ~Ends(l)}}

QueueOf(i) == IF i = Null THEN <<>> ELSE torrents[i].queue

\* ngx_btt_query_peers, the second critical section: the seeders first, then, if
\* they are not enough, the leechers.  A worker that follows a null pointer dies;
\* the master frees the mutex and starts another.
Query(w) ==
    /\ call[w].pc = "query"
    /\ \E i \in LookupTorrent(Zone, "seeders", call[w].torrent),
          j \in LookupTorrent(Zone, "leechers", call[w].torrent) :
          \E first \in GetPeerList(call[w], {}, QueueOf(i)) :
          \E all \in IF first.null \/ Cardinality(first.got) = call[w].want THEN {first}
                    ELSE GetPeerList(call[w], first.got, QueueOf(j)) :
             IF all.null
               THEN died' = TRUE /\ call' = [call EXCEPT ![w] = Idle]
               ELSE /\ call' = [call EXCEPT ![w] = [Idle EXCEPT !.answer = all.got]]
                    /\ UNCHANGED died
    /\ UNCHANGED <<lists, said>>

Next ==
    \E w \in Workers :
        \/ \E t \in Torrents, p \in Peers : Update(w, t, p)
        \/ Query(w)

Spec == Init /\ [][Next]_vars

-----------------------------------------------------------------------------
(* Properties                                                               *)

\* Every record the slab has given out is in one place: a peer in the queue of
\* one torrent or free, an info with one peer or free, and none is both, also
\* after peers have moved between leechers and seeders and updates have failed
\* half way; and the info of a peer speaks of that peer.
RecordsOwnedOnce ==
    LET queues == [i \in DOMAIN torrents |-> ToSet(torrents[i].queue)]
        listed == UNION {queues[i] : i \in DOMAIN torrents}
        held == {peers[n].info : n \in listed} \ {Null}
    IN /\ \A i, j \in DOMAIN torrents : i # j => queues[i] \cap queues[j] = {}
       /\ IsInjective(freePeers) /\ IsInjective(freeInfos)
       /\ \A i \in DOMAIN torrents : IsInjective(torrents[i].queue)
       /\ listed \cap ToSet(freePeers) = {} /\ held \cap ToSet(freeInfos) = {}
       /\ (listed \cup ToSet(freePeers)) \cap (held \cup ToSet(freeInfos)) = {}
       /\ \A m, n \in listed : peers[m].info = peers[n].info => m = n \/ peers[m].info = Null
       /\ \A n \in listed : peers[n].info # Null => infos[peers[n].info].is = peers[n].is
       /\ 1 .. used = listed \cup held \cup ToSet(freePeers) \cup ToSet(freeInfos)

Alone(k, others) == \A o \in others : Hash[o] = Hash[k] => o = k

\* A peer that has said that it has everything is listed as a seeder once and as
\* a leecher no more until it says the contrary, whichever workers took its
\* announces; only keys whose crc32 collide may be found twice.
CompletedIsNoLeecher ==
    \A t \in Torrents, p \in Peers :
        Alone(t, Torrents) /\ Alone(p, Peers) /\ said[t][p] = "done" =>
            LET At(side) == {n \in Chunks : \E i \in DOMAIN torrents :
                                /\ torrents[i].side = side /\ torrents[i].is = t
                                /\ n \in ToSet(torrents[i].queue) /\ peers[n].is = p}
            IN At("leechers") = {} /\ \E n \in Chunks : At("seeders") = {n}

\* An answer is of numwant peers or of all there are, of seeders and leechers: it is
\* no longer than a numwant that was given, and where it is not of so many every other
\* peer that has announced the torrent is in it, whichever worker it came to; and the
\* peer that asks never is.  An announce that gives none wants 0: to it the answer is
\* empty or of all.
AnswerComplete ==
    [][\A w \in Workers :
          LET c == call[w]
              got == {e.is : e \in call'[w].answer}
          IN c.pc = "query" /\ call'[w].pc = "idle" /\ ~died' =>
                /\ c.peer \notin got
                /\ \A p \in got : said[c.torrent][p] # "nothing"
                /\ c.want # 0 => Cardinality(call'[w].answer) <= c.want
                /\ Cardinality(call'[w].answer) # c.want /\ Alone(c.torrent, Torrents) =>
                      \A p \in Peers \ {c.peer} :
                          said[c.torrent][p] # "nothing" => p \in got]_vars

\* A worker dies of a peer without an info only when the zone has been exhausted.
OnlyFullZoneKills == died => used = PeerRoom

=============================================================================
