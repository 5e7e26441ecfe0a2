--------------------------- MODULE TrackerProofs ---------------------------
(* Invariance proofs for Tracker, for every instance of its constants. *)
EXTENDS Tracker, FiniteSetTheorems, SequenceTheorems, WellFoundedInduction, TLAPS

-----------------------------------------------------------------------------
(* The inductive invariant, over a zone z, so that it can be followed through *)
(* the changes of one critical section.                                       *)

TorrentType == [side : Sides, is : Torrents, queue : Seq(Chunks)]
PeerType == [is : Peers \cup {Null}, info : Chunks \cup {Null}]
InfoType == [is : Peers \cup {Null}, left : {0, 1}]

ZoneType ==
    [torrents : Seq(TorrentType), peers : [Chunks -> PeerType],
     infos : [Chunks -> InfoType], freePeers : Seq(Chunks),
     freeInfos : Seq(Chunks), used : 0 .. PeerRoom]

Queue(z, i) == ToSet(z.torrents[i].queue)
Listed(z) == {n \in Chunks : \E i \in DOMAIN z.torrents : n \in Queue(z, i)}
Held(z) == {m \in Chunks : \E n \in Listed(z) : z.peers[n].info = m}

\* Every record is in one place.
Owned(z) ==
    /\ \A i, j \in DOMAIN z.torrents : i # j => Queue(z, i) \cap Queue(z, j) = {}
    /\ \A i \in DOMAIN z.torrents : IsInjective(z.torrents[i].queue)
    /\ IsInjective(z.freePeers) /\ IsInjective(z.freeInfos)
    /\ Listed(z) \cap ToSet(z.freePeers) = {}
    /\ Held(z) \cap ToSet(z.freeInfos) = {}
    /\ (Listed(z) \cup ToSet(z.freePeers)) \cap (Held(z) \cup ToSet(z.freeInfos)) = {}
    /\ \A m, n \in Listed(z) :
          z.peers[m].info = z.peers[n].info => m = n \/ z.peers[m].info = Null
    /\ 1 .. z.used =
          Listed(z) \cup Held(z) \cup ToSet(z.freePeers) \cup ToSet(z.freeInfos)

\* What no other key can be taken for is found, and so never made twice.
Keyed(z) ==
    /\ \A n \in Listed(z) : z.peers[n].is \in Peers
    /\ \A i, j \in DOMAIN z.torrents :
          /\ z.torrents[i].side = z.torrents[j].side
          /\ z.torrents[i].is = z.torrents[j].is
          /\ Alone(z.torrents[i].is, Torrents)
          => i = j
    /\ \A i \in DOMAIN z.torrents : \A m, n \in Queue(z, i) :
          z.peers[m].is = z.peers[n].is /\ Alone(z.peers[m].is, Peers) => m = n

Speaks(z) ==
    \A n \in Listed(z) :
        z.peers[n].info # Null => z.infos[z.peers[n].info].is = z.peers[n].is

\* A peer is left without an info only when there is no chunk.
NoneBare(z) == \A n \in Listed(z) : z.peers[n].info = Null => z.used = PeerRoom

ZoneOK(z) == z \in ZoneType /\ Owned(z) /\ Keyed(z)

\* Peer p of torrent t is in chunk n, on this side.
In(z, side, t, p, n) ==
    \E i \in DOMAIN z.torrents :
        /\ z.torrents[i].side = side /\ z.torrents[i].is = t
        /\ n \in Queue(z, i) /\ z.peers[n].is = p

\* What peer p has said of torrent t last, x, is what the lists say.
Fits(z, x, t, p) ==
    /\ x = "done" /\ Alone(t, Torrents) /\ Alone(p, Peers) =>
          /\ \A n \in Chunks : ~In(z, "leechers", t, p, n)
          /\ \E n \in Chunks : In(z, "seeders", t, p, n)
    /\ (x # "nothing") <=>
          \E side \in Sides, n \in Chunks :
              In(z, side, t, p, n) /\ z.peers[n].info # Null

SaidOK(z, s) ==
    /\ s \in [Torrents -> [Peers -> {"nothing", "part", "done"}]]
    /\ \A t \in Torrents, p \in Peers : Fits(z, s[t][p], t, p)

CallType ==
    [pc : {"idle", "query"}, peer : Peers \cup {Null}, torrent : Torrents \cup {Null},
     want : Nat, answer : SUBSET [info : Chunks, is : Peers \cup {Null}]]

CallInv ==
    /\ call \in [Workers -> CallType]
    /\ \A w \in Workers : call[w].pc = "query" =>
          call[w].torrent \in Torrents /\ call[w].peer \in Peers

IInv ==
    /\ ZoneOK(Zone) /\ Speaks(Zone) /\ NoneBare(Zone) /\ SaidOK(Zone, said)
    /\ CallInv /\ OnlyFullZoneKills

-----------------------------------------------------------------------------
(* Queues                                                                   *)

\* Taking a record out of a queue takes out that one and no other.
LEMMA UnlinkedLemma ==
    ASSUME NEW S, NEW q \in Seq(S), IsInjective(q), NEW n \in ToSet(q)
    PROVE  /\ Unlinked(q, n) \in Seq(S)
           /\ Len(Unlinked(q, n)) = Len(q) - 1
           /\ IsInjective(Unlinked(q, n))
           /\ ToSet(Unlinked(q, n)) = ToSet(q) \ {n}
<1> DEFINE i == CHOOSE j \in DOMAIN q : q[j] = n
           w == Unlinked(q, n)
<1>1. Len(q) \in Nat /\ DOMAIN q = 1 .. Len(q)
  OBVIOUS
<1>2. i \in 1 .. Len(q) /\ q[i] = n
  BY <1>1 DEF ToSet
<1> HIDE DEF i
<1> DEFINE a == SubSeq(q, 1, i - 1)
           b == SubSeq(q, i + 1, Len(q))
<1>3. w = a \o b
  BY DEF i, Unlinked, RemoveAt
<1>a. a \in Seq(S) /\ Len(a) = i - 1 /\ \A k \in 1 .. i - 1 : a[k] = q[k]
  BY <1>1, <1>2, SMT
<1>b. b \in Seq(S) /\ Len(b) = Len(q) - i /\ \A k \in 1 .. Len(q) - i : b[k] = q[k + i]
  <2> DEFINE m == i + 1
             l == Len(q)
  <2>1. m \in Int /\ l \in Int /\ \A k \in m .. l : q[k] \in S
    BY <1>1, <1>2
  <2>2. b = SubSeq(q, m, l) /\ m = i + 1 /\ l = Len(q)
    OBVIOUS
  <2> HIDE DEF m, l, b
  <2>3. SubSeq(q, m, l) \in Seq(S)
    BY <2>1, SubSeqProperties, Zenon
  <2>4. Len(SubSeq(q, m, l)) = IF m <= l THEN l - m + 1 ELSE 0
    BY <2>1, SubSeqProperties, SMT
  <2>5. \A k \in 1 .. l - m + 1 : SubSeq(q, m, l)[k] = q[m + k - 1]
    BY <2>1, SubSeqProperties, SMT
  <2> QED
    BY <2>2, <2>3, <2>4, <2>5, <1>1, <1>2
<1> HIDE DEF a, b, w
<1>d. /\ w \in Seq(S) /\ Len(w) = Len(a) + Len(b)
      /\ \A k \in 1 .. Len(a) + Len(b) :
            w[k] = IF k <= Len(a) THEN a[k] ELSE b[k - Len(a)]
  BY <1>3, <1>a, <1>b, ConcatProperties, Zenon
<1>4. w \in Seq(S) /\ Len(w) = Len(q) - 1
  BY <1>1, <1>2, <1>a, <1>b, <1>d
<1>5. DOMAIN w = 1 .. Len(q) - 1
  BY <1>4, <1>1
<1>6. ASSUME NEW k \in 1 .. Len(q) - 1 PROVE w[k] = IF k < i THEN q[k] ELSE q[k + 1]
  <2>1. w[k] = IF k <= i - 1 THEN a[k] ELSE b[k - (i - 1)]
    BY <1>1, <1>2, <1>a, <1>b, <1>d
  <2>2. CASE k < i
    BY <2>1, <2>2, <1>1, <1>2, <1>a
  <2>3. CASE ~ (k < i)
    <3>1. k - (i - 1) \in 1 .. Len(q) - i /\ (k - (i - 1)) + i = k + 1
      BY <2>3, <1>1, <1>2
    <3> QED
      BY <2>1, <2>3, <3>1, <1>1, <1>2, <1>b
  <2> QED
    BY <2>2, <2>3
<1>7. IsInjective(w)
  BY <1>1, <1>2, <1>5, <1>6, SMTT(30) DEF IsInjective
<1>8. ToSet(w) \subseteq ToSet(q) \ {n}
  BY <1>1, <1>2, <1>5, <1>6 DEF IsInjective, ToSet
<1>9. ASSUME NEW m \in ToSet(q) \ {n} PROVE m \in ToSet(w)
  <2>1. PICK j \in 1 .. Len(q) : q[j] = m
    BY <1>1 DEF ToSet
  <2>2. CASE j < i
    <3>1. j \in DOMAIN w /\ w[j] = m
      BY <2>1, <2>2, <1>1, <1>2, <1>5, <1>6
    <3> QED
      BY <3>1 DEF ToSet
  <2>3. CASE j > i
    <3>1. j - 1 \in DOMAIN w /\ w[j - 1] = m
      BY <2>1, <2>3, <1>1, <1>2, <1>5, <1>6
    <3> QED
      BY <3>1 DEF ToSet
  <2>4. j # i
    BY <2>1, <1>2
  <2> QED
    BY <2>1, <2>2, <2>3, <2>4, <1>2
<1> QED
  BY <1>4, <1>7, <1>8, <1>9 DEF w

\* Linking a record that is not in the queue, at its head.
LEMMA PrependLemma ==
    ASSUME NEW S, NEW q \in Seq(S), IsInjective(q), NEW n \in S, n \notin ToSet(q)
    PROVE  /\ <<n>> \o q \in Seq(S)
           /\ Len(<<n>> \o q) = Len(q) + 1
           /\ IsInjective(<<n>> \o q)
           /\ ToSet(<<n>> \o q) = ToSet(q) \cup {n}
<1> DEFINE w == <<n>> \o q
<1>1. Len(q) \in Nat /\ DOMAIN q = 1 .. Len(q)
  OBVIOUS
<1>2. w \in Seq(S) /\ Len(w) = Len(q) + 1 /\ DOMAIN w = 1 .. Len(q) + 1
  OBVIOUS
<1>3. \A k \in 1 .. Len(q) + 1 : w[k] = IF k = 1 THEN n ELSE q[k - 1]
  OBVIOUS
<1> HIDE DEF w
<1>4. IsInjective(w)
  BY <1>1, <1>2, <1>3 DEF IsInjective, ToSet
<1>5. ToSet(w) \subseteq ToSet(q) \cup {n}
  BY <1>1, <1>2, <1>3 DEF ToSet
<1>6. n \in ToSet(w)
  <2>1. 1 \in DOMAIN w /\ w[1] = n
    BY <1>1, <1>2, <1>3
  <2> QED
    BY <2>1 DEF ToSet
<1>7. ASSUME NEW m \in ToSet(q) PROVE m \in ToSet(w)
  <2>1. PICK j \in 1 .. Len(q) : q[j] = m
    BY <1>1 DEF ToSet
  <2>2. j + 1 \in DOMAIN w /\ w[j + 1] = m
    BY <2>1, <1>1, <1>2, <1>3
  <2> QED
    BY <2>2 DEF ToSet
<1> QED
  BY <1>2, <1>4, <1>5, <1>6, <1>7 DEF w

\* Taking the first record of a free list.
LEMMA HeadTailLemma ==
    ASSUME NEW S, NEW q \in Seq(S), IsInjective(q), q # <<>>
    PROVE  /\ Tail(q) \in Seq(S) /\ IsInjective(Tail(q))
           /\ Head(q) \in S /\ Head(q) \in ToSet(q)
           /\ ToSet(Tail(q)) = ToSet(q) \ {Head(q)}
<1> DEFINE w == Tail(q)
<1>1. Len(q) \in Nat \ {0} /\ DOMAIN q = 1 .. Len(q)
  OBVIOUS
<1>2. w \in Seq(S) /\ Len(w) = Len(q) - 1 /\ DOMAIN w = 1 .. Len(q) - 1
  BY <1>1
<1>3. \A k \in 1 .. Len(q) - 1 : w[k] = q[k + 1]
  BY <1>1
<1>4. 1 \in DOMAIN q /\ Head(q) = q[1] /\ Head(q) \in S
  BY <1>1
<1> HIDE DEF w
<1>5. IsInjective(w)
  <2> SUFFICES ASSUME NEW k \in 1 .. Len(q) - 1, NEW l \in 1 .. Len(q) - 1, w[k] = w[l]
               PROVE  k = l
    BY <1>2 DEF IsInjective
  <2>1. k + 1 \in DOMAIN q /\ l + 1 \in DOMAIN q /\ q[k + 1] = q[l + 1]
    BY <1>1, <1>3
  <2>2. k + 1 = l + 1
    BY <2>1 DEF IsInjective
  <2> QED
    BY <2>2, <1>1
<1>6. ASSUME NEW k \in 1 .. Len(q) - 1 PROVE w[k] \in ToSet(q) \ {q[1]}
  <2>1. k + 1 \in DOMAIN q /\ w[k] = q[k + 1] /\ k + 1 # 1
    BY <1>1, <1>3
  <2> QED
    BY <2>1, <1>4 DEF ToSet, IsInjective
<1>7. ASSUME NEW m \in ToSet(q) \ {q[1]} PROVE m \in ToSet(w)
  <2>1. PICK j \in 1 .. Len(q) : q[j] = m
    BY <1>1 DEF ToSet
  <2>2. j - 1 \in DOMAIN w /\ w[j - 1] = m
    BY <2>1, <1>1, <1>2, <1>3
  <2> QED
    BY <2>2 DEF ToSet
<1>8. Head(q) \in ToSet(q)
  BY <1>4 DEF ToSet
<1>9. ToSet(w) \subseteq ToSet(q) \ {q[1]}
  BY <1>2, <1>6 DEF ToSet
<1> QED
  BY <1>2, <1>4, <1>5, <1>7, <1>8, <1>9 DEF w

-----------------------------------------------------------------------------
(* Lookups                                                                  *)

LEMMA ZoneFields ==
    ASSUME NEW z, z \in ZoneType
    PROVE  /\ z.torrents \in Seq(TorrentType) /\ Len(z.torrents) \in Nat
           /\ DOMAIN z.torrents = 1 .. Len(z.torrents) /\ Null \notin DOMAIN z.torrents
           /\ \A i \in DOMAIN z.torrents :
                 /\ z.torrents[i] \in TorrentType /\ z.torrents[i].queue \in Seq(Chunks)
                 /\ z.torrents[i].side \in Sides /\ z.torrents[i].is \in Torrents
                 /\ Queue(z, i) \subseteq Listed(z)
           /\ z.peers \in [Chunks -> PeerType] /\ z.infos \in [Chunks -> InfoType]
           /\ \A n \in Chunks : z.peers[n].info \in Chunks \cup {Null}
           /\ z.freePeers \in Seq(Chunks) /\ z.freeInfos \in Seq(Chunks)
           /\ z.used \in Nat /\ z.used <= PeerRoom /\ Null \notin Chunks
<1>1. /\ z.torrents \in Seq(TorrentType)
      /\ z.peers \in [Chunks -> PeerType] /\ z.infos \in [Chunks -> InfoType]
      /\ z.freePeers \in Seq(Chunks) /\ z.freeInfos \in Seq(Chunks)
      /\ z.used \in 0 .. PeerRoom
  BY DEF ZoneType
<1>2. Len(z.torrents) \in Nat /\ DOMAIN z.torrents = 1 .. Len(z.torrents)
  BY <1>1
<1>3. Null \notin DOMAIN z.torrents /\ Null \notin Chunks
  BY <1>2, TrackerAssumption DEF Null, Chunks
<1>4. ASSUME NEW i \in DOMAIN z.torrents
      PROVE  /\ z.torrents[i] \in TorrentType /\ z.torrents[i].queue \in Seq(Chunks)
             /\ z.torrents[i].side \in Sides /\ z.torrents[i].is \in Torrents
             /\ Queue(z, i) \subseteq Listed(z)
  <2>1. z.torrents[i] \in TorrentType
    BY <1>1, <1>2
  <2>2. /\ z.torrents[i].queue \in Seq(Chunks)
        /\ z.torrents[i].side \in Sides /\ z.torrents[i].is \in Torrents
    BY <2>1 DEF TorrentType
  <2>3. Queue(z, i) \subseteq Chunks
    BY <2>2 DEF Queue, ToSet
  <2> QED
    BY <2>1, <2>2, <2>3 DEF Listed
<1>5. \A n \in Chunks : z.peers[n].info \in Chunks \cup {Null}
  BY <1>1 DEF PeerType
<1>6. z.used \in Nat /\ z.used <= PeerRoom
  BY <1>1, TrackerAssumption
<1> QED
  BY <1>1, <1>2, <1>3, <1>4, <1>5, <1>6

\* Only a key with the same crc32 can hide a torrent, or a peer of a torrent.
LEMMA LookupTorrentLemma ==
    ASSUME NEW z, z \in ZoneType, NEW side, NEW t \in Torrents,
           NEW i, i \in LookupTorrent(z, side, t)
    PROVE  /\ i # Null => /\ i \in DOMAIN z.torrents
                          /\ z.torrents[i].side = side /\ z.torrents[i].is = t
           /\ i = Null /\ Alone(t, Torrents) =>
                 \A j \in DOMAIN z.torrents : z.torrents[j].side = side => z.torrents[j].is # t
<1> DEFINE recs == {j \in DOMAIN z.torrents : z.torrents[j].side = side}
           KeyOf == [j \in DOMAIN z.torrents |-> z.torrents[j].is]
<1>1. \/ i \in recs /\ KeyOf[i] = t
      \/ i = Null /\ \/ \A r \in recs : KeyOf[r] # t
                     \/ \E r \in recs : KeyOf[r] # t /\ Hash[KeyOf[r]] = Hash[t]
  BY DEF LookupTorrent, Lookup
<1>2. Null \notin DOMAIN z.torrents /\ \A j \in DOMAIN z.torrents : z.torrents[j].is \in Torrents
  BY ZoneFields
<1> QED
  BY <1>1, <1>2 DEF Alone

LEMMA LookupPeerLemma ==
    ASSUME NEW z, z \in ZoneType, Keyed(z), NEW i, i \in DOMAIN z.torrents \cup {Null},
           NEW p \in Peers, NEW n, n \in LookupPeer(z, i, p)
    PROVE  /\ n # Null => /\ i \in DOMAIN z.torrents
                          /\ n \in Queue(z, i) /\ n \in Listed(z) /\ z.peers[n].is = p
           /\ n = Null /\ i # Null /\ Alone(p, Peers) =>
                 \A m \in Queue(z, i) : z.peers[m].is # p
<1>1. CASE i = Null
  BY <1>1 DEF LookupPeer
<1>2. CASE i # Null
  <2> DEFINE recs == ToSet(z.torrents[i].queue)
             KeyOf == [m \in Chunks |-> z.peers[m].is]
  <2>1. i \in DOMAIN z.torrents /\ recs = Queue(z, i) /\ Queue(z, i) \subseteq Listed(z)
    BY <1>2, ZoneFields DEF Queue
  <2>2. Listed(z) \subseteq Chunks /\ Null \notin Chunks /\ \A m \in Listed(z) : z.peers[m].is \in Peers
    BY ZoneFields DEF Listed, Keyed
  <2>3. \/ n \in recs /\ KeyOf[n] = p
        \/ n = Null /\ \/ \A r \in recs : KeyOf[r] # p
                       \/ \E r \in recs : KeyOf[r] # p /\ Hash[KeyOf[r]] = Hash[p]
    BY <1>2 DEF LookupPeer, Lookup
  <2>4. \A m \in recs : KeyOf[m] = z.peers[m].is /\ KeyOf[m] \in Peers /\ m # Null
    BY <2>1, <2>2
  <2> HIDE DEF KeyOf, recs
  <2> QED
    BY <2>1, <2>3, <2>4, <1>2 DEF Alone
<1> QED
  BY <1>1, <1>2

\* A chunk is in the queue of one torrent.
LEMMA InUnique ==
    ASSUME NEW z, Owned(z), NEW i \in DOMAIN z.torrents, NEW n \in Queue(z, i)
    PROVE  \A s, t, p : In(z, s, t, p, n) <=> /\ s = z.torrents[i].side
                                            /\ t = z.torrents[i].is
                                            /\ p = z.peers[n].is
BY DEF Owned, In

-----------------------------------------------------------------------------
(* What the parts of an update do to a zone                                 *)

\* Outside the chunks X the zone z2 lists the same peers as z, with the same infos.
Differ(z, z2, X) ==
    /\ \A n \in Chunks \ X :
          /\ \A s, t, p : In(z2, s, t, p, n) <=> In(z, s, t, p, n)
          /\ n \in Listed(z2) <=> n \in Listed(z)
          /\ z2.peers[n] = z.peers[n]
    /\ z2.infos = z.infos
    /\ z.used = PeerRoom => z2.used = PeerRoom

\* A torrent that is found or made changes nothing for the peers.
LEMMA TheTorrentLemma ==
    ASSUME NEW z, ZoneOK(z), NEW side \in Sides, NEW t \in Torrents,
           NEW r, r \in TheTorrent(z, side, t)
    PROVE  /\ ZoneOK(r.z) /\ Differ(z, r.z, {})
           /\ r.at = Null => r.z = z
           /\ r.at # Null => /\ r.at \in DOMAIN r.z.torrents
                             /\ r.z.torrents[r.at].side = side
                             /\ r.z.torrents[r.at].is = t
           /\ \A i \in DOMAIN z.torrents :
                 i \in DOMAIN r.z.torrents /\ r.z.torrents[i] = z.torrents[i]
<1> USE TrackerAssumption
<1>1. PICK i \in LookupTorrent(z, side, t) :
            r = IF i = Null THEN GetTorrent(z, side, t) ELSE [z |-> z, at |-> i]
  BY DEF TheTorrent
<1>2. z \in ZoneType /\ Owned(z) /\ Keyed(z)
  BY DEF ZoneOK
<1>3. CASE i # Null
  <2>1. r.z = z /\ r.at = i
    BY <1>1, <1>3
  <2> QED
    BY <2>1, <1>2, <1>3, LookupTorrentLemma DEF ZoneOK, Differ
<1>4. CASE i = Null /\ Len(z.torrents) = TorrentRoom
  <2>1. r.z = z /\ r.at = Null
    BY <1>1, <1>4 DEF GetTorrent
  <2> QED
    BY <2>1 DEF Differ
<1>5. CASE i = Null /\ Len(z.torrents) # TorrentRoom
  <2> DEFINE rec == [side |-> side, is |-> t, queue |-> <<>>]
             y == r.z
             l == Len(z.torrents)
  <2>1. y = [z EXCEPT !.torrents = Append(z.torrents, rec)] /\ r.at = l + 1
    BY <1>1, <1>5 DEF GetTorrent
  <2>2. /\ z.torrents \in Seq(TorrentType) /\ l \in Nat /\ DOMAIN z.torrents = 1 .. l
        /\ \A k \in DOMAIN z.torrents : z.torrents[k].side \in Sides /\ z.torrents[k].is \in Torrents
    BY <1>2, ZoneFields
  <2>3. rec \in TorrentType /\ rec.side = side /\ rec.is = t /\ rec.queue = <<>>
    BY DEF TorrentType
  <2> HIDE DEF y, rec
  <2>4. /\ y.torrents = Append(z.torrents, rec)
        /\ y.peers = z.peers /\ y.infos = z.infos /\ y.freePeers = z.freePeers
        /\ y.freeInfos = z.freeInfos /\ y.used = z.used
    BY <2>1, <1>2 DEF ZoneType
  <2>5. /\ y.torrents \in Seq(TorrentType) /\ DOMAIN y.torrents = 1 .. l + 1
        /\ \A k \in 1 .. l : y.torrents[k] = z.torrents[k]
        /\ y.torrents[l + 1] = rec
    BY <2>2, <2>3, <2>4
  <2>6. y \in ZoneType
    <3> DEFINE q == Append(z.torrents, rec)
    <3>1. q \in Seq(TorrentType)
      BY <2>2, <2>3
    <3>2. y = [z EXCEPT !.torrents = q]
      BY <2>1
    <3> HIDE DEF q
    <3> QED
      BY <3>1, <3>2, <1>2 DEF ZoneType
  <2>7. 1 .. l + 1 = (1 .. l) \cup {l + 1} /\ l + 1 \notin 1 .. l /\ l + 1 # Null
    BY <2>2 DEF Null
  <2> HIDE DEF l
  <2>8. \A k \in 1 .. l : Queue(y, k) = Queue(z, k)
    BY <2>5 DEF Queue
  <2>9. Queue(y, l + 1) = {} /\ IsInjective(rec.queue)
    <3>1. <<>> \in Seq(Nat) /\ DOMAIN <<>> = {}
      OBVIOUS
    <3>2. ToSet(<<>>) = {} /\ IsInjective(<<>>)
      BY <3>1 DEF ToSet, IsInjective
    <3> QED
      BY <3>2, <2>3, <2>5 DEF Queue
  <2>10. Listed(y) = Listed(z)
    BY <2>2, <2>5, <2>7, <2>8, <2>9 DEF Listed
  <2>11. Held(y) = Held(z)
    BY <2>4, <2>10 DEF Held
  <2>12. \A s, u, p, n : In(y, s, u, p, n) <=> In(z, s, u, p, n)
    BY <2>2, <2>4, <2>5, <2>7, <2>8, <2>9 DEF In
  <2>13. Owned(y)
    <3>1. \A j, k \in DOMAIN y.torrents : j # k => Queue(y, j) \cap Queue(y, k) = {}
      BY <1>2, <2>2, <2>5, <2>7, <2>8, <2>9 DEF Owned
    <3>2. \A k \in DOMAIN y.torrents : IsInjective(y.torrents[k].queue)
      BY <1>2, <2>2, <2>5, <2>7, <2>9 DEF Owned
    <3> QED
      BY <3>1, <3>2, <1>2, <2>4, <2>10, <2>11 DEF Owned
  <2>14. Keyed(y)
    <3>1. \A n \in Listed(y) : y.peers[n].is \in Peers
      BY <1>2, <2>4, <2>10 DEF Keyed
    <3>2. \A k \in DOMAIN y.torrents : \A m, n \in Queue(y, k) :
             y.peers[m].is = y.peers[n].is /\ Alone(y.peers[m].is, Peers) => m = n
      BY <1>2, <2>2, <2>4, <2>5, <2>7, <2>8, <2>9 DEF Keyed
    <3>3. Alone(t, Torrents) => \A j \in 1 .. l : z.torrents[j].side = side => z.torrents[j].is # t
      BY <1>2, <1>5, <2>2, LookupTorrentLemma
    <3>4. \A j, k \in DOMAIN y.torrents :
             /\ y.torrents[j].side = y.torrents[k].side
             /\ y.torrents[j].is = y.torrents[k].is
             /\ Alone(y.torrents[j].is, Torrents)
             => j = k
      BY <1>2, <2>2, <2>3, <2>5, <2>7, <3>3 DEF Keyed
    <3> QED
      BY <3>1, <3>2, <3>4 DEF Keyed
  <2> QED
    BY <2>1, <2>2, <2>3, <2>4, <2>5, <2>6, <2>7, <2>10, <2>12, <2>13, <2>14 DEF ZoneOK, Differ, y
<1> QED
  BY <1>3, <1>4, <1>5

\* Peer p has been found or made in torrent i.
PeerThere(z, i, p, r) ==
    /\ ZoneOK(r.z)
    /\ r.at = Null => r.z = z
    /\ r.at # Null => /\ r.at \in Queue(r.z, i) /\ r.at \in Listed(r.z)
                      /\ r.z.peers[r.at].is = p
                      /\ Differ(z, r.z, {r.at})
                      /\ r.at \in Listed(z) => r.z = z
    /\ DOMAIN r.z.torrents = DOMAIN z.torrents
    /\ \A k \in DOMAIN z.torrents :
          /\ r.z.torrents[k].side = z.torrents[k].side
          /\ r.z.torrents[k].is = z.torrents[k].is
          /\ k # i => Queue(r.z, k) = Queue(z, k)

\* A peer that is not found is made at the head of its torrent, without an info.
LEMMA ThePeerLemma ==
    ASSUME NEW z, ZoneOK(z), NEW i \in DOMAIN z.torrents, NEW p \in Peers,
           NEW r, r \in ThePeer(z, i, p)
    PROVE  PeerThere(z, i, p, r)
<1> USE TrackerAssumption
<1>1. PICK o \in LookupPeer(z, i, p) :
            r = IF o = Null THEN GetPeer(z, i, p) ELSE [z |-> z, at |-> o]
  BY DEF ThePeer
<1>2. z \in ZoneType /\ Owned(z) /\ Keyed(z)
  BY DEF ZoneOK
<1>3. CASE o # Null
  <2>1. r.z = z /\ r.at = o
    BY <1>1, <1>3
  <2>2. o \in Queue(z, i) /\ o \in Listed(z) /\ z.peers[o].is = p
    BY <1>2, <1>3, LookupPeerLemma
  <2> QED
    BY <2>1, <2>2, <1>3 DEF Differ, PeerThere
<1> DEFINE n == IF z.freePeers # <<>> THEN Head(z.freePeers) ELSE z.used + 1
<1>4. CASE o = Null /\ n > PeerRoom
  <2>1. r.z = z /\ r.at = Null
    BY <1>1, <1>4 DEF GetPeer
  <2> QED
    BY <2>1 DEF PeerThere
<1>5. CASE o = Null /\ ~(n > PeerRoom)
  <2> DEFINE y == r.z
             q == z.torrents[i].queue
             w == <<n>> \o q
             rec == [z.torrents[i] EXCEPT !.queue = w]
             tor == [z.torrents EXCEPT ![i] = rec]
             pr == [is |-> p, info |-> Null]
             ps == [z.peers EXCEPT ![n] = pr]
             free == IF z.freePeers # <<>> THEN Tail(z.freePeers) ELSE z.freePeers
             us == IF z.freePeers # <<>> THEN z.used ELSE n
  <2>1. y = [z EXCEPT !.torrents = tor, !.peers = ps, !.freePeers = free, !.used = us]
        /\ r.at = n
    BY <1>1, <1>5 DEF GetPeer
  <2>2. /\ z.torrents \in Seq(TorrentType) /\ q \in Seq(Chunks)
        /\ z.torrents[i] \in TorrentType
        /\ z.freePeers \in Seq(Chunks) /\ IsInjective(z.freePeers)
        /\ z.used \in Nat /\ z.used <= PeerRoom
        /\ z.peers \in [Chunks -> PeerType]
        /\ Queue(z, i) \subseteq Listed(z) /\ Queue(z, i) = ToSet(q) /\ IsInjective(q)
    BY <1>2, ZoneFields DEF Owned, Queue
  <2>3. /\ free \in Seq(Chunks) /\ IsInjective(free) /\ us \in 0 .. PeerRoom
        /\ n \in Chunks /\ n \notin Listed(z) /\ n \notin Held(z)
        /\ n \notin ToSet(z.freeInfos) /\ n \notin ToSet(free)
        /\ ToSet(free) \subseteq ToSet(z.freePeers)
        /\ z.used = PeerRoom => us = PeerRoom
        /\ 1 .. us = Listed(z) \cup {n} \cup Held(z) \cup ToSet(free) \cup ToSet(z.freeInfos)
    <3>1. CASE z.freePeers # <<>>
      <4>1. n = Head(z.freePeers) /\ free = Tail(z.freePeers) /\ us = z.used
        BY <3>1
      <4>2. /\ free \in Seq(Chunks) /\ IsInjective(free) /\ n \in Chunks
            /\ n \in ToSet(z.freePeers) /\ ToSet(free) = ToSet(z.freePeers) \ {n}
        BY <3>1, <4>1, <2>2, HeadTailLemma
      <4> HIDE DEF n, free, us
      <4>3. us \in 0 .. PeerRoom
        BY <4>1, <2>2
      <4>4. n \notin Listed(z) /\ n \notin Held(z) /\ n \notin ToSet(z.freeInfos)
        BY <4>2, <1>2 DEF Owned
      <4> QED
        BY <4>1, <4>2, <4>3, <4>4, <1>2 DEF Owned
    <3>2. CASE z.freePeers = <<>>
      <4>1. n = z.used + 1 /\ free = z.freePeers /\ us = n
        BY <3>2
      <4> HIDE DEF n, free, us
      <4>2. n \in 1 .. PeerRoom /\ us \in 0 .. PeerRoom /\ z.used # PeerRoom
        BY <4>1, <1>5, <2>2
      <4>3. 1 .. us = (1 .. z.used) \cup {n} /\ n \notin 1 .. z.used
        BY <4>1, <2>2
      <4>4. 1 .. z.used = Listed(z) \cup Held(z) \cup ToSet(z.freePeers) \cup ToSet(z.freeInfos)
        BY <1>2 DEF Owned
      <4> QED
        BY <4>1, <4>2, <4>3, <4>4, <2>2 DEF Chunks
    <3> QED
      BY <3>1, <3>2
  <2> HIDE DEF n, free, us
  <2>4. n \notin ToSet(q)
    BY <2>2, <2>3
  <2>5. w \in Seq(Chunks) /\ IsInjective(w) /\ ToSet(w) = ToSet(q) \cup {n}
    BY <2>2, <2>3, <2>4, PrependLemma
  <2> HIDE DEF w
  <2>6. /\ rec \in TorrentType /\ rec.queue = w
        /\ rec.side = z.torrents[i].side /\ rec.is = z.torrents[i].is
    BY <2>2, <2>5 DEF TorrentType
  <2> HIDE DEF rec
  <2>7. /\ tor \in Seq(TorrentType) /\ DOMAIN tor = DOMAIN z.torrents /\ tor[i] = rec
        /\ \A k \in DOMAIN z.torrents : k # i => tor[k] = z.torrents[k]
    BY <2>2, <2>6
  <2> HIDE DEF tor
  <2>8. pr \in PeerType /\ pr.is = p /\ pr.info = Null
    BY DEF PeerType
  <2> HIDE DEF pr
  <2>9. /\ ps \in [Chunks -> PeerType] /\ ps[n] = pr
        /\ \A m \in Chunks : m # n => ps[m] = z.peers[m]
    BY <2>2, <2>3, <2>8
  <2> HIDE DEF ps
  <2>10. /\ y \in ZoneType /\ y.torrents = tor /\ y.peers = ps /\ y.freePeers = free
         /\ y.used = us /\ y.infos = z.infos /\ y.freeInfos = z.freeInfos
    BY <1>2, <2>1, <2>3, <2>7, <2>9 DEF ZoneType
  <2> HIDE DEF y, q
  <2>11. /\ Queue(y, i) = Queue(z, i) \cup {n}
         /\ \A k \in DOMAIN z.torrents : k # i => Queue(y, k) = Queue(z, k)
    BY <2>2, <2>5, <2>6, <2>7, <2>10 DEF Queue
  <2>12. Listed(y) = Listed(z) \cup {n}
    BY <2>3, <2>7, <2>10, <2>11 DEF Listed
  <2>13. Null \notin Chunks /\ Listed(z) \subseteq Chunks
    BY <1>2, ZoneFields DEF Listed
  <2>14. Held(y) = Held(z)
    BY <2>3, <2>8, <2>9, <2>10, <2>12, <2>13 DEF Held
  <2>15. Owned(y)
    <3>1. \A j, k \in DOMAIN y.torrents : j # k => Queue(y, j) \cap Queue(y, k) = {}
      <4>1. \A k \in DOMAIN z.torrents : n \notin Queue(z, k)
        BY <2>3, <1>2, ZoneFields
      <4> QED
        BY <4>1, <1>2, <2>7, <2>10, <2>11 DEF Owned
    <3>2. \A k \in DOMAIN y.torrents : IsInjective(y.torrents[k].queue)
      BY <1>2, <2>5, <2>6, <2>7, <2>10 DEF Owned
    <3>3. \A m, k \in Listed(y) :
             y.peers[m].info = y.peers[k].info => m = k \/ y.peers[m].info = Null
      BY <1>2, <2>3, <2>8, <2>9, <2>10, <2>12, <2>13 DEF Owned
    <3>4. /\ Listed(y) \cap ToSet(y.freePeers) = {}
          /\ Held(y) \cap ToSet(y.freeInfos) = {}
          /\ (Listed(y) \cup ToSet(y.freePeers)) \cap (Held(y) \cup ToSet(y.freeInfos)) = {}
          /\ 1 .. y.used = Listed(y) \cup Held(y) \cup ToSet(y.freePeers) \cup ToSet(y.freeInfos)
      <4>1. /\ Listed(z) \cap ToSet(z.freePeers) = {} /\ Held(z) \cap ToSet(z.freeInfos) = {}
            /\ (Listed(z) \cup ToSet(z.freePeers)) \cap (Held(z) \cup ToSet(z.freeInfos)) = {}
        BY <1>2 DEF Owned
      <4> QED
        BY <4>1, <2>3, <2>10, <2>12, <2>14
    <3>5. IsInjective(y.freePeers) /\ IsInjective(y.freeInfos)
      BY <1>2, <2>3, <2>10 DEF Owned
    <3> QED
      BY <3>1, <3>2, <3>3, <3>4, <3>5 DEF Owned
  <2>16. Keyed(y)
    <3>1. \A m \in Listed(y) : y.peers[m].is \in Peers
      BY <1>2, <2>8, <2>9, <2>10, <2>12, <2>13 DEF Keyed
    <3>2. Alone(p, Peers) => \A m \in Queue(z, i) : z.peers[m].is # p
      BY <1>2, <1>5, LookupPeerLemma, ZoneFields
    <3>3. ASSUME NEW k \in DOMAIN y.torrents, NEW m \in Queue(y, k), NEW l \in Queue(y, k),
                 y.peers[m].is = y.peers[l].is, Alone(y.peers[m].is, Peers)
          PROVE  m = l
      <4>1. k \in DOMAIN z.torrents /\ Queue(z, k) \subseteq Listed(z)
        BY <1>2, <2>7, <2>10, ZoneFields
      <4>2. \A j \in Queue(z, k) : y.peers[j] = z.peers[j] /\ j # n
        BY <4>1, <2>3, <2>9, <2>10, <2>13
      <4>3. CASE k # i
        BY <3>3, <4>1, <4>2, <4>3, <1>2, <2>11 DEF Keyed
      <4>4. CASE k = i
        BY <3>2, <3>3, <4>1, <4>2, <4>4, <1>2, <2>8, <2>9, <2>10, <2>11 DEF Keyed
      <4> QED
        BY <4>3, <4>4
    <3>4. \A j, k \in DOMAIN y.torrents :
             /\ y.torrents[j].side = y.torrents[k].side
             /\ y.torrents[j].is = y.torrents[k].is
             /\ Alone(y.torrents[j].is, Torrents)
             => j = k
      BY <1>2, <2>6, <2>7, <2>10 DEF Keyed
    <3> QED
      BY <3>1, <3>3, <3>4 DEF Keyed
  <2>17. Differ(z, y, {n})
    <3>1. \A m \in Chunks \ {n} : \A s, t, x : In(y, s, t, x, m) <=> In(z, s, t, x, m)
      BY <2>6, <2>7, <2>9, <2>10, <2>11 DEF In
    <3> QED
      BY <3>1, <2>3, <2>9, <2>10, <2>12 DEF Differ
  <2>18. r.at = n /\ r.z = y /\ n # Null
    BY <2>1, <2>3, <2>13 DEF y
  <2> QED
    BY <2>3, <2>6, <2>7, <2>8, <2>9, <2>10, <2>11, <2>12, <2>15, <2>16, <2>17, <2>18 DEF ZoneOK, PeerThere
<1> QED
  BY <1>3, <1>4, <1>5

\* Where no peer changes torrent or name, the lists are the same.
LEMMA SameListsLemma ==
    ASSUME NEW z, NEW y, y.torrents = z.torrents,
           \A n \in Chunks : y.peers[n].is = z.peers[n].is
    PROVE  /\ \A i : Queue(y, i) = Queue(z, i)
           /\ Listed(y) = Listed(z)
           /\ \A n \in Chunks : \A s, t, p : In(y, s, t, p, n) <=> In(z, s, t, p, n)
           /\ z \in ZoneType /\ Keyed(z) => Keyed(y)
<1>1. /\ \A i : Queue(y, i) = Queue(z, i)
      /\ Listed(y) = Listed(z)
  BY DEF Queue, Listed
<1>2. \A n \in Chunks : \A s, t, p : In(y, s, t, p, n) <=> In(z, s, t, p, n)
  BY <1>1 DEF In
<1>3. ASSUME z \in ZoneType, Keyed(z) PROVE Keyed(y)
  <2>1. \A i \in DOMAIN z.torrents : Queue(z, i) \subseteq Chunks
    BY <1>3, ZoneFields DEF Listed
  <2>2. Listed(z) \subseteq Chunks
    BY DEF Listed
  <2>3. \A n \in Listed(y) : y.peers[n].is \in Peers
    BY <1>1, <1>3, <2>2 DEF Keyed
  <2>4. \A i \in DOMAIN y.torrents : \A m, n \in Queue(y, i) :
           y.peers[m].is = y.peers[n].is /\ Alone(y.peers[m].is, Peers) => m = n
    BY <1>1, <1>3, <2>1 DEF Keyed
  <2> QED
    BY <1>3, <2>3, <2>4 DEF Keyed
<1> QED
  BY <1>1, <1>2, <1>3

\* The info of peer n has been found or made.
InfoThere(z, n, r) ==
    /\ ZoneOK(r.z) /\ Differ(z, r.z, {n})
    /\ r.at = Null => r.z = z /\ z.peers[n].info = Null /\ z.used = PeerRoom
    /\ r.at # Null => r.at \in Chunks
    /\ r.z.peers[n].info = r.at
    /\ r.z.torrents = z.torrents
    /\ \A m \in Chunks : r.z.peers[m].is = z.peers[m].is

\* An info that is made is the peer's and nobody else's; none is made when the
\* zone has no chunk.
LEMMA GetInfoLemma ==
    ASSUME NEW z, ZoneOK(z), NEW n, n \in Listed(z), NEW r, r = GetInfo(z, n)
    PROVE  InfoThere(z, n, r)
<1> USE TrackerAssumption
<1>1. z \in ZoneType /\ Owned(z) /\ Keyed(z) /\ n \in Chunks
  BY DEF ZoneOK, Listed
<1>2. CASE z.peers[n].info # Null
  <2>1. r.z = z /\ r.at = z.peers[n].info
    BY <1>2 DEF GetInfo
  <2> QED
    BY <2>1, <1>1, <1>2, ZoneFields DEF Differ, InfoThere
<1> DEFINE m == IF z.freeInfos # <<>> THEN Head(z.freeInfos) ELSE z.used + 1
<1>3. CASE z.peers[n].info = Null /\ m > PeerRoom
  <2>1. r.z = z /\ r.at = Null
    BY <1>3 DEF GetInfo
  <2>2. z.freeInfos \in Seq(Chunks) /\ z.used \in Nat /\ z.used <= PeerRoom
    BY <1>1, ZoneFields
  <2>3. z.freeInfos # <<>> => Head(z.freeInfos) \in Chunks
    BY <2>2
  <2>4. z.used = PeerRoom
    BY <1>3, <2>2, <2>3 DEF Chunks
  <2> QED
    BY <2>1, <2>4, <1>3 DEF Differ, InfoThere
<1>4. CASE z.peers[n].info = Null /\ ~(m > PeerRoom)
  <2> DEFINE y == r.z
             pr == [z.peers[n] EXCEPT !.info = m]
             ps == [z.peers EXCEPT ![n] = pr]
             free == IF z.freeInfos # <<>> THEN Tail(z.freeInfos) ELSE z.freeInfos
             us == IF z.freeInfos # <<>> THEN z.used ELSE m
  <2>1. y = [z EXCEPT !.peers = ps, !.freeInfos = free, !.used = us] /\ r.at = m
    BY <1>4 DEF GetInfo
  <2>2. /\ z.freeInfos \in Seq(Chunks) /\ IsInjective(z.freeInfos)
        /\ z.used \in Nat /\ z.used <= PeerRoom
        /\ z.peers \in [Chunks -> PeerType] /\ z.peers[n] \in PeerType
    BY <1>1, ZoneFields DEF Owned
  <2>3. /\ free \in Seq(Chunks) /\ IsInjective(free) /\ us \in 0 .. PeerRoom
        /\ m \in Chunks /\ m \notin Listed(z) /\ m \notin Held(z)
        /\ m \notin ToSet(z.freePeers) /\ m \notin ToSet(free)
        /\ ToSet(free) \subseteq ToSet(z.freeInfos)
        /\ z.used = PeerRoom => us = PeerRoom
        /\ 1 .. us = Listed(z) \cup Held(z) \cup {m} \cup ToSet(z.freePeers) \cup ToSet(free)
    <3>1. CASE z.freeInfos # <<>>
      <4>1. m = Head(z.freeInfos) /\ free = Tail(z.freeInfos) /\ us = z.used
        BY <3>1
      <4>2. /\ free \in Seq(Chunks) /\ IsInjective(free) /\ m \in Chunks
            /\ m \in ToSet(z.freeInfos) /\ ToSet(free) = ToSet(z.freeInfos) \ {m}
        BY <3>1, <4>1, <2>2, HeadTailLemma
      <4> HIDE DEF m, free, us
      <4>3. us \in 0 .. PeerRoom
        BY <4>1, <2>2
      <4>4. m \notin Listed(z) /\ m \notin Held(z) /\ m \notin ToSet(z.freePeers)
        BY <4>2, <1>1 DEF Owned
      <4> QED
        BY <4>1, <4>2, <4>3, <4>4, <1>1 DEF Owned
    <3>2. CASE z.freeInfos = <<>>
      <4>1. m = z.used + 1 /\ free = z.freeInfos /\ us = m
        BY <3>2
      <4> HIDE DEF m, free, us
      <4>2. m \in 1 .. PeerRoom /\ us \in 0 .. PeerRoom /\ z.used # PeerRoom
        BY <4>1, <1>4, <2>2
      <4>3. 1 .. us = (1 .. z.used) \cup {m} /\ m \notin 1 .. z.used
        BY <4>1, <2>2
      <4>4. 1 .. z.used = Listed(z) \cup Held(z) \cup ToSet(z.freePeers) \cup ToSet(z.freeInfos)
        BY <1>1 DEF Owned
      <4> QED
        BY <4>1, <4>2, <4>3, <4>4, <2>2 DEF Chunks
    <3> QED
      BY <3>1, <3>2
  <2> HIDE DEF m, free, us
  <2>4. pr \in PeerType /\ pr.is = z.peers[n].is /\ pr.info = m
    BY <2>2, <2>3 DEF PeerType
  <2> HIDE DEF pr
  <2>5. /\ ps \in [Chunks -> PeerType] /\ ps[n] = pr
        /\ \A k \in Chunks : k # n => ps[k] = z.peers[k]
    BY <1>1, <2>2, <2>4
  <2> HIDE DEF ps
  <2>6. /\ y \in ZoneType /\ y.torrents = z.torrents /\ y.peers = ps
        /\ y.freePeers = z.freePeers
        /\ y.used = us /\ y.infos = z.infos /\ y.freeInfos = free
    BY <1>1, <2>1, <2>3, <2>5 DEF ZoneType
  <2> HIDE DEF y
  <2>7. \A k \in Chunks : y.peers[k].is = z.peers[k].is
    BY <2>4, <2>5, <2>6
  <2>8. /\ \A i : Queue(y, i) = Queue(z, i) /\ Listed(y) = Listed(z) /\ Keyed(y)
        /\ \A k \in Chunks : \A s, t, p : In(y, s, t, p, k) <=> In(z, s, t, p, k)
    BY <1>1, <2>6, <2>7, SameListsLemma
  <2>9. Null \notin Chunks /\ Listed(z) \subseteq Chunks
    BY <1>1, ZoneFields DEF Listed
  <2>10. Held(y) = Held(z) \cup {m}
    BY <1>1, <1>4, <2>3, <2>4, <2>5, <2>6, <2>8, <2>9 DEF Held
  <2>11. Owned(y)
    <3>1. /\ \A j, k \in DOMAIN y.torrents : j # k => Queue(y, j) \cap Queue(y, k) = {}
          /\ \A k \in DOMAIN y.torrents : IsInjective(y.torrents[k].queue)
      BY <1>1, <2>6, <2>8 DEF Owned
    <3>2. \A k \in Listed(z) : k # n => z.peers[k].info # m
      BY <1>1, <2>3 DEF Held
    <3>3. \A l, k \in Listed(y) :
             y.peers[l].info = y.peers[k].info => l = k \/ y.peers[l].info = Null
      BY <1>1, <2>4, <2>5, <2>6, <2>8, <2>9, <3>2 DEF Owned
    <3>4. /\ Listed(y) \cap ToSet(y.freePeers) = {}
          /\ Held(y) \cap ToSet(y.freeInfos) = {}
          /\ (Listed(y) \cup ToSet(y.freePeers)) \cap (Held(y) \cup ToSet(y.freeInfos)) = {}
          /\ 1 .. y.used = Listed(y) \cup Held(y) \cup ToSet(y.freePeers) \cup ToSet(y.freeInfos)
      <4>1. /\ Listed(z) \cap ToSet(z.freePeers) = {} /\ Held(z) \cap ToSet(z.freeInfos) = {}
            /\ (Listed(z) \cup ToSet(z.freePeers)) \cap (Held(z) \cup ToSet(z.freeInfos)) = {}
        BY <1>1 DEF Owned
      <4> QED
        BY <4>1, <2>3, <2>6, <2>8, <2>10
    <3>5. IsInjective(y.freePeers) /\ IsInjective(y.freeInfos)
      BY <1>1, <2>3, <2>6 DEF Owned
    <3> QED
      BY <3>1, <3>3, <3>4, <3>5 DEF Owned
  <2>12. Differ(z, y, {n})
    BY <2>3, <2>5, <2>6, <2>8 DEF Differ
  <2>13. r.at = m /\ r.z = y /\ m # Null
    BY <2>1, <2>3, <2>9 DEF y
  <2> QED
    BY <1>1, <2>3, <2>4, <2>5, <2>6, <2>7, <2>8, <2>11, <2>12, <2>13 DEF ZoneOK, InfoThere
<1> QED
  BY <1>2, <1>3, <1>4

\* The info of peer from has gone to peer to, if that had none.
InfoMoved(z, from, to, y) ==
    /\ ZoneOK(y) /\ Differ(z, y, {to} \cup ({from} \ {Null}))
    /\ y.peers[to].info = Null => Differ(z, y, {})
    /\ y.torrents = z.torrents
    /\ \A m \in Chunks : y.peers[m].is = z.peers[m].is

\* An info that moves is the other peer's and no more the first one's.
LEMMA MoveInfoLemma ==
    ASSUME NEW z, ZoneOK(z), NEW to, to \in Listed(z), NEW from,
           from # Null => from \in Listed(z) /\ from # to,
           NEW y, y = MoveInfo(z, from, to)
    PROVE  InfoMoved(z, from, to, y)
<1>1. z \in ZoneType /\ Owned(z) /\ Keyed(z) /\ to \in Chunks
  BY DEF ZoneOK, Listed
<1>2. CASE from = Null \/ z.peers[to].info # Null
  <2>1. y = z
    BY <1>2 DEF MoveInfo
  <2> QED
    BY <2>1 DEF Differ, InfoMoved
<1>3. CASE from # Null /\ z.peers[to].info = Null
  <2> DEFINE m == z.peers[from].info
             pt == [z.peers[to] EXCEPT !.info = m]
             pf == [z.peers[from] EXCEPT !.info = Null]
             ps == [[z.peers EXCEPT ![to] = pt] EXCEPT ![from] = pf]
  <2>1. from \in Chunks /\ from # to /\ from \in Listed(z)
    BY <1>3 DEF Listed
  <2>2. y = [z EXCEPT !.peers = ps]
    <3>1. y = [z EXCEPT !.peers[to].info = m, !.peers[from].info = Null]
      BY <1>3 DEF MoveInfo
    <3> QED
      BY <3>1, <1>1, <2>1, ZoneFields DEF ZoneType
  <2>3. /\ z.peers \in [Chunks -> PeerType] /\ z.peers[to] \in PeerType
        /\ z.peers[from] \in PeerType /\ m \in Chunks \cup {Null}
    BY <1>1, <2>1, ZoneFields
  <2> HIDE DEF m
  <2>4. /\ pt \in PeerType /\ pt.is = z.peers[to].is /\ pt.info = m
        /\ pf \in PeerType /\ pf.is = z.peers[from].is /\ pf.info = Null
    BY <2>3 DEF PeerType
  <2>5. m = Null => pt = z.peers[to] /\ pf = z.peers[from]
    BY <1>3, <2>3 DEF PeerType, m
  <2> HIDE DEF pt, pf
  <2>6. /\ ps \in [Chunks -> PeerType] /\ ps[to] = pt /\ ps[from] = pf
        /\ \A k \in Chunks : k # to /\ k # from => ps[k] = z.peers[k]
    BY <1>1, <2>1, <2>3, <2>4
  <2> HIDE DEF ps
  <2>7. /\ y \in ZoneType /\ y.torrents = z.torrents /\ y.peers = ps
        /\ y.freePeers = z.freePeers
        /\ y.used = z.used /\ y.infos = z.infos /\ y.freeInfos = z.freeInfos
    BY <1>1, <2>2, <2>6 DEF ZoneType
  <2>8. \A k \in Chunks : y.peers[k].is = z.peers[k].is
    BY <2>4, <2>6, <2>7
  <2>9. /\ \A i : Queue(y, i) = Queue(z, i) /\ Listed(y) = Listed(z) /\ Keyed(y)
        /\ \A k \in Chunks : \A s, t, p : In(y, s, t, p, k) <=> In(z, s, t, p, k)
    BY <1>1, <2>7, <2>8, SameListsLemma
  <2>10. Null \notin Chunks /\ Listed(z) \subseteq Chunks
    BY <1>1, ZoneFields DEF Listed
  <2>11. Held(y) = Held(z)
    <3>1. \A k \in Listed(z) : k # to /\ k # from => y.peers[k].info = z.peers[k].info
      BY <2>6, <2>7, <2>10
    <3>2. /\ y.peers[to].info = z.peers[from].info
          /\ y.peers[from].info = Null /\ z.peers[to].info = Null
      BY <1>3, <2>4, <2>6, <2>7 DEF m
    <3> QED
      BY <3>1, <3>2, <2>1, <2>9, <2>10 DEF Held
  <2>12. Owned(y)
    <3>1. \A l, k \in Listed(y) :
             y.peers[l].info = y.peers[k].info => l = k \/ y.peers[l].info = Null
      BY <1>1, <2>1, <2>4, <2>6, <2>7, <2>9, <2>10 DEF Owned, m
    <3> QED
      BY <1>1, <3>1, <2>7, <2>9, <2>11 DEF Owned
  <2>13. Differ(z, y, {to, from})
    BY <2>6, <2>7, <2>9 DEF Differ
  <2>14. y.peers[to].info = Null => Differ(z, y, {})
    <3>1. ASSUME m = Null PROVE \A k \in Chunks : y.peers[k] = z.peers[k]
      BY <3>1, <2>5, <2>6, <2>7
    <3> QED
      BY <3>1, <2>4, <2>6, <2>7, <2>9 DEF Differ
  <2>15. {to} \cup ({from} \ {Null}) = {to, from}
    BY <1>3
  <2> QED
    BY <1>3, <2>7, <2>8, <2>9, <2>12, <2>13, <2>14, <2>15 DEF ZoneOK, InfoMoved
<1> QED
  BY <1>2, <1>3

\* A peer that leaves its torrent is free, and its info with it.
LEMMA FreePeerLemma ==
    ASSUME NEW z, ZoneOK(z), NEW i, NEW n,
           n # Null => i \in DOMAIN z.torrents /\ n \in Queue(z, i),
           NEW y, y = FreePeer(z, i, n)
    PROVE  /\ ZoneOK(y) /\ Differ(z, y, {n} \ {Null})
           /\ n # Null => n \notin Listed(y)
<1>1. z \in ZoneType /\ Owned(z) /\ Keyed(z)
  BY DEF ZoneOK
<1>2. CASE n = Null
  <2>1. y = z
    BY <1>2 DEF FreePeer
  <2> QED
    BY <2>1, <1>2 DEF Differ
<1>3. CASE n # Null
  <2> DEFINE q == z.torrents[i].queue
             w == Unlinked(q, n)
             rec == [z.torrents[i] EXCEPT !.queue = w]
             tor == [z.torrents EXCEPT ![i] = rec]
             m == z.peers[n].info
             ps == [z.peers EXCEPT ![n] = NoPeer]
             free == <<n>> \o z.freePeers
             infs == IF m = Null THEN z.freeInfos ELSE <<m>> \o z.freeInfos
  <2>1. y = [z EXCEPT !.torrents = tor, !.peers = ps, !.freePeers = free, !.freeInfos = infs]
    BY <1>3 DEF FreePeer
  <2>2. /\ i \in DOMAIN z.torrents /\ n \in Queue(z, i) /\ n \in Listed(z) /\ n \in Chunks
        /\ z.torrents \in Seq(TorrentType) /\ q \in Seq(Chunks)
        /\ z.torrents[i] \in TorrentType
        /\ z.freePeers \in Seq(Chunks) /\ IsInjective(z.freePeers)
        /\ z.freeInfos \in Seq(Chunks) /\ IsInjective(z.freeInfos)
        /\ z.peers \in [Chunks -> PeerType] /\ m \in Chunks \cup {Null}
        /\ Queue(z, i) = ToSet(q) /\ IsInjective(q)
    BY <1>1, <1>3, ZoneFields DEF Owned, Queue, Listed
  <2>3. w \in Seq(Chunks) /\ IsInjective(w) /\ ToSet(w) = ToSet(q) \ {n}
    BY <2>2, UnlinkedLemma
  <2> HIDE DEF w
  <2>4. /\ rec \in TorrentType /\ rec.queue = w
        /\ rec.side = z.torrents[i].side /\ rec.is = z.torrents[i].is
    BY <2>2, <2>3 DEF TorrentType
  <2> HIDE DEF rec
  <2>5. /\ tor \in Seq(TorrentType) /\ DOMAIN tor = DOMAIN z.torrents /\ tor[i] = rec
        /\ \A k \in DOMAIN z.torrents : k # i => tor[k] = z.torrents[k]
    BY <2>2, <2>4
  <2> HIDE DEF tor
  <2>6. NoPeer \in PeerType
    BY DEF PeerType, NoPeer
  <2>7. /\ ps \in [Chunks -> PeerType]
        /\ \A k \in Chunks : k # n => ps[k] = z.peers[k]
    BY <2>2, <2>6
  <2> HIDE DEF ps
  <2>8. n \notin ToSet(z.freePeers)
    BY <1>1, <2>2 DEF Owned
  <2>9. free \in Seq(Chunks) /\ IsInjective(free) /\ ToSet(free) = ToSet(z.freePeers) \cup {n}
    BY <2>2, <2>8, PrependLemma
  <2> HIDE DEF free
  <2>10. m # Null => m \in Held(z)
    BY <2>2 DEF Held
  <2>11. /\ infs \in Seq(Chunks) /\ IsInjective(infs)
         /\ ToSet(infs) = ToSet(z.freeInfos) \cup ({m} \ {Null})
    <3> HIDE DEF m
    <3>1. CASE m = Null
      BY <3>1, <2>2
    <3>2. CASE m # Null
      <4>1. m \notin ToSet(z.freeInfos) /\ m \in Chunks /\ infs = <<m>> \o z.freeInfos
        BY <3>2, <1>1, <2>2, <2>10 DEF Owned
      <4>2. /\ <<m>> \o z.freeInfos \in Seq(Chunks) /\ IsInjective(<<m>> \o z.freeInfos)
            /\ ToSet(<<m>> \o z.freeInfos) = ToSet(z.freeInfos) \cup {m}
        BY <4>1, <2>2, PrependLemma
      <4> QED
        BY <4>1, <4>2, <3>2
    <3> QED
      BY <3>1, <3>2
  <2> HIDE DEF infs
  <2>12. /\ y \in ZoneType /\ y.torrents = tor /\ y.peers = ps /\ y.freePeers = free
         /\ y.used = z.used /\ y.infos = z.infos /\ y.freeInfos = infs
    BY <1>1, <2>1, <2>5, <2>7, <2>9, <2>11 DEF ZoneType
  <2> HIDE DEF q
  <2>13. /\ Queue(y, i) = Queue(z, i) \ {n}
         /\ \A k \in DOMAIN z.torrents : k # i => Queue(y, k) = Queue(z, k)
    BY <2>2, <2>3, <2>4, <2>5, <2>12 DEF Queue
  <2>14. \A k \in DOMAIN z.torrents : k # i => n \notin Queue(z, k)
    BY <1>1, <2>2 DEF Owned
  <2>15. \A k \in DOMAIN z.torrents : Queue(y, k) = Queue(z, k) \ {n}
    BY <2>13, <2>14
  <2>16. Listed(y) = Listed(z) \ {n}
    BY <2>5, <2>12, <2>15 DEF Listed
  <2>17. Null \notin Chunks /\ Listed(z) \subseteq Chunks
    BY <1>1, ZoneFields DEF Listed
  <2>18. \A k \in Listed(y) : y.peers[k] = z.peers[k] /\ k \in Listed(z) /\ k # n
    BY <2>7, <2>12, <2>16, <2>17
  <2>19. Held(y) = Held(z) \ {m}
    <3>1. \A k \in Listed(z) : z.peers[k].info = m => k = n \/ m = Null
      BY <1>1, <2>2 DEF Owned
    <3> QED
      BY <3>1, <2>16, <2>17, <2>18 DEF Held, m
  <2> HIDE DEF m
  <2>20. Owned(y)
    <3>1. \A j, k \in DOMAIN y.torrents : j # k => Queue(y, j) \cap Queue(y, k) = {}
      BY <1>1, <2>5, <2>12, <2>15 DEF Owned
    <3>2. \A k \in DOMAIN y.torrents : IsInjective(y.torrents[k].queue)
      BY <1>1, <2>3, <2>4, <2>5, <2>12 DEF Owned
    <3>3. \A l, k \in Listed(y) :
             y.peers[l].info = y.peers[k].info => l = k \/ y.peers[l].info = Null
      BY <1>1, <2>18 DEF Owned
    <3>4. /\ Listed(y) \cap ToSet(y.freePeers) = {}
          /\ Held(y) \cap ToSet(y.freeInfos) = {}
          /\ (Listed(y) \cup ToSet(y.freePeers)) \cap (Held(y) \cup ToSet(y.freeInfos)) = {}
          /\ 1 .. y.used = Listed(y) \cup Held(y) \cup ToSet(y.freePeers) \cup ToSet(y.freeInfos)
      <4>1. /\ Listed(z) \cap ToSet(z.freePeers) = {} /\ Held(z) \cap ToSet(z.freeInfos) = {}
            /\ (Listed(z) \cup ToSet(z.freePeers)) \cap (Held(z) \cup ToSet(z.freeInfos)) = {}
            /\ 1 .. z.used = Listed(z) \cup Held(z) \cup ToSet(z.freePeers) \cup ToSet(z.freeInfos)
        BY <1>1 DEF Owned
      <4>2. Held(z) \subseteq Chunks
        BY DEF Held
      <4> QED
        BY <4>1, <4>2, <2>2, <2>9, <2>10, <2>11, <2>12, <2>16, <2>17, <2>19
    <3>5. IsInjective(y.freePeers) /\ IsInjective(y.freeInfos)
      BY <2>9, <2>11, <2>12
    <3> QED
      BY <3>1, <3>2, <3>3, <3>4, <3>5 DEF Owned
  <2>21. Keyed(y)
    <3>1. \A k \in Listed(y) : y.peers[k].is \in Peers
      BY <1>1, <2>18 DEF Keyed
    <3>2. \A k \in DOMAIN y.torrents : \A l, o \in Queue(y, k) :
             y.peers[l].is = y.peers[o].is /\ Alone(y.peers[l].is, Peers) => l = o
      <4>1. \A k \in DOMAIN z.torrents : \A l \in Queue(y, k) : y.peers[l] = z.peers[l] /\ l \in Queue(z, k)
        BY <1>1, <2>7, <2>12, <2>15, <2>17, ZoneFields
      <4> QED
        BY <4>1, <1>1, <2>5, <2>12 DEF Keyed
    <3>3. \A k \in DOMAIN y.torrents :
             y.torrents[k].side = z.torrents[k].side /\ y.torrents[k].is = z.torrents[k].is
      BY <2>4, <2>5, <2>12
    <3>4. \A j, k \in DOMAIN y.torrents :
             /\ y.torrents[j].side = y.torrents[k].side
             /\ y.torrents[j].is = y.torrents[k].is
             /\ Alone(y.torrents[j].is, Torrents)
             => j = k
      BY <1>1, <2>5, <2>12, <3>3 DEF Keyed
    <3> QED
      BY <3>1, <3>2, <3>4 DEF Keyed
  <2>22. Differ(z, y, {n})
    <3>1. \A k \in Chunks \ {n} : \A s, t, x : In(y, s, t, x, k) <=> In(z, s, t, x, k)
      BY <2>4, <2>5, <2>7, <2>12, <2>15 DEF In
    <3> QED
      BY <3>1, <2>7, <2>12, <2>16 DEF Differ
  <2>23. {n} \ {Null} = {n}
    BY <1>3
  <2> QED
    BY <1>3, <2>12, <2>16, <2>20, <2>21, <2>22, <2>23 DEF ZoneOK
<1> QED
  BY <1>2, <1>3

LEMMA DifferTrans ==
    ASSUME NEW z, NEW y, NEW x, NEW A, NEW B, Differ(z, y, A), Differ(y, x, B)
    PROVE  Differ(z, x, A \cup B)
BY DEF Differ

-----------------------------------------------------------------------------
(* What an update of peer p of torrent t leaves of a zone, but for the info   *)
(* it writes at the end.                                                      *)

\* The peers N are p of t on this side, and have the info that will be written;
\* the peers O were p of t among the leechers and are gone.  An update that fails
\* has given no peer an info and taken none.
Updated(z, r, side, t, p, N, O) ==
    /\ ZoneOK(r.z) /\ Differ(z, r.z, N \cup O)
    /\ r.at \in Chunks \cup {Null}
    /\ \A n \in N :
          /\ n \in Chunks /\ In(r.z, side, t, p, n) /\ r.z.peers[n].info = r.at
          /\ n \in Listed(z) => In(z, side, t, p, n)
    /\ \A o \in O :
          o \in Chunks /\ o \notin Listed(r.z) /\ In(z, "leechers", t, p, o) /\ side = "seeders"
    /\ r.at = Null =>
          /\ O = {} /\ (N # {} => r.z.used = PeerRoom)
          /\ \A n \in N : n \in Listed(z) => z.peers[n].info = Null
    /\ r.at # Null =>
          /\ N # {}
          /\ side = "seeders" /\ Alone(t, Torrents) /\ Alone(p, Peers) =>
                \A n \in Chunks : ~In(r.z, "leechers", t, p, n)

\* The steps that leechers and seeders have in common, up to the peer.
FoundOrMade(z, side, t, p, n) ==
    /\ ZoneOK(n.z) /\ Differ(z, n.z, {n.at})
    /\ n.at \in Chunks /\ n.at \in Listed(n.z) /\ In(n.z, side, t, p, n.at)
    /\ n.at \in Listed(z) =>
          In(z, side, t, p, n.at) /\ n.z.peers[n.at] = z.peers[n.at]

LEMMA FoundOrMadeLemma ==
    ASSUME NEW z, ZoneOK(z), NEW side \in Sides, NEW t \in Torrents, NEW p \in Peers,
           NEW i, i \in TheTorrent(z, side, t), i.at # Null,
           NEW n, n \in ThePeer(i.z, i.at, p), n.at # Null
    PROVE  FoundOrMade(z, side, t, p, n)
<1>1. /\ ZoneOK(i.z) /\ Differ(z, i.z, {}) /\ i.at \in DOMAIN i.z.torrents
      /\ i.z.torrents[i.at].side = side /\ i.z.torrents[i.at].is = t
  BY TheTorrentLemma
<1>2. /\ ZoneOK(n.z) /\ n.at \in Queue(n.z, i.at) /\ n.at \in Listed(n.z)
      /\ n.z.peers[n.at].is = p /\ Differ(i.z, n.z, {n.at})
      /\ n.at \in Listed(i.z) => n.z = i.z
      /\ DOMAIN n.z.torrents = DOMAIN i.z.torrents
      /\ \A k \in DOMAIN i.z.torrents :
            /\ n.z.torrents[k].side = i.z.torrents[k].side
            /\ n.z.torrents[k].is = i.z.torrents[k].is
            /\ k # i.at => Queue(n.z, k) = Queue(i.z, k)
  <2>1. PeerThere(i.z, i.at, p, n)
    BY <1>1, ThePeerLemma
  <2> QED
    BY <2>1 DEF PeerThere
<1>3. In(n.z, side, t, p, n.at)
  BY <1>1, <1>2 DEF In
<1>4. n.at \in Chunks
  BY <1>2 DEF Listed
<1>5. Differ(z, n.z, {n.at})
  <2>1. Differ(z, n.z, {} \cup {n.at})
    BY <1>1, <1>2, DifferTrans
  <2>2. {} \cup {n.at} = {n.at}
    OBVIOUS
  <2> QED
    BY <2>1, <2>2
<1>6. n.at \in Listed(z) => In(z, side, t, p, n.at) /\ n.z.peers[n.at] = z.peers[n.at]
  BY <1>1, <1>2, <1>3, <1>4 DEF Differ
<1> QED
  BY <1>2, <1>3, <1>4, <1>5, <1>6 DEF FoundOrMade

LEMMA LeecherLemma ==
    ASSUME ZoneOK(Zone), NEW t \in Torrents, NEW p \in Peers,
           NEW r, r \in LeecherUpdates(t, p)
    PROVE  \E N, O \in SUBSET Chunks : Updated(Zone, r, "leechers", t, p, N, O)
<1> DEFINE z == Zone
<1>1. PICK i \in TheTorrent(z, "leechers", t) :
          r \in IF i.at = Null THEN {i}
                ELSE {IF n.at = Null THEN n ELSE GetInfo(n.z, n.at) :
                         n \in ThePeer(i.z, i.at, p)}
  BY DEF LeecherUpdates
<1> HIDE DEF z
<1>2. ZoneOK(z) /\ "leechers" \in Sides
  BY DEF z, Sides
<1>3. /\ ZoneOK(i.z) /\ Differ(z, i.z, {})
      /\ i.at = Null => i.z = z
      /\ i.at # Null => i.at \in DOMAIN i.z.torrents
  BY <1>2, TheTorrentLemma
<1>4. CASE i.at = Null
  <2>1. r = i
    BY <1>1, <1>4
  <2>2. Updated(z, r, "leechers", t, p, {}, {})
    BY <1>3, <1>4, <2>1 DEF Updated, Differ
  <2> QED
    BY <2>2 DEF z
<1>5. CASE i.at # Null
  <2>1. PICK n \in ThePeer(i.z, i.at, p) : r = IF n.at = Null THEN n ELSE GetInfo(n.z, n.at)
    BY <1>1, <1>5
  <2>2. CASE n.at = Null
    <3>1. r = n /\ n.z = i.z
      BY <2>1, <2>2, <1>3, <1>5, ThePeerLemma DEF PeerThere
    <3>2. Updated(z, r, "leechers", t, p, {}, {})
      BY <1>3, <2>2, <3>1 DEF Updated, Differ
    <3> QED
      BY <3>2 DEF z
  <2>3. CASE n.at # Null
    <3>1. FoundOrMade(z, "leechers", t, p, n)
      BY <1>2, <1>5, <2>1, <2>3, FoundOrMadeLemma
    <3>2. r = GetInfo(n.z, n.at)
      BY <2>1, <2>3
    <3>3. InfoThere(n.z, n.at, r)
      BY <3>1, <3>2, GetInfoLemma DEF FoundOrMade
    <3>4. ZoneOK(r.z) /\ n.at \in Chunks
      BY <3>1, <3>3 DEF FoundOrMade, InfoThere
    <3>5. In(r.z, "leechers", t, p, n.at)
      BY <3>1, <3>3, <3>4, SameListsLemma DEF FoundOrMade, InfoThere
    <3>6. Differ(z, r.z, {n.at} \cup {})
      <4>1. Differ(z, r.z, {n.at} \cup {n.at})
        BY <3>1, <3>3, DifferTrans DEF FoundOrMade, InfoThere
      <4>2. {n.at} \cup {n.at} = {n.at} \cup {}
        OBVIOUS
      <4> QED
        BY <4>1, <4>2
    <3>7. Updated(z, r, "leechers", t, p, {n.at}, {})
      BY <3>1, <3>3, <3>4, <3>5, <3>6 DEF Updated, FoundOrMade, InfoThere
    <3> QED
      BY <3>4, <3>7 DEF z
  <2> QED
    BY <2>2, <2>3
<1> QED
  BY <1>4, <1>5

\* Peer old of torrent t, if any, is the one leecher that goes.
IsOldLeecher(z, t, p, old) ==
    /\ old # Null => old \in Chunks /\ In(z, "leechers", t, p, old)
    /\ Alone(t, Torrents) /\ Alone(p, Peers) =>
          \A m \in Chunks : In(z, "leechers", t, p, m) => m = old

LEMMA OldLeecherLemma ==
    ASSUME NEW z, ZoneOK(z), NEW t \in Torrents, NEW p \in Peers,
           NEW i, i \in TheTorrent(z, "seeders", t),
           NEW j, j \in LookupTorrent(z, "leechers", t),
           NEW old, old \in LookupPeer(i.z, j, p)
    PROVE  /\ IsOldLeecher(z, t, p, old)
           /\ old # Null => /\ j \in DOMAIN i.z.torrents /\ old \in Queue(i.z, j)
                            /\ i.z.torrents[j].side = "leechers"
<1>1. z \in ZoneType /\ Keyed(z) /\ "leechers" \in Sides /\ "seeders" \in Sides
  BY DEF ZoneOK, Sides
<1>2. /\ ZoneOK(i.z) /\ Differ(z, i.z, {})
      /\ \A k \in DOMAIN z.torrents :
            k \in DOMAIN i.z.torrents /\ i.z.torrents[k] = z.torrents[k]
  BY <1>1, TheTorrentLemma
<1>3. i.z \in ZoneType /\ Keyed(i.z)
  BY <1>2 DEF ZoneOK
<1>4. /\ j # Null => /\ j \in DOMAIN z.torrents
                     /\ z.torrents[j].side = "leechers" /\ z.torrents[j].is = t
      /\ j = Null /\ Alone(t, Torrents) =>
            \A k \in DOMAIN z.torrents : z.torrents[k].side = "leechers" => z.torrents[k].is # t
  BY <1>1, LookupTorrentLemma
<1>5. j \in DOMAIN i.z.torrents \cup {Null}
  BY <1>2, <1>4
<1>6. /\ old # Null => /\ j \in DOMAIN i.z.torrents
                       /\ old \in Queue(i.z, j) /\ old \in Listed(i.z) /\ i.z.peers[old].is = p
      /\ old = Null /\ j # Null /\ Alone(p, Peers) =>
            \A m \in Queue(i.z, j) : i.z.peers[m].is # p
  BY <1>3, <1>5, LookupPeerLemma
<1>7. ASSUME old # Null
      PROVE  /\ j \in DOMAIN i.z.torrents /\ i.z.torrents[j].side = "leechers"
             /\ old \in Queue(i.z, j) /\ old \in Chunks
             /\ In(i.z, "leechers", t, p, old) /\ In(z, "leechers", t, p, old)
  <2>1. j # Null
    BY <1>3, <1>6, <1>7, ZoneFields
  <2>2. i.z.torrents[j].side = "leechers" /\ i.z.torrents[j].is = t /\ old \in Chunks
    BY <1>2, <1>4, <1>6, <1>7, <2>1 DEF Listed
  <2>3. In(i.z, "leechers", t, p, old)
    BY <1>6, <1>7, <2>2 DEF In
  <2> QED
    BY <1>2, <1>6, <1>7, <2>2, <2>3 DEF Differ
<1>8. ASSUME Alone(t, Torrents), Alone(p, Peers), NEW m \in Chunks, In(z, "leechers", t, p, m)
      PROVE  m = old
  <2>1. PICK k \in DOMAIN z.torrents :
            /\ z.torrents[k].side = "leechers" /\ z.torrents[k].is = t /\ m \in Queue(z, k)
    BY <1>8 DEF In
  <2>2. k = j /\ j # Null
    BY <1>1, <1>4, <1>8, <2>1 DEF Keyed
  <2>3. m \in Queue(i.z, j) /\ i.z.peers[m].is = p
    BY <1>2, <1>8, <2>1, <2>2 DEF Queue, Differ, In
  <2> QED
    BY <1>3, <1>6, <1>8, <2>2, <2>3 DEF Keyed
<1> QED
  BY <1>7, <1>8 DEF IsOldLeecher

LEMMA SeederLemma ==
    ASSUME ZoneOK(Zone), NEW t \in Torrents, NEW p \in Peers,
           NEW r, r \in SeederUpdates(t, p)
    PROVE  \E N, O \in SUBSET Chunks : Updated(Zone, r, "seeders", t, p, N, O)
<1> DEFINE z == Zone
<1>1. PICK i \in TheTorrent(z, "seeders", t), j \in LookupTorrent(z, "leechers", t) :
          r \in IF i.at = Null THEN {i}
                ELSE UNION {{IF n.at = Null THEN n
                             ELSE LET s == GetInfo(MoveInfo(n.z, old, n.at), n.at)
                                  IN IF s.at = Null THEN s
                                     ELSE [z |-> FreePeer(s.z, j, old), at |-> s.at] :
                                n \in ThePeer(i.z, i.at, p)} :
                              old \in LookupPeer(i.z, j, p)}
  BY DEF SeederUpdates
<1> HIDE DEF z
<1>2. ZoneOK(z) /\ "seeders" \in Sides
  BY DEF z, Sides
<1>3. /\ ZoneOK(i.z) /\ Differ(z, i.z, {})
      /\ i.at = Null => i.z = z
      /\ i.at # Null => i.at \in DOMAIN i.z.torrents /\ i.z.torrents[i.at].side = "seeders"
  BY <1>2, TheTorrentLemma
<1>4. CASE i.at = Null
  <2>1. r = i
    BY <1>1, <1>4
  <2>2. Updated(z, r, "seeders", t, p, {}, {})
    BY <1>3, <1>4, <2>1 DEF Updated, Differ
  <2> QED
    BY <2>2 DEF z
<1>5. CASE i.at # Null
  <2>1. PICK old \in LookupPeer(i.z, j, p), n \in ThePeer(i.z, i.at, p) :
            r = IF n.at = Null THEN n
                ELSE LET s == GetInfo(MoveInfo(n.z, old, n.at), n.at)
                     IN IF s.at = Null THEN s
                        ELSE [z |-> FreePeer(s.z, j, old), at |-> s.at]
    BY <1>1, <1>5
  <2>2. PeerThere(i.z, i.at, p, n)
    BY <1>3, <1>5, ThePeerLemma
  <2>3. CASE n.at = Null
    <3>1. r = n /\ n.z = i.z
      BY <2>1, <2>2, <2>3 DEF PeerThere
    <3>2. Updated(z, r, "seeders", t, p, {}, {})
      BY <1>3, <2>3, <3>1 DEF Updated, Differ
    <3> QED
      BY <3>2 DEF z
  <2>4. CASE n.at # Null
    <3>1. FoundOrMade(z, "seeders", t, p, n)
      BY <1>2, <1>5, <2>4, FoundOrMadeLemma
    <3>2. /\ IsOldLeecher(z, t, p, old)
          /\ old # Null => /\ j \in DOMAIN i.z.torrents /\ old \in Queue(i.z, j)
                           /\ i.z.torrents[j].side = "leechers"
      BY <1>2, <2>1, OldLeecherLemma
    <3>3. old # Null => /\ j \in DOMAIN n.z.torrents /\ old \in Queue(n.z, j)
                        /\ old \in Listed(n.z) /\ old # n.at
      <4>1. ASSUME old # Null PROVE j # i.at /\ j \in DOMAIN n.z.torrents /\ old \in Queue(n.z, j)
        BY <4>1, <1>3, <1>5, <2>2, <3>2 DEF PeerThere
      <4>2. n.z \in ZoneType /\ Owned(n.z) /\ n.at \in Queue(n.z, i.at) /\ i.at \in DOMAIN n.z.torrents
        BY <1>3, <1>5, <2>2, <2>4 DEF PeerThere, ZoneOK
      <4>3. ASSUME old # Null PROVE old \in Listed(n.z)
        BY <4>1, <4>2, <4>3, ZoneFields
      <4> QED
        BY <4>1, <4>2, <4>3 DEF Owned
    <3> DEFINE y == MoveInfo(n.z, old, n.at)
               g == GetInfo(y, n.at)
    <3>4. InfoMoved(n.z, old, n.at, y)
      BY <3>1, <3>3, MoveInfoLemma DEF FoundOrMade
    <3>5. r = IF g.at = Null THEN g ELSE [z |-> FreePeer(g.z, j, old), at |-> g.at]
      BY <2>1, <2>4
    <3>6. /\ \A k : Queue(y, k) = Queue(n.z, k)
          /\ Listed(y) = Listed(n.z)
          /\ \A k \in Chunks : \A s, u, x : In(y, s, u, x, k) <=> In(n.z, s, u, x, k)
      BY <3>4, SameListsLemma DEF InfoMoved
    <3>7. InfoThere(y, n.at, g)
      BY <3>1, <3>4, <3>6, GetInfoLemma DEF FoundOrMade, InfoMoved
    <3> HIDE DEF y, g
    <3>8. /\ \A k : Queue(g.z, k) = Queue(y, k)
          /\ Listed(g.z) = Listed(y)
          /\ \A k \in Chunks : \A s, u, x : In(g.z, s, u, x, k) <=> In(y, s, u, x, k)
      BY <3>7, SameListsLemma DEF InfoThere
    <3>9. n.at \in Chunks /\ In(g.z, "seeders", t, p, n.at) /\ ZoneOK(g.z) /\ g.z.peers[n.at].info = g.at
      BY <3>1, <3>6, <3>7, <3>8 DEF FoundOrMade, InfoThere
    <3>10. CASE g.at = Null
      <4>1. r = g /\ g.z = y /\ y.peers[n.at].info = Null /\ y.used = PeerRoom
        BY <3>5, <3>7, <3>10 DEF InfoThere
      <4>2. Differ(n.z, y, {})
        BY <3>4, <4>1 DEF InfoMoved
      <4>3. Differ(z, r.z, {n.at} \cup {})
        BY <3>1, <4>1, <4>2, DifferTrans DEF FoundOrMade
      <4>4. n.at \in Listed(z) => z.peers[n.at].info = Null
        BY <3>1, <4>1, <4>2 DEF FoundOrMade, Differ
      <4>5. Updated(z, r, "seeders", t, p, {n.at}, {})
        BY <3>1, <3>9, <3>10, <4>1, <4>3, <4>4 DEF Updated, FoundOrMade
      <4> QED
        BY <3>9, <4>5 DEF z
    <3>11. CASE g.at # Null
      <4> DEFINE x == FreePeer(g.z, j, old)
                 O == {old} \ {Null}
      <4>1. r.z = x /\ r.at = g.at
        BY <3>5, <3>11
      <4>2. old # Null => j \in DOMAIN g.z.torrents /\ old \in Queue(g.z, j)
        BY <3>3, <3>4, <3>6, <3>7, <3>8 DEF InfoMoved, InfoThere
      <4>3. ZoneOK(x) /\ Differ(g.z, x, O) /\ (old # Null => old \notin Listed(x))
        BY <3>9, <4>2, FreePeerLemma
      <4> HIDE DEF x
      <4>4. n.at \notin O /\ O \subseteq Chunks
        BY <3>2, <3>3 DEF IsOldLeecher
      <4>5. Differ(z, x, {n.at} \cup O)
        <5>1. Differ(z, n.z, {n.at}) /\ Differ(n.z, y, {n.at} \cup O) /\ Differ(y, g.z, {n.at})
          BY <3>1, <3>4, <3>7 DEF FoundOrMade, InfoMoved, InfoThere
        <5> QED
          BY <5>1, <4>3 DEF Differ
      <4>6. In(x, "seeders", t, p, n.at) /\ x.peers[n.at].info = g.at
        BY <3>9, <4>3, <4>4 DEF Differ
      <4>7. \A o \in O : o \in Chunks /\ o \notin Listed(x) /\ In(z, "leechers", t, p, o)
        BY <3>2, <4>3 DEF IsOldLeecher
      <4>8. ASSUME Alone(t, Torrents), Alone(p, Peers), NEW m \in Chunks, In(x, "leechers", t, p, m)
            PROVE  FALSE
        <5>1. m \in Listed(x)
          BY <4>8 DEF In, Listed
        <5>2. m \notin O
          BY <5>1, <4>7
        <5>3. m # n.at
          <6>1. Owned(x)
            BY <4>3 DEF ZoneOK
          <6>2. PICK k \in DOMAIN x.torrents : n.at \in Queue(x, k) /\ x.torrents[k].side = "seeders"
            BY <4>6 DEF In
          <6>3. ~In(x, "leechers", t, p, n.at)
            BY <6>1, <6>2, InUnique
          <6> QED
            BY <6>3, <4>8
        <5>4. In(z, "leechers", t, p, m)
          BY <5>2, <5>3, <4>5, <4>8 DEF Differ
        <5>5. m = old
          BY <5>4, <4>8, <3>2 DEF IsOldLeecher
        <5>6. old = Null
          BY <5>2, <5>5
        <5>7. Null \notin Chunks
          BY TrackerAssumption DEF Null, Chunks
        <5> QED
          BY <5>5, <5>6, <5>7
      <4>9. r.at \in Chunks
        BY <3>7, <3>11, <4>1 DEF InfoThere
      <4>10. Updated(z, r, "seeders", t, p, {n.at}, O)
        BY <3>1, <3>9, <3>11, <4>1, <4>3, <4>5, <4>6, <4>7, <4>8, <4>9 DEF Updated, FoundOrMade
      <4> QED
        BY <3>9, <4>4, <4>10 DEF z
    <3> QED
      BY <3>10, <3>11
  <2> QED
    BY <2>3, <2>4
<1> QED
  BY <1>4, <1>5

-----------------------------------------------------------------------------
(* What an update leaves of the invariant                                     *)

LEMMA InOnce ==
    ASSUME NEW z, Owned(z), NEW n, NEW s, NEW t, NEW p, In(z, s, t, p, n)
    PROVE  /\ n \in Chunks => n \in Listed(z)
           /\ \A v, u, q : In(z, v, u, q, n) => v = s /\ u = t /\ q = p
<1>1. PICK i \in DOMAIN z.torrents :
          /\ z.torrents[i].side = s /\ z.torrents[i].is = t
          /\ n \in Queue(z, i) /\ z.peers[n].is = p
  BY DEF In
<1>2. \A v, u, q : In(z, v, u, q, n) => v = s /\ u = t /\ q = p
  BY <1>1, InUnique
<1> QED
  BY <1>1, <1>2 DEF Listed

LEMMA ListedIn ==
    ASSUME NEW z, NEW n, n \in Listed(z)
    PROVE  \E s, t : In(z, s, t, z.peers[n].is, n)
BY DEF Listed, In

\* Other peers, and this one in other torrents, stay where they are.
LEMMA OthersLemma ==
    ASSUME NEW z, ZoneOK(z), NEW side, NEW t, NEW p, NEW r, NEW N, NEW O,
           Updated(z, r, side, t, p, N, O),
           NEW m \in Chunks, NEW s, NEW u, NEW q, u # t \/ q # p
    PROVE  /\ In(r.z, s, u, q, m) <=> In(z, s, u, q, m)
           /\ In(z, s, u, q, m) => r.z.peers[m] = z.peers[m]
<1>1. Owned(z) /\ Owned(r.z) /\ Differ(z, r.z, N \cup O)
  BY DEF ZoneOK, Updated
<1>2. CASE m \notin N \cup O
  BY <1>1, <1>2 DEF Differ
<1>3. CASE m \in N
  <2>1. In(r.z, side, t, p, m) /\ (m \in Listed(z) => In(z, side, t, p, m))
    BY <1>3 DEF Updated
  <2>2. ~In(r.z, s, u, q, m)
    BY <1>1, <2>1, InOnce
  <2>3. ~In(z, s, u, q, m)
    <3>1. SUFFICES ASSUME In(z, s, u, q, m) PROVE FALSE
      OBVIOUS
    <3>2. m \in Listed(z)
      BY <1>1, <3>1, InOnce
    <3> QED
      BY <1>1, <2>1, <3>1, <3>2, InOnce
  <2> QED
    BY <2>2, <2>3
<1>4. CASE m \in O
  <2>1. m \notin Listed(r.z) /\ In(z, "leechers", t, p, m)
    BY <1>4 DEF Updated
  <2>2. ~In(r.z, s, u, q, m)
    BY <1>1, <2>1, InOnce
  <2>3. ~In(z, s, u, q, m)
    BY <1>1, <2>1, InOnce
  <2> QED
    BY <2>2, <2>3
<1> QED
  BY <1>2, <1>3, <1>4

LEMMA FitsSame ==
    ASSUME NEW z, NEW y, NEW x, NEW t, NEW p, Fits(z, x, t, p),
           \A m \in Chunks : \A s : /\ In(y, s, t, p, m) <=> In(z, s, t, p, m)
                                    /\ In(z, s, t, p, m) => y.peers[m] = z.peers[m]
    PROVE  Fits(y, x, t, p)
<1>1. \A m \in Chunks, s \in Sides :
         In(y, s, t, p, m) /\ y.peers[m].info # Null
            <=> In(z, s, t, p, m) /\ z.peers[m].info # Null
  OBVIOUS
<1>2. (x # "nothing") <=> \E s \in Sides, n \in Chunks :
          In(z, s, t, p, n) /\ z.peers[n].info # Null
  BY DEF Fits
<1>3. (x # "nothing") <=> \E s \in Sides, n \in Chunks :
          In(y, s, t, p, n) /\ y.peers[n].info # Null
  BY <1>1, <1>2, Zenon
<1>4. ASSUME x = "done", Alone(t, Torrents), Alone(p, Peers)
      PROVE  /\ \A n \in Chunks : ~In(y, "leechers", t, p, n)
             /\ \E n \in Chunks : In(y, "seeders", t, p, n)
  <2>1. /\ \A n \in Chunks : ~In(z, "leechers", t, p, n)
        /\ \E n \in Chunks : In(z, "seeders", t, p, n)
    BY <1>4 DEF Fits
  <2> QED
    BY <2>1, Zenon
<1> QED
  BY <1>3, <1>4 DEF Fits

\* An update that fails.
LEMMA FailedZone ==
    ASSUME NEW z, ZoneOK(z), Speaks(z), NoneBare(z),
           NEW side, NEW t, NEW p, NEW r, NEW N, NEW O,
           Updated(z, r, side, t, p, N, O), r.at = Null
    PROVE  Speaks(r.z) /\ NoneBare(r.z)
<1>1. /\ Differ(z, r.z, N) /\ \A n \in N : r.z.peers[n].info = Null
      /\ N # {} => r.z.used = PeerRoom
  <2>1. O = {} /\ Differ(z, r.z, N \cup O)
    BY DEF Updated
  <2>2. Differ(z, r.z, N)
    BY <2>1
  <2> QED
    BY <2>2 DEF Updated
<1>2. \A n \in Listed(r.z) : n \notin N => n \in Listed(z) /\ r.z.peers[n] = z.peers[n]
  BY <1>1 DEF Differ, Listed
<1>3. r.z.infos = z.infos /\ (z.used = PeerRoom => r.z.used = PeerRoom)
  BY <1>1 DEF Differ
<1> QED
  BY <1>1, <1>2, <1>3 DEF Speaks, NoneBare

LEMMA FailedSaid ==
    ASSUME NEW z, ZoneOK(z), NEW sd, SaidOK(z, sd), NEW left \in {0, 1},
           NEW t \in Torrents, NEW p \in Peers, NEW side \in Sides,
           left = 0 => side = "seeders",
           NEW r, NEW N, NEW O, Updated(z, r, side, t, p, N, O), r.at = Null,
           NEW s2, s2 = [sd EXCEPT ![t][p] = IF @ = "done" /\ left # 0 THEN "part" ELSE @]
    PROVE  SaidOK(r.z, s2)
<1>1. /\ sd \in [Torrents -> [Peers -> {"nothing", "part", "done"}]]
      /\ s2 \in [Torrents -> [Peers -> {"nothing", "part", "done"}]]
      /\ s2[t][p] = IF sd[t][p] = "done" /\ left # 0 THEN "part" ELSE sd[t][p]
      /\ \A u \in Torrents, q \in Peers : u # t \/ q # p => s2[u][q] = sd[u][q]
  BY DEF SaidOK
<1>2. Owned(r.z) /\ Owned(z) /\ Differ(z, r.z, N \cup O) /\ O = {}
  BY DEF Updated, ZoneOK
<1>3. ASSUME NEW m \in Chunks, NEW s
      PROVE  In(r.z, s, t, p, m) /\ r.z.peers[m].info # Null
                <=> In(z, s, t, p, m) /\ z.peers[m].info # Null
  <2>1. CASE m \notin N
    BY <1>2, <2>1 DEF Differ
  <2>2. CASE m \in N
    <3>1. r.z.peers[m].info = Null /\ (m \in Listed(z) => z.peers[m].info = Null)
      BY <2>2 DEF Updated
    <3>2. In(z, s, t, p, m) => m \in Listed(z)
      BY <1>2, InOnce
    <3> QED
      BY <3>1, <3>2
  <2> QED
    BY <2>1, <2>2
<1>4. ASSUME s2[t][p] = "done", Alone(t, Torrents), Alone(p, Peers)
      PROVE  /\ \A n \in Chunks : ~In(r.z, "leechers", t, p, n)
             /\ \E n \in Chunks : In(r.z, "seeders", t, p, n)
  <2>1. sd[t][p] = "done" /\ side = "seeders"
    BY <1>1, <1>4
  <2>2. PICK n \in Chunks : In(z, "seeders", t, p, n)
    BY <1>4, <2>1 DEF SaidOK, Fits
  <2>3. In(r.z, "seeders", t, p, n)
    BY <1>2, <2>1, <2>2 DEF Differ, Updated
  <2>4. ASSUME NEW m \in Chunks, In(r.z, "leechers", t, p, m) PROVE FALSE
    <3>1. CASE m \notin N
      <4>1. In(z, "leechers", t, p, m)
        BY <1>2, <3>1, <2>4 DEF Differ
      <4> QED
        BY <4>1, <1>4, <2>1 DEF SaidOK, Fits
    <3>2. CASE m \in N
      <4>1. In(r.z, "seeders", t, p, m)
        BY <2>1, <3>2 DEF Updated
      <4> QED
        BY <4>1, <1>2, <2>4, InOnce
    <3> QED
      BY <3>1, <3>2
  <2> QED
    BY <2>3, <2>4
<1>5. (s2[t][p] # "nothing") <=>
          \E s \in Sides, n \in Chunks : In(r.z, s, t, p, n) /\ r.z.peers[n].info # Null
  <2>1. (s2[t][p] # "nothing") <=> (sd[t][p] # "nothing")
    BY <1>1
  <2>2. (sd[t][p] # "nothing") <=>
            \E s \in Sides, n \in Chunks : In(z, s, t, p, n) /\ z.peers[n].info # Null
    BY DEF SaidOK, Fits
  <2> QED
    BY <2>1, <2>2, <1>3
<1>6. ASSUME NEW u \in Torrents, NEW q \in Peers, u # t \/ q # p
      PROVE  Fits(r.z, s2[u][q], u, q)
  <2>1. \A m \in Chunks : \A s : /\ In(r.z, s, u, q, m) <=> In(z, s, u, q, m)
                                 /\ In(z, s, u, q, m) => r.z.peers[m] = z.peers[m]
    BY <1>6, OthersLemma
  <2>2. s2[u][q] = sd[u][q]
    BY <1>1, <1>6
  <2>3. Fits(z, sd[u][q], u, q)
    BY DEF SaidOK
  <2> QED
    BY <2>1, <2>2, <2>3, FitsSame
<1>7. Fits(r.z, s2[t][p], t, p)
  BY <1>4, <1>5 DEF Fits
<1>8. ASSUME NEW u \in Torrents, NEW q \in Peers PROVE Fits(r.z, s2[u][q], u, q)
  <2>1. CASE u = t /\ q = p
    BY <2>1, <1>7
  <2>2. CASE u # t \/ q # p
    BY <2>2, <1>6
  <2> QED
    BY <2>1, <2>2
<1> QED
  BY <1>1, <1>8 DEF SaidOK

\* An update that is written down.
Written(r, p, left) == [r.z EXCEPT !.infos[r.at] = [is |-> p, left |-> left]]

LEMMA WrittenZone ==
    ASSUME NEW z, ZoneOK(z), Speaks(z), NoneBare(z),
           NEW side, NEW t, NEW p \in Peers, NEW left \in {0, 1}, NEW r, NEW N, NEW O,
           Updated(z, r, side, t, p, N, O), r.at # Null,
           NEW y, y = Written(r, p, left)
    PROVE  /\ ZoneOK(y) /\ Speaks(y) /\ NoneBare(y)
           /\ y.torrents = r.z.torrents /\ y.peers = r.z.peers /\ y.used = r.z.used
<1> DEFINE x == r.z
           at == r.at
           rec == [is |-> p, left |-> left]
           is == [x.infos EXCEPT ![at] = rec]
<1>1. ZoneOK(x) /\ x \in ZoneType /\ at \in Chunks
  BY DEF ZoneOK, Updated
<1>2. rec \in InfoType /\ rec.is = p
  BY DEF InfoType
<1>3. y = [x EXCEPT !.infos = is]
  BY <1>1 DEF ZoneType, Written
<1> HIDE DEF rec
<1>4. x.infos \in [Chunks -> InfoType]
  BY <1>1, ZoneFields
<1>5. /\ is \in [Chunks -> InfoType] /\ is[at] = rec
      /\ \A m \in Chunks : m # at => is[m] = x.infos[m]
  BY <1>1, <1>2, <1>4
<1> HIDE DEF is
<1>6. /\ y \in ZoneType /\ y.torrents = x.torrents /\ y.peers = x.peers /\ y.used = x.used
      /\ y.infos = is /\ y.freePeers = x.freePeers /\ y.freeInfos = x.freeInfos
  BY <1>1, <1>3, <1>5 DEF ZoneType
<1> HIDE DEF x, at
<1>7. /\ \A i : Queue(y, i) = Queue(x, i)
      /\ Listed(y) = Listed(x) /\ Keyed(y)
  <2>1. x \in ZoneType /\ Keyed(x)
    BY <1>1 DEF ZoneOK
  <2>2. y.torrents = x.torrents /\ \A n \in Chunks : y.peers[n].is = x.peers[n].is
    BY <1>6
  <2> QED
    BY <2>1, <2>2, SameListsLemma
<1>8. Held(y) = Held(x)
  BY <1>6, <1>7 DEF Held
<1>9. Owned(y)
  BY <1>1, <1>6, <1>7, <1>8 DEF Owned, ZoneOK
<1>10. /\ Differ(z, x, N \cup O)
       /\ \A n \in N : x.peers[n].info = at /\ x.peers[n].is = p /\ n \in Listed(x)
       /\ \A n \in O : n \notin Listed(x)
       /\ N # {}
  <2>1. /\ Differ(z, x, N \cup O) /\ N # {}
        /\ \A n \in N : n \in Chunks /\ In(x, side, t, p, n) /\ x.peers[n].info = at
        /\ \A n \in O : n \notin Listed(x)
    BY DEF Updated, x, at
  <2>2. \A n \in N : x.peers[n].is = p /\ n \in Listed(x)
    BY <2>1 DEF In, Listed
  <2> QED
    BY <2>1, <2>2
<1>11. ASSUME NEW n \in Listed(x), n \notin N
       PROVE  /\ n \in Listed(z) /\ x.peers[n] = z.peers[n] /\ x.infos = z.infos
              /\ z.used = PeerRoom => x.used = PeerRoom
  BY <1>10, <1>11 DEF Differ, Listed
<1>12. Speaks(y)
  <2> SUFFICES ASSUME NEW n \in Listed(x), x.peers[n].info # Null
               PROVE  is[x.peers[n].info].is = x.peers[n].is
    BY <1>6, <1>7 DEF Speaks
  <2>1. CASE n \in N
    BY <2>1, <1>2, <1>5, <1>10
  <2>2. CASE n \notin N
    <3>1. PICK o \in N : TRUE
      BY <1>10
    <3>2. x.peers[o].info = at /\ o \in Listed(x) /\ at # Null /\ n # o
      BY <3>1, <2>2, <1>10 DEF at
    <3>3. x.peers[n].info # at
      BY <3>2, <1>1 DEF ZoneOK, Owned
    <3>4. x.peers[n].info \in Chunks
      BY <1>1, ZoneFields DEF Listed
    <3>5. is[x.peers[n].info] = z.infos[x.peers[n].info]
      BY <3>3, <3>4, <1>5, <1>11, <2>2
    <3> QED
      BY <3>5, <1>11, <2>2 DEF Speaks
  <2> QED
    BY <2>1, <2>2
<1>13. NoneBare(y)
  <2> SUFFICES ASSUME NEW n \in Listed(x), x.peers[n].info = Null PROVE x.used = PeerRoom
    BY <1>6, <1>7 DEF NoneBare
  <2>1. n \notin N
    BY <1>10 DEF at
  <2> QED
    BY <2>1, <1>11 DEF NoneBare
<1> QED
  BY <1>6, <1>7, <1>9, <1>12, <1>13 DEF ZoneOK, x

LEMMA WrittenSaid ==
    ASSUME NEW z, ZoneOK(z), NEW sd, SaidOK(z, sd), NEW left \in {0, 1},
           NEW t \in Torrents, NEW p \in Peers,
           NEW side, side = IF left = 0 THEN "seeders" ELSE "leechers",
           NEW r, NEW N, NEW O, Updated(z, r, side, t, p, N, O), r.at # Null,
           NEW s2, s2 = [sd EXCEPT ![t][p] = IF left = 0 THEN "done" ELSE "part"]
    PROVE  SaidOK(r.z, s2)
<1>1. /\ sd \in [Torrents -> [Peers -> {"nothing", "part", "done"}]]
      /\ s2 \in [Torrents -> [Peers -> {"nothing", "part", "done"}]]
      /\ s2[t][p] = IF left = 0 THEN "done" ELSE "part"
      /\ \A u \in Torrents, q \in Peers : u # t \/ q # p => s2[u][q] = sd[u][q]
  BY DEF SaidOK
<1>2. PICK n \in N : n \in Chunks /\ In(r.z, side, t, p, n) /\ r.z.peers[n].info # Null
  BY DEF Updated
<1>3. side \in Sides
  BY DEF Sides
<1>4. Fits(r.z, s2[t][p], t, p)
  <2>1. ASSUME left = 0, Alone(t, Torrents), Alone(p, Peers)
        PROVE  \A m \in Chunks : ~In(r.z, "leechers", t, p, m)
    BY <2>1 DEF Updated
  <2> QED
    BY <2>1, <1>1, <1>2, <1>3 DEF Fits
<1>5. ASSUME NEW u \in Torrents, NEW q \in Peers, u # t \/ q # p
      PROVE  Fits(r.z, s2[u][q], u, q)
  <2>1. \A m \in Chunks : \A s : /\ In(r.z, s, u, q, m) <=> In(z, s, u, q, m)
                                 /\ In(z, s, u, q, m) => r.z.peers[m] = z.peers[m]
    BY <1>5, OthersLemma
  <2>2. s2[u][q] = sd[u][q]
    BY <1>1, <1>5
  <2>3. Fits(z, sd[u][q], u, q)
    BY DEF SaidOK
  <2> QED
    BY <2>1, <2>2, <2>3, FitsSame
<1>6. ASSUME NEW u \in Torrents, NEW q \in Peers PROVE Fits(r.z, s2[u][q], u, q)
  <2>1. CASE u = t /\ q = p
    BY <2>1, <1>4
  <2>2. CASE u # t \/ q # p
    BY <2>2, <1>5
  <2> QED
    BY <2>1, <2>2
<1> QED
  BY <1>1, <1>6 DEF SaidOK

\* Fits is about where the peers are.
LEMMA SaidSame ==
    ASSUME NEW z, NEW y, NEW s, y.torrents = z.torrents, y.peers = z.peers, SaidOK(z, s)
    PROVE  SaidOK(y, s)
<1>1. \A n, v, t, p : In(y, v, t, p, n) <=> In(z, v, t, p, n)
  BY DEF In, Queue
<1> QED
  BY <1>1 DEF SaidOK, Fits

-----------------------------------------------------------------------------
(* The steps                                                                *)

LEMMA ZoneAfter ==
    ASSUME NEW y, y \in ZoneType, ZoneBecomes(y)
    PROVE  Zone' = y
BY DEF Zone, ZoneBecomes, ZoneType

LEMMA UpdateStep ==
    ASSUME IInv, NEW w \in Workers, NEW t \in Torrents, NEW p \in Peers, Update(w, t, p)
    PROVE  IInv'
<1>1. PICK left \in {0, 1}, c \in Afterwards(t, p) :
          \E r \in IF left = 0 THEN SeederUpdates(t, p) ELSE LeecherUpdates(t, p) :
          IF r.at = Null
            THEN /\ ZoneBecomes(r.z)
                 /\ call' = [call EXCEPT ![w] = Idle]
                 /\ said' = [said EXCEPT ![t][p] =
                                IF @ = "done" /\ left # 0 THEN "part" ELSE @]
            ELSE /\ ZoneBecomes([r.z EXCEPT !.infos[r.at] = [is |-> p, left |-> left]])
                 /\ call' = [call EXCEPT ![w] = c]
                 /\ said' = [said EXCEPT ![t][p] = IF left = 0 THEN "done" ELSE "part"]
  BY DEF Update
<1>a. PICK r \in IF left = 0 THEN SeederUpdates(t, p) ELSE LeecherUpdates(t, p) :
          IF r.at = Null
            THEN /\ ZoneBecomes(r.z)
                 /\ call' = [call EXCEPT ![w] = Idle]
                 /\ said' = [said EXCEPT ![t][p] =
                                IF @ = "done" /\ left # 0 THEN "part" ELSE @]
            ELSE /\ ZoneBecomes([r.z EXCEPT !.infos[r.at] = [is |-> p, left |-> left]])
                 /\ call' = [call EXCEPT ![w] = c]
                 /\ said' = [said EXCEPT ![t][p] = IF left = 0 THEN "done" ELSE "part"]
  BY <1>1
<1>2. died' = died
  BY DEF Update
<1>3. /\ ZoneOK(Zone) /\ Speaks(Zone) /\ NoneBare(Zone) /\ SaidOK(Zone, said)
      /\ CallInv /\ OnlyFullZoneKills
  BY DEF IInv
<1> DEFINE side == IF left = 0 THEN "seeders" ELSE "leechers"
<1>4. side \in Sides /\ (left = 0 => side = "seeders")
  BY DEF Sides
<1>5. PICK N \in SUBSET Chunks, O \in SUBSET Chunks : Updated(Zone, r, side, t, p, N, O)
  <2>1. CASE left = 0
    BY <1>a, <1>3, <2>1, SeederLemma
  <2>2. CASE left # 0
    BY <1>a, <1>3, <2>2, LeecherLemma
  <2> QED
    BY <2>1, <2>2
<1> HIDE DEF side
<1>6. Zone.used = PeerRoom => r.z.used = PeerRoom
  BY <1>5 DEF Updated, Differ
<1>7. Idle \in CallType /\ Idle.pc = "idle"
  <2>1. {} \in SUBSET [info : Chunks, is : Peers \cup {Null}]
    OBVIOUS
  <2> QED
    BY <2>1 DEF CallType, Idle
<1>8. CASE r.at = Null
  <2>1. /\ ZoneBecomes(r.z) /\ call' = [call EXCEPT ![w] = Idle]
        /\ said' = [said EXCEPT ![t][p] = IF @ = "done" /\ left # 0 THEN "part" ELSE @]
    BY <1>a, <1>8
  <2>2. ZoneOK(r.z) /\ r.z \in ZoneType
    BY <1>5 DEF Updated, ZoneOK
  <2>3. Zone' = r.z
    BY <2>1, <2>2, ZoneAfter
  <2>4. Speaks(r.z) /\ NoneBare(r.z)
    BY <1>3, <1>5, <1>8, FailedZone
  <2>5. SaidOK(r.z, said')
    BY <1>3, <1>4, <1>5, <1>8, <2>1, FailedSaid
  <2>6. CallInv'
    BY <1>3, <1>7, <2>1 DEF CallInv
  <2>7. OnlyFullZoneKills'
    BY <1>2, <1>3, <1>6, <2>1 DEF OnlyFullZoneKills, ZoneBecomes, Zone
  <2> QED
    BY <2>2, <2>3, <2>4, <2>5, <2>6, <2>7 DEF IInv
<1>9. CASE r.at # Null
  <2> DEFINE y == [r.z EXCEPT !.infos[r.at] = [is |-> p, left |-> left]]
  <2>1. /\ ZoneBecomes(y)
        /\ call' = [call EXCEPT ![w] = c]
        /\ said' = [said EXCEPT ![t][p] = IF left = 0 THEN "done" ELSE "part"]
    BY <1>a, <1>9
  <2>a. y = Written(r, p, left)
    BY DEF Written
  <2> HIDE DEF y
  <2>2. /\ ZoneOK(y) /\ Speaks(y) /\ NoneBare(y)
        /\ y.torrents = r.z.torrents /\ y.peers = r.z.peers /\ y.used = r.z.used
    BY <1>3, <1>5, <1>9, <2>a, WrittenZone
  <2>3. Zone' = y
    BY <2>1, <2>2, ZoneAfter DEF ZoneOK
  <2>4. SaidOK(r.z, said')
    BY <1>3, <1>5, <1>9, <2>1, WrittenSaid DEF side
  <2>5. SaidOK(y, said')
    BY <2>2, <2>4, SaidSame
  <2>6. c \in CallType /\ (c.pc = "query" => c.torrent \in Torrents /\ c.peer \in Peers)
    <3>1. CASE c = Idle
      BY <1>7, <3>1
    <3>2. ASSUME NEW want \in Wants,
                 c = [pc |-> "query", peer |-> p, torrent |-> t, want |-> want, answer |-> {}]
          PROVE  c \in CallType /\ c.torrent \in Torrents /\ c.peer \in Peers
      <4>1. {} \in SUBSET [info : Chunks, is : Peers \cup {Null}]
        OBVIOUS
      <4>2. want \in Nat
        BY TrackerAssumption
      <4> QED
        BY <3>2, <4>1, <4>2 DEF CallType
    <3> QED
      BY <3>1, <3>2 DEF Afterwards
  <2>7. CallInv'
    BY <1>3, <2>1, <2>6 DEF CallInv
  <2>8. OnlyFullZoneKills'
    BY <1>2, <1>3, <1>6, <2>1, <2>2 DEF OnlyFullZoneKills, ZoneBecomes, Zone
  <2> QED
    BY <2>2, <2>3, <2>5, <2>7, <2>8 DEF IInv
<1> QED
  BY <1>8, <1>9

\* A set with 1 in it, and with every position the next, has all positions.
LEMMA UpTo ==
    ASSUME NEW n \in Nat, NEW S, n > 0 => 1 \in S,
           \A k \in 1 .. n : k \in S /\ k < n => k + 1 \in S
    PROVE  1 .. n \subseteq S
<1> SUFFICES ASSUME NEW z \in (1 .. n) \ S PROVE FALSE
  OBVIOUS
<1> DEFINE N == 1 .. n
           T == {1 .. k : k \in N \ S}
           R == StrictSubsetOrdering(N)
<1>1. IsWellFoundedOn(R, FiniteSubsetsOf(N))
  BY FS_StrictSubsetOrderingWellFounded
<1>2. \A a, b \in SUBSET N : a \subseteq b /\ a # b => <<a, b>> \in R
  BY DEF StrictSubsetOrdering
<1>3. T \subseteq FiniteSubsetsOf(N) /\ T # {}
  <2>1. \A k \in N : 1 .. k \in SUBSET N /\ IsFiniteSet(1 .. k)
    BY FS_Interval
  <2> QED
    BY <2>1 DEF FiniteSubsetsOf
<1>4. PICK t \in T : \A u \in T : ~(<<u, t>> \in R)
  <2> HIDE DEF T, R
  <2> QED
    BY <1>1, <1>3, WFMin
<1>5. PICK k \in N \ S : t = 1 .. k
  BY <1>4
<1>6. k \in 1 .. n /\ k # 1 /\ k - 1 \in 1 .. n /\ k - 1 < n /\ k - 1 + 1 = k
  BY <1>5
<1>7. k - 1 \in N \ S
  BY <1>5, <1>6
<1>8. 1 .. (k - 1) \in SUBSET N /\ 1 .. k \in SUBSET N
      /\ 1 .. (k - 1) \subseteq 1 .. k /\ 1 .. (k - 1) # 1 .. k
  <2>1. k \in 1 .. k /\ k \notin 1 .. (k - 1)
    BY <1>6
  <2>2. 1 .. (k - 1) \subseteq 1 .. k /\ 1 .. k \subseteq N
    BY <1>6
  <2> QED
    BY <2>1, <2>2
<1>9. <<1 .. (k - 1), 1 .. k>> \in R
  <2> HIDE DEF R
  <2> QED
    BY <1>2, <1>8
<1> HIDE DEF R
<1> QED
  BY <1>4, <1>5, <1>7, <1>9

\* A set of peers that has not reached the limit has not after one more passed it.
Within(S, want) == IsFiniteSet(S) /\ Cardinality(S) <= want

LEMMA OneMore ==
    ASSUME NEW want \in Nat, NEW S, NEW x, Within(S, want), Cardinality(S) # want
    PROVE  Within(S \cup {x}, want)
<1>1. IsFiniteSet(S) /\ Cardinality(S) \in Nat
  BY FS_CardinalityType DEF Within
<1>2. IsFiniteSet(S \cup {x}) /\ Cardinality(S \cup {x}) \in {Cardinality(S), Cardinality(S) + 1}
  BY <1>1, FS_AddElement
<1> QED
  BY <1>1, <1>2 DEF Within

\* Up to k, got grows by one at a time, from sets that are not at the limit.
Grows(got, k, want) ==
    \A l \in 0 .. k - 1 :
        /\ Cardinality(got[l]) # want
        /\ got[l + 1] = got[l] \/ \E x : got[l + 1] = got[l] \cup {x}

\* So it does not pass the limit.
LEMMA GrowsWithin ==
    ASSUME NEW want \in Nat, NEW k \in Nat, NEW got, Within(got[0], want), Grows(got, k, want)
    PROVE  Within(got[k], want)
<1> DEFINE S == {j \in 1 .. (k + 1) : Within(got[j - 1], want)}
<1>1. 1 \in S
  <2>1. 1 \in 1 .. (k + 1) /\ 1 - 1 = 0
    OBVIOUS
  <2> QED
    BY <2>1
<1>2. ASSUME NEW j \in 1 .. (k + 1), j \in S, j < k + 1 PROVE j + 1 \in S
  <2>1. j - 1 \in 0 .. k - 1 /\ j - 1 + 1 = j /\ j + 1 - 1 = j /\ j + 1 \in 1 .. (k + 1)
    BY <1>2
  <2>2. Within(got[j - 1], want)
    BY <1>2
  <2>3. got[j] = got[j - 1] \/ \E x : got[j] = got[j - 1] \cup {x}
    BY <2>1 DEF Grows
  <2>4. Cardinality(got[j - 1]) # want
    BY <2>1 DEF Grows
  <2> DEFINE old == got[j - 1]
             new == got[j]
  <2>5. Within(new, want)
    <3>1. Within(old, want) /\ Cardinality(old) # want
      BY <2>2, <2>4
    <3>2. new = old \/ \E x : new = old \cup {x}
      BY <2>3
    <3> HIDE DEF old, new
    <3>3. \A x : Within(old \cup {x}, want)
      BY <3>1, OneMore
    <3> QED
      BY <3>1, <3>2, <3>3
  <2> QED
    BY <2>1, <2>5
<1> HIDE DEF S
<1>3. k + 1 \in Nat
  OBVIOUS
<1>4. 1 .. (k + 1) \subseteq S
  BY <1>1, <1>2, <1>3, UpTo
<1>5. k + 1 \in 1 .. (k + 1) /\ k + 1 - 1 = k
  OBVIOUS
<1>6. k + 1 \in S
  BY <1>4, <1>5
<1> QED
  BY <1>5, <1>6 DEF S

LEMMA PeerListWithin ==
    ASSUME NEW c, c.want \in Nat, c.want # 0, NEW answer, Within(answer, c.want),
           NEW q \in Seq(Chunks), NEW g, g \in GetPeerList(c, answer, q)
    PROVE  Within(g.got, c.want)
<1> DEFINE Got(k) == answer \cup {Entry(q[l]) : l \in {l \in 1 .. k : Other(c, q[l])}}
           Ends(k) == \/ k = Len(q)
                      \/ Full(c, Got(k))
                      \/ peers[q[k + 1]].info = Null
<1>1. PICK k \in 0 .. Len(q) :
          /\ g = [got |-> Got(k), null |-> k # Len(q) /\ ~Full(c, Got(k))]
          /\ \A l \in 0 .. k - 1 : ~Ends(l)
  BY DEF GetPeerList
<1>2. k \in Nat /\ Len(q) \in Nat
  OBVIOUS
<1>3. g.got = Got(k)
  BY <1>1
<1> DEFINE got == [l \in 0 .. k |-> Got(l)]
<1>4. \A l \in 0 .. k - 1 : l \in 0 .. k /\ l + 1 \in 0 .. k
  BY <1>2
<1>5. ASSUME NEW l \in 0 .. k - 1
      PROVE  /\ Cardinality(Got(l)) # c.want
             /\ Got(l + 1) = Got(l) \/ \E x : Got(l + 1) = Got(l) \cup {x}
  <2>1. ~Full(c, Got(l))
    BY <1>1
  <2>2. Cardinality(Got(l)) # c.want
    BY <2>1 DEF Full
  <2>3. l \in Nat /\ 1 .. (l + 1) = (1 .. l) \cup {l + 1}
    BY <1>2
  <2>4. CASE Other(c, q[l + 1])
    <3>1. Got(l + 1) = Got(l) \cup {Entry(q[l + 1])}
      BY <2>3, <2>4
    <3> QED
      BY <2>2, <3>1
  <2>5. CASE ~Other(c, q[l + 1])
    <3>1. Got(l + 1) = Got(l)
      BY <2>3, <2>5
    <3> QED
      BY <2>2, <3>1
  <2> QED
    BY <2>4, <2>5
<1>6. Got(0) = answer
  OBVIOUS
<1> HIDE DEF Got
<1>7. got[0] = answer /\ got[k] = Got(k)
  BY <1>2, <1>6
<1>8. Grows(got, k, c.want)
  BY <1>4, <1>5 DEF Grows
<1> HIDE DEF got
<1>9. Within(got[k], c.want)
  BY <1>2, <1>7, <1>8, GrowsWithin
<1> QED
  BY <1>3, <1>7, <1>9

\* What the loop over a queue makes of an answer.
Listing(c, answer, q, g) ==
    /\ answer \subseteq g.got
    /\ \A e \in g.got : e \in answer \/ \E n \in ToSet(q) : Other(c, n) /\ e = Entry(n)
    /\ g.null => \E n \in ToSet(q) : peers[n].info = Null
    /\ ~g.null /\ Cardinality(g.got) # c.want =>
          \A n \in ToSet(q) : Other(c, n) => Entry(n) \in g.got

LEMMA PeerListLemma ==
    ASSUME NEW c, NEW answer, NEW q \in Seq(Chunks),
           NEW g, g \in GetPeerList(c, answer, q)
    PROVE  Listing(c, answer, q, g)
<1> DEFINE Got(k) == answer \cup {Entry(q[l]) : l \in {l \in 1 .. k : Other(c, q[l])}}
           Ends(k) == \/ k = Len(q)
                      \/ Full(c, Got(k))
                      \/ peers[q[k + 1]].info = Null
<1>1. PICK k \in 0 .. Len(q) :
          /\ g = [got |-> Got(k), null |-> k # Len(q) /\ ~Full(c, Got(k))]
          /\ Ends(k)
  BY DEF GetPeerList
<1>2. Len(q) \in Nat /\ DOMAIN q = 1 .. Len(q) /\ \A l \in 1 .. k : l \in DOMAIN q
  OBVIOUS
<1>3. /\ g.got = Got(k)
      /\ g.null => k # Len(q) /\ ~Full(c, g.got)
      /\ ~g.null /\ ~Full(c, g.got) => k = Len(q)
  <2> DEFINE got == Got(k)
             null == k # Len(q) /\ ~Full(c, got)
  <2>1. g = [got |-> got, null |-> null]
    BY <1>1
  <2> HIDE DEF got, null
  <2>2. g.got = got /\ g.null = null
    BY <2>1
  <2> HIDE DEF Got
  <2> QED
    BY <2>2, Zenon DEF got, null
<1>f. ~g.null /\ Cardinality(g.got) # c.want => k = Len(q)
  BY <1>3 DEF Full
<1>a. k # Len(q) /\ ~Full(c, Got(k)) => peers[q[k + 1]].info = Null
  BY <1>1
<1>b. Got(k) = answer \cup {Entry(q[l]) : l \in {l \in 1 .. k : Other(c, q[l])}}
  OBVIOUS
<1> HIDE DEF Got, Ends
<1>4. ASSUME g.null PROVE \E n \in ToSet(q) : peers[n].info = Null
  <2>1. k # Len(q) /\ peers[q[k + 1]].info = Null
    BY <1>3, <1>4, <1>a
  <2>2. k + 1 \in 1 .. Len(q)
    BY <2>1
  <2>3. q[k + 1] \in ToSet(q)
    BY <1>2, <2>2 DEF ToSet
  <2> QED
    BY <2>1, <2>3
<1>5. ASSUME NEW e \in g.got, e \notin answer
      PROVE  \E n \in ToSet(q) : Other(c, n) /\ e = Entry(n)
  <2>1. PICK l \in 1 .. k : Other(c, q[l]) /\ e = Entry(q[l])
    BY <1>3, <1>5, <1>b
  <2>2. q[l] \in ToSet(q)
    BY <1>2 DEF ToSet
  <2> QED
    BY <2>1, <2>2
<1>6. ASSUME k = Len(q), NEW n \in ToSet(q), Other(c, n) PROVE Entry(n) \in g.got
  <2>1. PICK l \in 1 .. Len(q) : q[l] = n
    BY <1>2 DEF ToSet
  <2> QED
    BY <1>3, <1>6, <1>b, <2>1
<1>7. answer \subseteq g.got
  BY <1>3, <1>b
<1> QED
  BY <1>f, <1>4, <1>5, <1>6, <1>7 DEF Listing

\* The queue of a torrent that a lookup has ended with.
LEMMA QueueOfLemma ==
    ASSUME ZoneOK(Zone), NEW side \in Sides, NEW t \in Torrents,
           NEW i, i \in LookupTorrent(Zone, side, t)
    PROVE  /\ QueueOf(i) \in Seq(Chunks)
           /\ \A n \in ToSet(QueueOf(i)) :
                 n \in Listed(Zone) /\ In(Zone, side, t, peers[n].is, n)
           /\ Alone(t, Torrents) =>
                 \A p, n : In(Zone, side, t, p, n) => n \in ToSet(QueueOf(i))
<1>1. Zone \in ZoneType /\ Keyed(Zone)
  BY DEF ZoneOK
<1>2. Zone.torrents = torrents /\ Zone.peers = peers
  BY DEF Zone
<1>3. /\ i # Null => /\ i \in DOMAIN torrents
                     /\ torrents[i].side = side /\ torrents[i].is = t
      /\ i = Null /\ Alone(t, Torrents) =>
            \A j \in DOMAIN torrents : torrents[j].side = side => torrents[j].is # t
  BY <1>1, <1>2, LookupTorrentLemma
<1>4. CASE i = Null
  <2>1. QueueOf(i) = <<>> /\ <<>> \in Seq(Chunks) /\ DOMAIN <<>> = {}
    BY <1>4 DEF QueueOf
  <2>2. ToSet(QueueOf(i)) = {}
    BY <2>1 DEF ToSet
  <2> QED
    BY <1>2, <1>3, <1>4, <2>1, <2>2 DEF In
<1>5. CASE i # Null
  <2>1. QueueOf(i) = torrents[i].queue /\ ToSet(QueueOf(i)) = Queue(Zone, i)
    BY <1>2, <1>5 DEF QueueOf, Queue
  <2>2. QueueOf(i) \in Seq(Chunks) /\ Queue(Zone, i) \subseteq Listed(Zone)
    BY <1>1, <1>2, <1>3, <1>5, <2>1, ZoneFields
  <2>3. \A n \in Queue(Zone, i) : In(Zone, side, t, peers[n].is, n)
    BY <1>2, <1>3, <1>5 DEF In
  <2>4. ASSUME Alone(t, Torrents), NEW p, NEW n, In(Zone, side, t, p, n)
        PROVE  n \in Queue(Zone, i)
    BY <1>1, <1>2, <1>3, <1>5, <2>4 DEF In, Keyed
  <2> QED
    BY <2>1, <2>2, <2>3, <2>4
<1> QED
  BY <1>4, <1>5

\* What the second critical section comes to, for announce c of worker w.
Answered(w, c, all) ==
    /\ IF all.null
         THEN died' = TRUE /\ call' = [call EXCEPT ![w] = Idle]
         ELSE /\ call' = [call EXCEPT ![w] = [Idle EXCEPT !.answer = all.got]]
              /\ died' = died
    /\ all.null => \E n \in Listed(Zone) : peers[n].info = Null
    /\ c.want # 0 => Within(all.got, c.want)
    /\ \A e \in all.got : \E n \in Listed(Zone), side \in Sides :
          /\ In(Zone, side, c.torrent, peers[n].is, n)
          /\ Other(c, n) /\ e = Entry(n)
    /\ ~all.null /\ Cardinality(all.got) # c.want /\ Alone(c.torrent, Torrents) =>
          \A side \in Sides : \A p, n :
             In(Zone, side, c.torrent, p, n) /\ Other(c, n) => Entry(n) \in all.got

LEMMA QueryLemma ==
    ASSUME IInv, NEW w \in Workers, Query(w)
    PROVE  \E all : Answered(w, call[w], all)
<1> DEFINE c == call[w]
<1>1. PICK i \in LookupTorrent(Zone, "seeders", c.torrent),
           j \in LookupTorrent(Zone, "leechers", c.torrent) :
          \E first \in GetPeerList(c, {}, QueueOf(i)) :
          \E all \in IF first.null \/ Cardinality(first.got) = c.want THEN {first}
                    ELSE GetPeerList(c, first.got, QueueOf(j)) :
             IF all.null
               THEN died' = TRUE /\ call' = [call EXCEPT ![w] = Idle]
               ELSE /\ call' = [call EXCEPT ![w] = [Idle EXCEPT !.answer = all.got]]
                    /\ UNCHANGED died
  BY DEF Query
<1>a. PICK first \in GetPeerList(c, {}, QueueOf(i)) :
          \E all \in IF first.null \/ Cardinality(first.got) = c.want THEN {first}
                    ELSE GetPeerList(c, first.got, QueueOf(j)) :
             IF all.null
               THEN died' = TRUE /\ call' = [call EXCEPT ![w] = Idle]
               ELSE /\ call' = [call EXCEPT ![w] = [Idle EXCEPT !.answer = all.got]]
                    /\ UNCHANGED died
  BY <1>1
<1>b. PICK all \in IF first.null \/ Cardinality(first.got) = c.want THEN {first}
                   ELSE GetPeerList(c, first.got, QueueOf(j)) :
             IF all.null
               THEN died' = TRUE /\ call' = [call EXCEPT ![w] = Idle]
               ELSE /\ call' = [call EXCEPT ![w] = [Idle EXCEPT !.answer = all.got]]
                    /\ UNCHANGED died
  BY <1>a
<1>2. ZoneOK(Zone) /\ c.torrent \in Torrents /\ c.want \in Nat
  BY DEF IInv, CallInv, CallType, Query
<1> HIDE DEF c
<1>3. "seeders" \in Sides /\ "leechers" \in Sides /\ Sides = {"seeders", "leechers"}
  BY DEF Sides
<1>4. /\ QueueOf(i) \in Seq(Chunks)
      /\ \A n \in ToSet(QueueOf(i)) :
            n \in Listed(Zone) /\ In(Zone, "seeders", c.torrent, peers[n].is, n)
      /\ Alone(c.torrent, Torrents) =>
            \A p, n : In(Zone, "seeders", c.torrent, p, n) => n \in ToSet(QueueOf(i))
  BY <1>2, <1>3, QueueOfLemma
<1>5. /\ QueueOf(j) \in Seq(Chunks)
      /\ \A n \in ToSet(QueueOf(j)) :
            n \in Listed(Zone) /\ In(Zone, "leechers", c.torrent, peers[n].is, n)
      /\ Alone(c.torrent, Torrents) =>
            \A p, n : In(Zone, "leechers", c.torrent, p, n) => n \in ToSet(QueueOf(j))
  BY <1>2, <1>3, QueueOfLemma
<1>6. Listing(c, {}, QueueOf(i), first)
  BY <1>4, PeerListLemma
<1>w. c.want # 0 => Within(first.got, c.want)
  <2>1. Within({}, c.want)
    BY <1>2, FS_EmptySet DEF Within
  <2> QED
    BY <1>2, <1>4, <2>1, PeerListWithin
<1>7. CASE first.null \/ Cardinality(first.got) = c.want
  <2>1. all = first
    BY <1>b, <1>7
  <2> QED
    BY <1>b, <1>3, <1>4, <1>6, <1>7, <1>w, <2>1 DEF Answered, Listing, c
<1>8. CASE ~(first.null \/ Cardinality(first.got) = c.want)
  <2>1. Listing(c, first.got, QueueOf(j), all)
    BY <1>b, <1>5, <1>8, PeerListLemma
  <2>w. c.want # 0 => Within(all.got, c.want)
    BY <1>b, <1>2, <1>5, <1>8, <1>w, PeerListWithin
  <2>2. all.null => \E n \in Listed(Zone) : peers[n].info = Null
    BY <1>5, <2>1 DEF Listing
  <2>3. ASSUME NEW e \in all.got
        PROVE  \E n \in Listed(Zone), side \in Sides :
                  /\ In(Zone, side, c.torrent, peers[n].is, n)
                  /\ Other(c, n) /\ e = Entry(n)
    <3>1. CASE e \in first.got
      BY <3>1, <1>3, <1>4, <1>6 DEF Listing
    <3>2. CASE e \notin first.got
      BY <3>2, <1>3, <1>5, <2>1 DEF Listing
    <3> QED
      BY <3>1, <3>2
  <2>4. ASSUME ~all.null, Cardinality(all.got) # c.want, Alone(c.torrent, Torrents),
               NEW side \in Sides, NEW p, NEW n, In(Zone, side, c.torrent, p, n), Other(c, n)
        PROVE  Entry(n) \in all.got
    <3>1. CASE side = "seeders"
      <4>1. Entry(n) \in first.got
        BY <3>1, <1>4, <1>6, <1>8, <2>4 DEF Listing
      <4> QED
        BY <4>1, <2>1 DEF Listing
    <3>2. CASE side = "leechers"
      BY <3>2, <1>5, <2>1, <2>4 DEF Listing
    <3> QED
      BY <3>1, <3>2, <1>3
  <2> QED
    BY <1>b, <2>w, <2>2, <2>3, <2>4 DEF Answered, c
<1> QED
  BY <1>7, <1>8

LEMMA QueryStep ==
    ASSUME IInv, NEW w \in Workers, Query(w)
    PROVE  IInv'
<1>1. /\ ZoneOK(Zone) /\ Speaks(Zone) /\ NoneBare(Zone) /\ SaidOK(Zone, said)
      /\ CallInv /\ OnlyFullZoneKills
  BY DEF IInv
<1>2. PICK all : Answered(w, call[w], all)
  BY QueryLemma
<1>3. Zone' = Zone /\ said' = said /\ used' = used
  BY DEF Query, Zone, lists
<1>4. CallInv'
  <2>1. CASE all.null
    <3>1. call' = [call EXCEPT ![w] = Idle] /\ Idle.pc = "idle"
      BY <1>2, <2>1 DEF Answered, Idle
    <3>2. {} \in SUBSET [info : Chunks, is : Peers \cup {Null}]
      OBVIOUS
    <3>3. Idle \in CallType
      BY <3>2 DEF CallType, Idle
    <3> QED
      BY <1>1, <3>1, <3>3 DEF CallInv
  <2>2. CASE ~all.null
    <3> DEFINE got == all.got
               d == [Idle EXCEPT !.answer = got]
    <3>1. call' = [call EXCEPT ![w] = [Idle EXCEPT !.answer = got]]
      BY <1>2, <2>2 DEF Answered
    <3>2. got \subseteq [info : Chunks, is : Peers \cup {Null}]
      <4> SUFFICES ASSUME NEW e \in got PROVE e \in [info : Chunks, is : Peers \cup {Null}]
        OBVIOUS
      <4>1. PICK n \in Listed(Zone) : Other(call[w], n) /\ e = Entry(n)
        BY <1>2 DEF Answered
      <4>2. /\ peers \in [Chunks -> PeerType] /\ infos \in [Chunks -> InfoType] /\ n \in Chunks
            /\ peers[n].info \in Chunks \cup {Null}
        BY <1>1, ZoneFields DEF ZoneOK, Zone, Listed
      <4>3. peers[n].info \in Chunks /\ infos[peers[n].info].is \in Peers \cup {Null}
        BY <4>1, <4>2 DEF Other, InfoType
      <4> QED
        BY <4>1, <4>3 DEF Entry
    <3> HIDE DEF got
    <3>3. call \in [Workers -> CallType] /\ call[w] \in CallType
      BY <1>1 DEF CallInv
    <3>4. d \in CallType /\ d.pc = "idle"
      BY <3>2 DEF CallType, Idle
    <3>5. call' = [call EXCEPT ![w] = d]
      BY <3>1
    <3> HIDE DEF d
    <3> QED
      BY <1>1, <3>4, <3>5 DEF CallInv
  <2> QED
    BY <2>1, <2>2
<1>5. OnlyFullZoneKills'
  <2>1. CASE all.null
    <3>1. used = PeerRoom
      BY <1>1, <1>2, <2>1 DEF Answered, NoneBare, Zone
    <3> QED
      BY <1>3, <3>1 DEF OnlyFullZoneKills
  <2>2. CASE ~all.null
    BY <1>1, <1>2, <1>3, <2>2 DEF Answered, OnlyFullZoneKills
  <2> QED
    BY <2>1, <2>2
<1> QED
  BY <1>1, <1>3, <1>4, <1>5 DEF IInv

LEMMA InitIInv ==
    ASSUME Init
    PROVE  IInv
<1> USE TrackerAssumption
<1>1. /\ <<>> \in Seq(TorrentType) /\ <<>> \in Seq(Chunks) /\ DOMAIN <<>> = {}
      /\ NoPeer \in PeerType /\ NoInfo \in InfoType /\ 0 \in 0 .. PeerRoom
  BY DEF NoPeer, NoInfo, PeerType, InfoType
<1>2. ToSet(<<>>) = {} /\ IsInjective(<<>>)
  BY <1>1 DEF ToSet, IsInjective
<1>3. /\ Zone.torrents = <<>> /\ Zone.freePeers = <<>> /\ Zone.freeInfos = <<>>
      /\ Zone.used = 0
  BY DEF Init, Zone
<1>4. Zone \in ZoneType
  BY <1>1 DEF Init, Zone, ZoneType
<1>5. Listed(Zone) = {} /\ Held(Zone) = {}
  BY <1>1, <1>3 DEF Listed, Held
<1>6. Owned(Zone)
  <2>1. 1 .. 0 = {}
    OBVIOUS
  <2> QED
    BY <2>1, <1>1, <1>2, <1>3, <1>5 DEF Owned
<1>7. Keyed(Zone) /\ Speaks(Zone) /\ NoneBare(Zone)
  BY <1>1, <1>3, <1>5 DEF Keyed, Speaks, NoneBare
<1>8. SaidOK(Zone, said)
  <2>1. \A s, t, p, n : ~In(Zone, s, t, p, n)
    BY <1>1, <1>3 DEF In
  <2>2. \A t \in Torrents, p \in Peers : said[t][p] = "nothing"
    BY DEF Init
  <2>3. said \in [Torrents -> [Peers -> {"nothing", "part", "done"}]]
    BY DEF Init
  <2> QED
    BY <2>1, <2>2, <2>3 DEF SaidOK, Fits
<1>9. CallInv
  <2>1. {} \in SUBSET [info : Chunks, is : Peers \cup {Null}]
    OBVIOUS
  <2>2. Idle \in CallType /\ Idle.pc = "idle"
    BY <2>1 DEF CallType, Idle
  <2> QED
    BY <2>2 DEF Init, CallInv
<1> QED
  BY <1>4, <1>6, <1>7, <1>8, <1>9 DEF IInv, ZoneOK, OnlyFullZoneKills, Init

-----------------------------------------------------------------------------
(* The theorems                                                             *)

\* Whatever the workers announce and in whatever order their critical sections
\* run, also when the zone is full and updates fail half way, the records of the
\* zone are in one place each, keys that no other can be taken for are listed
\* once, and the lists say what the peers have said.
THEOREM TrackerInductive == Spec => []IInv
<1>1. Init => IInv
  BY InitIInv
<1>2. IInv /\ [Next]_vars => IInv'
  <2> SUFFICES ASSUME IInv, [Next]_vars PROVE IInv'
    OBVIOUS
  <2>1. ASSUME NEW w \in Workers, NEW t \in Torrents, NEW p \in Peers, Update(w, t, p)
        PROVE  IInv'
    BY <2>1, UpdateStep
  <2>2. ASSUME NEW w \in Workers, Query(w) PROVE IInv'
    BY <2>2, QueryStep
  <2>3. CASE UNCHANGED vars
    <3>1. Zone' = Zone /\ said' = said /\ CallInv' = CallInv /\ OnlyFullZoneKills' = OnlyFullZoneKills
      BY <2>3 DEF vars, lists, Zone, CallInv, OnlyFullZoneKills
    <3> QED
      BY <3>1 DEF IInv
  <2> QED
    BY <2>1, <2>2, <2>3 DEF Next
<1> QED
  BY <1>1, <1>2, PTL DEF Spec

LEMMA OwnedOnce == IInv => RecordsOwnedOnce
<1> SUFFICES ASSUME IInv PROVE RecordsOwnedOnce
  OBVIOUS
<1> DEFINE queues == [i \in DOMAIN torrents |-> ToSet(torrents[i].queue)]
           listed == UNION {queues[i] : i \in DOMAIN torrents}
           held == {peers[n].info : n \in listed} \ {Null}
<1>1. Zone \in ZoneType /\ Owned(Zone) /\ Speaks(Zone)
  BY DEF IInv, ZoneOK
<1>2. /\ Zone.torrents = torrents /\ Zone.peers = peers /\ Zone.infos = infos
      /\ Zone.freePeers = freePeers /\ Zone.freeInfos = freeInfos /\ Zone.used = used
  BY DEF Zone
<1>3. \A i \in DOMAIN torrents : queues[i] = Queue(Zone, i)
  BY <1>2 DEF Queue
<1>4. \A i \in DOMAIN torrents : Queue(Zone, i) \subseteq Chunks
  BY <1>1, <1>2, ZoneFields DEF Listed
<1>5. listed = Listed(Zone)
  BY <1>2, <1>3, <1>4 DEF Listed
<1> HIDE DEF queues
<1>6. \A n \in Listed(Zone) : peers[n].info \in Chunks \cup {Null}
  BY <1>1, <1>2, ZoneFields DEF Listed
<1>7. Null \notin Chunks
  BY <1>1, ZoneFields
<1> HIDE DEF listed
<1>8. held = Held(Zone)
  BY <1>2, <1>5, <1>6, <1>7 DEF Held
<1> HIDE DEF held
<1>9. \A i, j \in DOMAIN torrents : i # j => queues[i] \cap queues[j] = {}
  BY <1>1, <1>2, <1>3 DEF Owned
<1>10. \A n \in listed : peers[n].info # Null => infos[peers[n].info].is = peers[n].is
  BY <1>1, <1>2, <1>5 DEF Speaks
<1>11. /\ IsInjective(freePeers) /\ IsInjective(freeInfos)
       /\ \A i \in DOMAIN torrents : IsInjective(torrents[i].queue)
       /\ listed \cap ToSet(freePeers) = {} /\ held \cap ToSet(freeInfos) = {}
       /\ (listed \cup ToSet(freePeers)) \cap (held \cup ToSet(freeInfos)) = {}
       /\ \A m, n \in listed : peers[m].info = peers[n].info => m = n \/ peers[m].info = Null
       /\ 1 .. used = listed \cup held \cup ToSet(freePeers) \cup ToSet(freeInfos)
  BY <1>1, <1>2, <1>5, <1>8 DEF Owned
<1> QED
  BY <1>9, <1>10, <1>11 DEF RecordsOwnedOnce, queues, listed, held

\* No record of the zone is lost, is in two places or serves two owners, for any
\* number of workers, torrents and peers and any size of the zone.
THEOREM RecordsAlwaysOwnedOnce == Spec => []RecordsOwnedOnce
BY TrackerInductive, OwnedOnce, PTL

LEMMA NoLeecher == IInv => CompletedIsNoLeecher
<1> SUFFICES ASSUME IInv, NEW t \in Torrents, NEW p \in Peers,
                    Alone(t, Torrents), Alone(p, Peers), said[t][p] = "done"
             PROVE  /\ \A n \in Chunks : ~\E i \in DOMAIN torrents :
                          /\ torrents[i].side = "leechers" /\ torrents[i].is = t
                          /\ n \in ToSet(torrents[i].queue) /\ peers[n].is = p
                    /\ \E n \in Chunks : \A m \in Chunks :
                          m = n <=> \E i \in DOMAIN torrents :
                             /\ torrents[i].side = "seeders" /\ torrents[i].is = t
                             /\ m \in ToSet(torrents[i].queue) /\ peers[m].is = p
  BY DEF CompletedIsNoLeecher
<1>1. Keyed(Zone) /\ SaidOK(Zone, said)
  BY DEF IInv, ZoneOK
<1>2. \A side, n : In(Zone, side, t, p, n) <=>
          \E i \in DOMAIN torrents :
             /\ torrents[i].side = side /\ torrents[i].is = t
             /\ n \in ToSet(torrents[i].queue) /\ peers[n].is = p
  BY DEF In, Zone, Queue
<1>3. /\ \A n \in Chunks : ~In(Zone, "leechers", t, p, n)
      /\ \E n \in Chunks : In(Zone, "seeders", t, p, n)
  BY <1>1 DEF SaidOK, Fits
<1>4. PICK n \in Chunks : In(Zone, "seeders", t, p, n)
  BY <1>3
<1>5. ASSUME NEW m \in Chunks, In(Zone, "seeders", t, p, m) PROVE m = n
  BY <1>1, <1>4, <1>5 DEF Keyed, In
<1> QED
  BY <1>2, <1>3, <1>4, <1>5

\* A peer that has completed is a seeder once and no leecher, whichever workers
\* took its announces and whatever failed in between.
THEOREM CompletedNeverLeeches == Spec => []CompletedIsNoLeecher
BY TrackerInductive, NoLeecher, PTL

\* Only a zone without a free chunk lets a worker follow a null peer_info.
THEOREM OnlyFullZoneEverKills == Spec => []OnlyFullZoneKills
<1>1. IInv => OnlyFullZoneKills
  BY DEF IInv
<1> QED
  BY <1>1, TrackerInductive, PTL

\* An answer, against what the peers have said so far.
LEMMA AnswerLemma ==
    ASSUME IInv, NEW w \in Workers, NEW c, c = call[w],
           c.pc = "query", call'[w].pc = "idle", ~died', Next
    PROVE  LET got == {e.is : e \in call'[w].answer} IN
           /\ c.peer \notin got
           /\ \A p \in got : said[c.torrent][p] # "nothing"
           /\ c.want # 0 => Cardinality(call'[w].answer) <= c.want
           /\ Cardinality(call'[w].answer) # c.want /\ Alone(c.torrent, Torrents) =>
                 \A p \in Peers \ {c.peer} : said[c.torrent][p] # "nothing" => p \in got
<1> DEFINE got == {e.is : e \in call'[w].answer}
<1>1. /\ ZoneOK(Zone) /\ Speaks(Zone) /\ SaidOK(Zone, said)
      /\ call \in [Workers -> CallType]
      /\ c \in CallType /\ c.torrent \in Torrents /\ c.peer \in Peers /\ c.want \in Nat
  BY DEF IInv, CallInv, CallType
<1>2. Query(w)
  <2>1. ASSUME NEW v \in Workers, Query(v), v # w PROVE FALSE
    <3>1. PICK all : Answered(v, call[v], all)
      BY <2>1, QueryLemma
    <3>2. call'[w] = call[w]
      BY <1>1, <2>1, <3>1 DEF Answered
    <3> QED
      BY <3>2
  <2>2. ASSUME NEW v \in Workers, NEW t \in Torrents, NEW p \in Peers, Update(v, t, p)
        PROVE  FALSE
    <3>1. v # w
      BY <2>2 DEF Update
    <3>2. call'[w] = call[w]
      BY <1>1, <2>2, <3>1 DEF Update
    <3> QED
      BY <3>2
  <2> QED
    BY <2>1, <2>2 DEF Next
<1>3. PICK all : Answered(w, c, all)
  BY <1>2, QueryLemma
<1>4. ~all.null /\ call'[w].answer = all.got
  <2>1. ~all.null
    BY <1>3 DEF Answered
  <2>2. call' = [call EXCEPT ![w] = [Idle EXCEPT !.answer = all.got]]
    BY <1>3, <2>1 DEF Answered
  <2> QED
    BY <1>1, <2>1, <2>2 DEF Idle
<1>w. c.want # 0 => Cardinality(call'[w].answer) <= c.want
  BY <1>3, <1>4 DEF Answered, Within
<1>5. /\ \A e \in all.got : \E n \in Listed(Zone), side \in Sides :
            /\ In(Zone, side, c.torrent, peers[n].is, n)
            /\ Other(c, n) /\ e = Entry(n)
      /\ Cardinality(all.got) # c.want /\ Alone(c.torrent, Torrents) =>
            \A side \in Sides : \A p, n :
               In(Zone, side, c.torrent, p, n) /\ Other(c, n) => Entry(n) \in all.got
  BY <1>3, <1>4 DEF Answered
<1>6. Zone.peers = peers /\ Zone.infos = infos
  BY DEF Zone
<1>7. ASSUME NEW e \in all.got PROVE e.is # c.peer /\ said[c.torrent][e.is] # "nothing"
  <2>1. PICK n \in Listed(Zone), side \in Sides :
            /\ In(Zone, side, c.torrent, peers[n].is, n)
            /\ Other(c, n) /\ e = Entry(n)
    BY <1>5
  <2>2. peers[n].info # Null /\ e.is = infos[peers[n].info].is /\ e.is # c.peer
    BY <2>1 DEF Other, Entry
  <2>3. e.is = peers[n].is /\ peers[n].is \in Peers /\ n \in Chunks
    BY <1>1, <1>6, <2>2 DEF Speaks, ZoneOK, Keyed, Listed
  <2>4. Fits(Zone, said[c.torrent][e.is], c.torrent, e.is)
    BY <1>1, <2>3 DEF SaidOK
  <2> QED
    BY <1>6, <2>1, <2>2, <2>3, <2>4 DEF Fits
<1>8. ASSUME Cardinality(all.got) # c.want, Alone(c.torrent, Torrents),
             NEW p \in Peers \ {c.peer}, said[c.torrent][p] # "nothing"
      PROVE  \E e \in all.got : e.is = p
  <2>1. Fits(Zone, said[c.torrent][p], c.torrent, p)
    BY <1>1 DEF SaidOK
  <2>2. PICK side \in Sides, n \in Chunks :
            In(Zone, side, c.torrent, p, n) /\ peers[n].info # Null
    BY <1>6, <1>8, <2>1 DEF Fits
  <2>3. n \in Listed(Zone) /\ peers[n].is = p
    BY <1>6, <2>2 DEF In, Listed
  <2>4. infos[peers[n].info].is = p
    BY <1>1, <1>6, <2>2, <2>3 DEF Speaks
  <2>5. Other(c, n) /\ Entry(n).is = p
    BY <1>8, <2>2, <2>4 DEF Other, Entry
  <2> QED
    BY <1>5, <1>8, <2>2, <2>5
<1> QED
  BY <1>4, <1>w, <1>7, <1>8

\* For any number of peers and any numwant, no answer has the peer that asks or one
\* that never announced the torrent, none is longer than a numwant that was given, and
\* one that is not of numwant peers has every other peer that has announced it: also
\* to an announce that gives no numwant, which wants 0.
THEOREM AnswersAlwaysComplete == Spec => AnswerComplete
<1> DEFINE A == \A w \in Workers :
                   LET c == call[w]
                       got == {e.is : e \in call'[w].answer}
                   IN c.pc = "query" /\ call'[w].pc = "idle" /\ ~died' =>
                         /\ c.peer \notin got
                         /\ \A p \in got : said[c.torrent][p] # "nothing"
                         /\ c.want # 0 => Cardinality(call'[w].answer) <= c.want
                         /\ Cardinality(call'[w].answer) # c.want /\ Alone(c.torrent, Torrents) =>
                               \A p \in Peers \ {c.peer} :
                                   said[c.torrent][p] # "nothing" => p \in got
<1>1. IInv /\ [Next]_vars => [A]_vars
  <2> SUFFICES ASSUME IInv, Next, NEW w \in Workers,
                      call[w].pc = "query", call'[w].pc = "idle", ~died'
               PROVE  LET c == call[w]
                          got == {e.is : e \in call'[w].answer}
                      IN /\ c.peer \notin got
                         /\ \A p \in got : said[c.torrent][p] # "nothing"
                         /\ c.want # 0 => Cardinality(call'[w].answer) <= c.want
                         /\ Cardinality(call'[w].answer) # c.want /\ Alone(c.torrent, Torrents) =>
                               \A p \in Peers \ {c.peer} :
                                   said[c.torrent][p] # "nothing" => p \in got
    OBVIOUS
  <2> QED
    BY AnswerLemma
<1>2. [][A]_vars => AnswerComplete
  BY DEF AnswerComplete
<1> HIDE DEF A
<1> QED
  BY <1>1, <1>2, TrackerInductive, PTL DEF Spec

=============================================================================
