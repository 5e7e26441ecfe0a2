--------------------------- MODULE DbdPoolProofs ---------------------------
(* Invariance proofs for DbdPool, for every instance of its constants. *)
EXTENDS DbdPool, FiniteSetTheorems, SequenceTheorems, TLAPS

-----------------------------------------------------------------------------
(* The inductive invariant                                                  *)

ConnType ==
    [name : Names, connected : BOOLEAN,
     handler : {"connect", "query", "column", "row", "field"},
     ctx : {"live", "freed"}, thr : Threads \cup {Nobody},
     col : Nat, row : Nat, seen : Nat]

PoolType == [busy : Seq(Nat), busyN : Nat, free : Seq(Nat), freeN : Nat]

DbdTypeOK ==
    /\ \A n \in DOMAIN conf : conf[n] \in Nat
    /\ DOMAIN pools \subseteq DOMAIN conf
    /\ \A n \in DOMAIN pools : pools[n] \in PoolType
    /\ conn \in Seq(ConnType)
    /\ vm \in [Threads -> {"none", "runs", "db", "elsewhere"}]
    /\ cln \in [Threads -> SUBSET Nat]
    /\ cur \in 0 .. Len(conn)

\* The connections of pool n whose context is s.
Of(n, s) == {c \in 1 .. Len(conn) : conn[c].name = n /\ conn[c].ctx = s}

\* Each list holds what it is for, once.
PoolInv ==
    /\ \A c \in 1 .. Len(conn) : conn[c].name \in DOMAIN pools
    /\ \A n \in DOMAIN pools :
          /\ pools[n].busyN = Len(pools[n].busy) /\ IsInjective(pools[n].busy)
          /\ pools[n].freeN = Len(pools[n].free) /\ IsInjective(pools[n].free)
          /\ ToSet(pools[n].busy) = Of(n, "live")
          /\ ToSet(pools[n].free) = Of(n, "freed")
          /\ conf[n] # 0 => Len(pools[n].busy) + Len(pools[n].free) <= conf[n]

\* Rows are only counted from 0 on, and a call that is over knows nobody.
ConnOK(k) ==
    /\ k.ctx = "freed" => k.thr = Nobody
    /\ k.ctx = "live" =>
          /\ k.handler # "connect" => k.connected
          /\ k.handler \in {"connect", "query"} => k.col = 0
          /\ k.thr # Nobody /\ k.handler \in {"column", "field"} => k.col = k.seen

ConnInv == \A c \in 1 .. Len(conn) : ConnOK(conn[c])

Calls(t) == {c \in 1 .. Len(conn) : conn[c].ctx = "live" /\ conn[c].thr = t}

CallOK(t) ==
    /\ cln[t] = Calls(t)
    /\ \A c, d \in Calls(t) : c = d
    /\ (vm[t] = "db") <=> (Calls(t) # {} /\ ~(vm[t] = "runs"))
    /\ vm[t] = "runs" => Calls(t) \subseteq {cur}

\* One script runs at most, and a handler that runs under it is that of its call.
CallInv ==
    /\ cur # 0 => conn[cur].ctx = "live"
    /\ \A t, u \in Threads : vm[t] = "runs" /\ vm[u] = "runs" => t = u
    /\ \A t \in Threads : vm[t] = "runs" /\ cur # 0 => conn[cur].thr = t
    /\ \A t \in Threads : CallOK(t)

IInv == DbdTypeOK /\ PoolInv /\ ConnInv /\ CallInv

-----------------------------------------------------------------------------
(* The lists of a pool                                                      *)

\* Taking a connection out of a list takes out that one and no other.
LEMMA UnlinkedLemma ==
    ASSUME NEW S, NEW q \in Seq(S), IsInjective(q), NEW n \in ToSet(q)
    PROVE  /\ Unlinked(q, n) \in Seq(S)
           /\ Len(Unlinked(q, n)) = Len(q) - 1
           /\ IsInjective(Unlinked(q, n))
           /\ ToSet(Unlinked(q, n)) = ToSet(q) \ {n}
<1> DEFINE i == CHOOSE j \in DOMAIN q : q[j] = n
           w == Unlinked(q, n)
<1>1. Len(q) \in Nat /\ DOMAIN q = 1 .. Len(q)
  OBVIOUS
<1>2. i \in 1 .. Len(q) /\ q[i] = n
  BY <1>1 DEF ToSet
<1> HIDE DEF i
<1> DEFINE a == SubSeq(q, 1, i - 1)
           b == SubSeq(q, i + 1, Len(q))
<1>3. w = a \o b
  BY DEF i, Unlinked, RemoveAt
<1>a. a \in Seq(S) /\ Len(a) = i - 1 /\ \A k \in 1 .. i - 1 : a[k] = q[k]
  BY <1>1, <1>2, SMT
<1>b. b \in Seq(S) /\ Len(b) = Len(q) - i /\ \A k \in 1 .. Len(q) - i : b[k] = q[k + i]
  <2> DEFINE m == i + 1
             l == Len(q)
  <2>1. m \in Int /\ l \in Int /\ \A k \in m .. l : q[k] \in S
    BY <1>1, <1>2
  <2>2. b = SubSeq(q, m, l) /\ m = i + 1 /\ l = Len(q)
    OBVIOUS
  <2> HIDE DEF m, l, b
  <2>3. SubSeq(q, m, l) \in Seq(S)
    BY <2>1, SubSeqProperties, Zenon
  <2>4. Len(SubSeq(q, m, l)) = IF m <= l THEN l - m + 1 ELSE 0
    BY <2>1, SubSeqProperties, SMT
  <2>5. \A k \in 1 .. l - m + 1 : SubSeq(q, m, l)[k] = q[m + k - 1]
    BY <2>1, SubSeqProperties, SMT
  <2> QED
    BY <2>2, <2>3, <2>4, <2>5, <1>1, <1>2
<1> HIDE DEF a, b, w
<1>d. /\ w \in Seq(S) /\ Len(w) = Len(a) + Len(b)
      /\ \A k \in 1 .. Len(a) + Len(b) :
            w[k] = IF k <= Len(a) THEN a[k] ELSE b[k - Len(a)]
  BY <1>3, <1>a, <1>b, ConcatProperties, Zenon
<1>4. w \in Seq(S) /\ Len(w) = Len(q) - 1
  BY <1>1, <1>2, <1>a, <1>b, <1>d
<1>5. DOMAIN w = 1 .. Len(q) - 1
  BY <1>4, <1>1
<1>6. ASSUME NEW k \in 1 .. Len(q) - 1 PROVE w[k] = IF k < i THEN q[k] ELSE q[k + 1]
  <2>1. w[k] = IF k <= i - 1 THEN a[k] ELSE b[k - (i - 1)]
    BY <1>1, <1>2, <1>a, <1>b, <1>d
  <2>2. CASE k < i
    BY <2>1, <2>2, <1>1, <1>2, <1>a
  <2>3. CASE ~ (k < i)
    <3>1. k - (i - 1) \in 1 .. Len(q) - i /\ (k - (i - 1)) + i = k + 1
      BY <2>3, <1>1, <1>2
    <3> QED
      BY <2>1, <2>3, <3>1, <1>1, <1>2, <1>b
  <2> QED
    BY <2>2, <2>3
<1>7. IsInjective(w)
  BY <1>1, <1>2, <1>5, <1>6, SMTT(30) DEF IsInjective
<1>8. ToSet(w) \subseteq ToSet(q) \ {n}
  BY <1>1, <1>2, <1>5, <1>6 DEF IsInjective, ToSet
<1>9. ASSUME NEW m \in ToSet(q) \ {n} PROVE m \in ToSet(w)
  <2>1. PICK j \in 1 .. Len(q) : q[j] = m
    BY <1>1 DEF ToSet
  <2>2. CASE j < i
    <3>1. j \in DOMAIN w /\ w[j] = m
      BY <2>1, <2>2, <1>1, <1>2, <1>5, <1>6
    <3> QED
      BY <3>1 DEF ToSet
  <2>3. CASE j > i
    <3>1. j - 1 \in DOMAIN w /\ w[j - 1] = m
      BY <2>1, <2>3, <1>1, <1>2, <1>5, <1>6
    <3> QED
      BY <3>1 DEF ToSet
  <2>4. j # i
    BY <2>1, <1>2
  <2> QED
    BY <2>1, <2>2, <2>3, <2>4, <1>2
<1> QED
  BY <1>4, <1>7, <1>8, <1>9 DEF w

\* Linking a connection that is not in the list, at its head.
LEMMA PrependLemma ==
    ASSUME NEW S, NEW q \in Seq(S), IsInjective(q), NEW n \in S, n \notin ToSet(q)
    PROVE  /\ <<n>> \o q \in Seq(S)
           /\ Len(<<n>> \o q) = Len(q) + 1
           /\ IsInjective(<<n>> \o q)
           /\ ToSet(<<n>> \o q) = ToSet(q) \cup {n}
<1> DEFINE w == <<n>> \o q
<1>1. Len(q) \in Nat /\ DOMAIN q = 1 .. Len(q)
  OBVIOUS
<1>2. w \in Seq(S) /\ Len(w) = Len(q) + 1 /\ DOMAIN w = 1 .. Len(q) + 1
  OBVIOUS
<1>3. \A k \in 1 .. Len(q) + 1 : w[k] = IF k = 1 THEN n ELSE q[k - 1]
  OBVIOUS
<1> HIDE DEF w
<1>4. IsInjective(w)
  BY <1>1, <1>2, <1>3 DEF IsInjective, ToSet
<1>5. ToSet(w) \subseteq ToSet(q) \cup {n}
  BY <1>1, <1>2, <1>3 DEF ToSet
<1>6. n \in ToSet(w)
  <2>1. 1 \in DOMAIN w /\ w[1] = n
    BY <1>1, <1>2, <1>3
  <2> QED
    BY <2>1 DEF ToSet
<1>7. ASSUME NEW m \in ToSet(q) PROVE m \in ToSet(w)
  <2>1. PICK j \in 1 .. Len(q) : q[j] = m
    BY <1>1 DEF ToSet
  <2>2. j + 1 \in DOMAIN w /\ w[j + 1] = m
    BY <2>1, <1>1, <1>2, <1>3
  <2> QED
    BY <2>2 DEF ToSet
<1> QED
  BY <1>2, <1>4, <1>5, <1>6, <1>7 DEF w

\* Taking the connection at the end of a list.
LEMMA FrontLemma ==
    ASSUME NEW S, NEW q \in Seq(S), IsInjective(q), q # <<>>
    PROVE  /\ Front(q) \in Seq(S)
           /\ Len(Front(q)) = Len(q) - 1
           /\ IsInjective(Front(q))
           /\ Last(q) \in ToSet(q)
           /\ ToSet(Front(q)) = ToSet(q) \ {Last(q)}
<1> DEFINE w == Front(q)
<1>1. Len(q) \in Nat \ {0} /\ DOMAIN q = 1 .. Len(q)
  OBVIOUS
<1>2. w \in Seq(S) /\ Len(w) = Len(q) - 1 /\ DOMAIN w = 1 .. Len(q) - 1
  BY <1>1 DEF Front
<1>3. \A k \in 1 .. Len(q) - 1 : w[k] = q[k]
  BY <1>1 DEF Front
<1>4. Len(q) \in DOMAIN q /\ Last(q) = q[Len(q)]
  BY <1>1 DEF Last
<1> HIDE DEF w
<1>5. IsInjective(w)
  BY <1>1, <1>2, <1>3 DEF IsInjective
<1>6. ToSet(w) \subseteq ToSet(q) \ {Last(q)}
  BY <1>1, <1>2, <1>3, <1>4 DEF ToSet, IsInjective
<1>7. ASSUME NEW m \in ToSet(q) \ {Last(q)} PROVE m \in ToSet(w)
  <2>1. PICK j \in 1 .. Len(q) : q[j] = m
    BY <1>1 DEF ToSet
  <2> QED
    BY <2>1, <1>1, <1>2, <1>3, <1>4 DEF ToSet
<1>8. Last(q) \in ToSet(q)
  BY <1>4 DEF ToSet
<1> QED
  BY <1>2, <1>5, <1>6, <1>7, <1>8 DEF w

-----------------------------------------------------------------------------
(* Steps                                                                    *)

\* The handler of cur goes on: nothing changes but how far its call is.
LEMMA GoesStep ==
    ASSUME IInv, cur # 0, NEW k \in ConnType, Goes(k), ConnOK(k),
           k.name = conn[cur].name, k.ctx = conn[cur].ctx, k.thr = conn[cur].thr
    PROVE  IInv'
<1> USE DbdAssumption DEF IInv
<1>1. conn \in Seq(ConnType) /\ cur \in 1 .. Len(conn)
  BY DEF DbdTypeOK
<1>2. conn' \in Seq(ConnType) /\ Len(conn') = Len(conn)
  BY <1>1 DEF Goes
<1>3. \A c \in 1 .. Len(conn) : conn'[c] = IF c = cur THEN k ELSE conn[c]
  BY <1>1 DEF Goes
<1>4. \A c \in 1 .. Len(conn) : /\ conn'[c].name = conn[c].name
                                /\ conn'[c].ctx = conn[c].ctx
                                /\ conn'[c].thr = conn[c].thr
  BY <1>3
<1>5. UNCHANGED <<conf, pools, vm, cln, cur>>
  BY DEF Goes
<1>6. DbdTypeOK'
  BY <1>2, <1>5 DEF DbdTypeOK
<1>7. PoolInv'
  <2>1. \A n, s : Of(n, s)' = Of(n, s)
    BY <1>2, <1>4 DEF Of
  <2> QED
    BY <2>1, <1>2, <1>4, <1>5 DEF PoolInv
<1>8. ConnInv'
  BY <1>2, <1>3 DEF ConnInv, ConnOK
<1>9. CallInv'
  <2>1. \A t : Calls(t)' = Calls(t)
    BY <1>2, <1>4 DEF Calls
  <2>2. \A t \in Threads : CallOK(t)'
    BY <2>1, <1>5 DEF CallInv, CallOK
  <2> QED
    BY <2>2, <1>1, <1>4, <1>5 DEF CallInv
<1> QED
  BY <1>6, <1>7, <1>8, <1>9

\* A call takes connection c, that was free or is made for it, and the lists p of
\* its pool say so.
LEMMA BeginStep ==
    ASSUME IInv, NEW t \in Threads, NEW n \in Names, Runs(t), n \in DOMAIN conf,
           NEW c \in 1 .. Len(conn) + 1, NEW p \in PoolType, NEW k \in ConnType,
           Begin(t, c, p, k), k.name = n,
           c <= Len(conn) => conn[c].name = n /\ conn[c].ctx = "freed",
           p.busyN = Len(p.busy), IsInjective(p.busy),
           p.freeN = Len(p.free), IsInjective(p.free),
           ToSet(p.busy) = Of(n, "live") \cup {c},
           ToSet(p.free) = Of(n, "freed") \ {c},
           conf[n] # 0 => Len(p.busy) + Len(p.free) <= conf[n]
    PROVE  IInv'
<1> USE DbdAssumption DEF IInv
<1> DEFINE j == [k EXCEPT !.ctx = "live", !.thr = t, !.col = 0, !.row = 0, !.seen = 0,
                          !.handler = IF k.connected THEN "query" ELSE "connect"]
           L == IF c > Len(conn) THEN c ELSE Len(conn)
<1>1. conn \in Seq(ConnType) /\ Len(conn) \in Nat /\ cur = 0 /\ vm[t] = "runs"
  BY DEF DbdTypeOK, Runs
<1>2. /\ j \in ConnType /\ j.name = n /\ j.ctx = "live" /\ j.thr = t /\ j.col = 0
      /\ j.handler \in {"connect", "query"}
      /\ j.handler # "connect" => j.connected
  BY DEF ConnType
<1>3. ConnOK(j)
  BY <1>2, Zenon DEF ConnOK
<1>4. L \in Nat /\ L >= Len(conn) /\ c \in 1 .. L /\ 1 .. L = (1 .. Len(conn)) \cup {c}
  BY <1>1
<1>5. conn' = [i \in 1 .. L |-> IF i = c THEN j ELSE conn[i]]
  BY DEF Begin
<1>6. pools' = Put(pools, n, p) /\ cln' = [cln EXCEPT ![t] = @ \cup {c}] /\ cur' = c
      /\ UNCHANGED <<conf, vm>>
  BY DEF Begin
<1> HIDE DEF j, L
<1>7. conn' \in Seq(ConnType) /\ Len(conn') = L
  BY <1>1, <1>2, <1>4, <1>5, SMTT(30)
<1>8. \A i \in 1 .. L : conn'[i] = IF i = c THEN j ELSE conn[i]
  BY <1>5
<1>9. /\ DOMAIN pools' = DOMAIN pools \cup {n}
      /\ pools'[n] = p
      /\ \A m \in DOMAIN pools : m # n => pools'[m] = pools[m]
  BY <1>6 DEF Put
<1>10. DbdTypeOK'
  <2>1. DOMAIN pools' \subseteq DOMAIN conf' /\ \A m \in DOMAIN pools' : pools'[m] \in PoolType
    BY <1>6, <1>9 DEF DbdTypeOK
  <2>2. cln' \in [Threads -> SUBSET Nat]
    BY <1>6 DEF DbdTypeOK
  <2>3. cur' \in 0 .. Len(conn')
    BY <1>4, <1>6, <1>7
  <2> QED
    BY <2>1, <2>2, <2>3, <1>6, <1>7 DEF DbdTypeOK
<1>11. PoolInv'
  <2>1. \A m, s : m # n => Of(m, s)' = Of(m, s)
    BY <1>2, <1>4, <1>7, <1>8 DEF Of
  <2>2. Of(n, "live")' = Of(n, "live") \cup {c}
    BY <1>2, <1>4, <1>7, <1>8 DEF Of
  <2>3. Of(n, "freed")' = Of(n, "freed") \ {c}
    BY <1>2, <1>4, <1>7, <1>8 DEF Of
  <2>4. \A i \in 1 .. Len(conn') : conn'[i].name \in DOMAIN pools'
    BY <1>2, <1>4, <1>7, <1>8, <1>9 DEF PoolInv
  <2>5. ASSUME NEW m \in DOMAIN pools'
        PROVE  /\ pools'[m].busyN = Len(pools'[m].busy) /\ IsInjective(pools'[m].busy)
               /\ pools'[m].freeN = Len(pools'[m].free) /\ IsInjective(pools'[m].free)
               /\ ToSet(pools'[m].busy) = Of(m, "live")'
               /\ ToSet(pools'[m].free) = Of(m, "freed")'
               /\ conf'[m] # 0 => Len(pools'[m].busy) + Len(pools'[m].free) <= conf'[m]
    <3>1. CASE m = n
      BY <3>1, <2>2, <2>3, <1>6, <1>9
    <3>2. CASE m # n
      <4>1. m \in DOMAIN pools /\ pools'[m] = pools[m] /\ conf' = conf
        BY <3>2, <1>6, <1>9
      <4> QED
        BY <3>2, <4>1, <2>1 DEF PoolInv
    <3> QED
      BY <3>1, <3>2
  <2> QED
    BY <2>4, <2>5 DEF PoolInv
<1>12. ConnInv'
  BY <1>3, <1>4, <1>7, <1>8 DEF ConnInv
<1>13. CallInv'
  <2>1. \A u \in Threads : vm[u] = "runs" => u = t
    BY <1>1 DEF CallInv
  <2>2. Calls(t) = {}
    BY <1>1 DEF CallInv, CallOK, Calls
  <2>3. Calls(t)' = {c}
    BY <2>2, <1>2, <1>4, <1>7, <1>8 DEF Calls
  <2>4. \A u \in Threads : u # t => Calls(u)' = Calls(u)
    BY <1>2, <1>4, <1>7, <1>8 DEF Calls
  <2>5. CallOK(t)'
    <3>1. cln'[t] = {c} /\ vm'[t] = "runs" /\ cur' = c
      BY <2>2, <1>1, <1>6 DEF CallInv, CallOK, DbdTypeOK
    <3> QED
      BY <2>3, <3>1 DEF CallOK
  <2>6. ASSUME NEW u \in Threads, u # t PROVE CallOK(u)'
    BY <2>1, <2>4, <2>6, <1>6 DEF CallInv, CallOK, DbdTypeOK
  <2> QED
    BY <2>1, <2>5, <2>6, <1>2, <1>4, <1>6, <1>7, <1>8 DEF CallInv
<1> QED
  BY <1>10, <1>11, <1>12, <1>13

\* The call of the running handler is over, and its script goes on.
LEMMA FinalizeStep ==
    ASSUME IInv, NEW c, c = cur, c # 0, Finalize(c),
           NEW n, n = conn[c].name, NEW t, t = conn[c].thr
    PROVE  IInv'
<1> USE DbdAssumption DEF IInv
<1> DEFINE j == [conn[c] EXCEPT !.ctx = "freed", !.thr = Nobody]
           b == pools[n].busy
           p == Freed(pools[n], c)
<1>1. /\ conn \in Seq(ConnType) /\ Len(conn) \in Nat /\ c \in 1 .. Len(conn)
      /\ conn[c] \in ConnType /\ conn[c].ctx = "live"
  BY DEF DbdTypeOK, CallInv
<1>2. /\ n \in DOMAIN pools /\ n \in DOMAIN conf /\ n \in Names
      /\ pools[n] \in PoolType /\ b \in Seq(Nat)
      /\ c \in Of(n, "live") /\ c \notin Of(n, "freed")
  BY <1>1 DEF DbdTypeOK, PoolInv, PoolType, Of, ConnType
<1>3. j \in ConnType /\ j.name = n /\ j.ctx = "freed" /\ j.thr = Nobody
  BY <1>1 DEF ConnType
<1>4. ConnOK(j)
  BY <1>3, Zenon DEF ConnOK
<1>5. conn' = [conn EXCEPT ![c] = j]
  BY <1>1 DEF Finalize
<1>6. /\ pools' = [pools EXCEPT ![n] = p]
      /\ vm' = [i \in Threads |-> IF i = t THEN "runs" ELSE vm[i]]
      /\ cln' = [i \in Threads |-> IF i = t THEN cln[i] \ {c} ELSE cln[i]]
      /\ cur' = 0 /\ UNCHANGED conf
  BY DEF Finalize
<1>7. /\ p \in PoolType
      /\ p.busyN = Len(p.busy) /\ IsInjective(p.busy)
      /\ p.freeN = Len(p.free) /\ IsInjective(p.free)
      /\ ToSet(p.busy) = ToSet(b) \ {c}
      /\ ToSet(p.free) = ToSet(pools[n].free) \cup {c}
      /\ Len(p.busy) + Len(p.free) = Len(b) + Len(pools[n].free)
  <2>1. /\ IsInjective(b) /\ c \in ToSet(b) /\ IsInjective(pools[n].free)
        /\ c \notin ToSet(pools[n].free)
        /\ pools[n].busyN = Len(b) /\ pools[n].freeN = Len(pools[n].free)
    BY <1>2 DEF PoolInv
  <2>a. c \in Nat /\ pools[n].free \in Seq(Nat)
    BY <1>1, <1>2 DEF PoolType
  <2> DEFINE u == Unlinked(b, c)
             w == <<c>> \o pools[n].free
  <2>2. /\ u \in Seq(Nat) /\ Len(u) = Len(b) - 1 /\ IsInjective(u)
        /\ ToSet(u) = ToSet(b) \ {c}
    BY <2>1, <2>a, <1>2, UnlinkedLemma
  <2>3. /\ w \in Seq(Nat) /\ Len(w) = Len(pools[n].free) + 1 /\ IsInjective(w)
        /\ ToSet(w) = ToSet(pools[n].free) \cup {c}
    BY <2>1, <2>a, PrependLemma
  <2>4. p = [pools[n] EXCEPT !.busy = u, !.busyN = Len(b) - 1,
                             !.free = w, !.freeN = Len(pools[n].free) + 1]
    BY <2>1 DEF Freed
  <2> HIDE DEF u, w, p
  <2>5. /\ p.busy = u /\ p.free = w /\ p.busyN = Len(b) - 1
        /\ p.freeN = Len(pools[n].free) + 1
        /\ p = [busy |-> u, busyN |-> Len(b) - 1, free |-> w, freeN |-> Len(pools[n].free) + 1]
    BY <2>4, <1>2 DEF PoolType
  <2>6. Len(u) \in Nat /\ Len(w) \in Nat
    BY <2>2, <2>3
  <2>7. p \in PoolType
    BY <2>2, <2>3, <2>5, <2>6 DEF PoolType
  <2>8. Len(u) + Len(w) = Len(b) + Len(pools[n].free)
    <3>1. Len(b) \in Nat
      BY <1>2
    <3>2. Len(pools[n].free) \in Nat
      BY <2>a
    <3>3. Len(u) = Len(b) - 1 /\ Len(w) = Len(pools[n].free) + 1
      BY <2>2, <2>3
    <3>4. \A x, y \in Nat : (x - 1) + (y + 1) = x + y
      OBVIOUS
    <3> QED
      BY <3>1, <3>2, <3>3, <3>4, ZenonT(30)
  <2>9. p.busyN = Len(u) /\ p.freeN = Len(w)
    BY <2>2, <2>3, <2>5
  <2> QED
    BY <2>2, <2>3, <2>5, <2>7, <2>8, <2>9
<1> HIDE DEF j, p
<1>8. conn' \in Seq(ConnType) /\ Len(conn') = Len(conn)
      /\ \A i \in 1 .. Len(conn) : conn'[i] = IF i = c THEN j ELSE conn[i]
  BY <1>1, <1>3, <1>5
<1>9. /\ DOMAIN pools' = DOMAIN pools
      /\ \A m \in DOMAIN pools : pools'[m] = IF m = n THEN p ELSE pools[m]
  BY <1>6
<1>10. DbdTypeOK'
  <2>1. DOMAIN pools' \subseteq DOMAIN conf' /\ \A m \in DOMAIN pools' : pools'[m] \in PoolType
    BY <1>6, <1>7, <1>9 DEF DbdTypeOK
  <2>2. cln' \in [Threads -> SUBSET Nat]
    BY <1>6 DEF DbdTypeOK
  <2>3. vm' \in [Threads -> {"none", "runs", "db", "elsewhere"}]
    BY <1>6 DEF DbdTypeOK
  <2>4. cur' \in 0 .. Len(conn')
    BY <1>1, <1>6, <1>8
  <2>5. \A m \in DOMAIN conf' : conf'[m] \in Nat
    BY <1>6 DEF DbdTypeOK
  <2> QED
    BY <2>1, <2>2, <2>3, <2>4, <2>5, <1>8 DEF DbdTypeOK
<1>11. PoolInv'
  <2>1. \A m, s : m # n => Of(m, s)' = Of(m, s)
    BY <1>3, <1>8 DEF Of
  <2>2. Of(n, "live")' = Of(n, "live") \ {c}
    BY <1>3, <1>8 DEF Of
  <2>3. Of(n, "freed")' = Of(n, "freed") \cup {c}
    BY <1>1, <1>3, <1>8 DEF Of
  <2>4. \A i \in 1 .. Len(conn') : conn'[i].name \in DOMAIN pools'
    BY <1>2, <1>3, <1>8, <1>9 DEF PoolInv
  <2>5. ASSUME NEW m \in DOMAIN pools'
        PROVE  /\ pools'[m].busyN = Len(pools'[m].busy) /\ IsInjective(pools'[m].busy)
               /\ pools'[m].freeN = Len(pools'[m].free) /\ IsInjective(pools'[m].free)
               /\ ToSet(pools'[m].busy) = Of(m, "live")'
               /\ ToSet(pools'[m].free) = Of(m, "freed")'
               /\ conf'[m] # 0 => Len(pools'[m].busy) + Len(pools'[m].free) <= conf'[m]
    <3>1. CASE m = n
      <4>1. pools'[m] = p /\ conf' = conf
        BY <3>1, <1>2, <1>6, <1>9
      <4>2. ToSet(b) = Of(n, "live") /\ ToSet(pools[n].free) = Of(n, "freed")
            /\ (conf[n] # 0 => Len(b) + Len(pools[n].free) <= conf[n])
        BY <1>2 DEF PoolInv
      <4> QED
        BY <3>1, <4>1, <4>2, <2>2, <2>3, <1>7
    <3>2. CASE m # n
      <4>1. m \in DOMAIN pools /\ pools'[m] = pools[m] /\ conf' = conf
        BY <3>2, <1>6, <1>9
      <4> QED
        BY <3>2, <4>1, <2>1 DEF PoolInv
    <3> QED
      BY <3>1, <3>2
  <2> QED
    BY <2>4, <2>5 DEF PoolInv
<1>12. ConnInv'
  BY <1>4, <1>8 DEF ConnInv
<1>13. CallInv'
  <2>1. t \in Threads \cup {Nobody}
    BY <1>1 DEF ConnType
  <2>2. ASSUME NEW u \in Threads, u # t PROVE CallOK(u)' /\ vm'[u] # "runs"
    <3>1. Calls(u)' = Calls(u)
      BY <2>2, <1>3, <1>8 DEF Calls
    <3>2. vm[u] # "runs"
      BY <2>2, <1>1 DEF CallInv
    <3> QED
      BY <2>2, <3>1, <3>2, <1>6 DEF CallInv, CallOK
  <2>3. ASSUME t \in Threads PROVE CallOK(t)'
    <3>1. Calls(t) = {c}
      BY <2>3, <1>1 DEF Calls, CallInv, CallOK
    <3>2. Calls(t)' = {}
      BY <2>3, <3>1, <1>3, <1>8 DEF Calls
    <3>3. cln'[t] = {} /\ vm'[t] = "runs"
      BY <2>3, <3>1, <1>6 DEF CallInv, CallOK
    <3> QED
      BY <3>2, <3>3 DEF CallOK
  <2> QED
    BY <2>2, <2>3, <1>6 DEF CallInv
<1> QED
  BY <1>10, <1>11, <1>12, <1>13

\* create_pool only adds a pool conf.
LEMMA CreatePoolStep ==
    ASSUME IInv, NEW n \in Names, NEW limit \in Limits, CreatePool(n, limit)
    PROVE  IInv'
<1> USE DbdAssumption DEF IInv
<1>1. n \notin DOMAIN conf /\ conf' = Put(conf, n, limit)
      /\ UNCHANGED <<pools, conn, vm, cln, cur>>
  BY DEF CreatePool
<1>2. /\ DOMAIN conf' = DOMAIN conf \cup {n}
      /\ \A m \in DOMAIN conf' : conf'[m] = IF m = n THEN limit ELSE conf[m]
  BY <1>1 DEF Put
<1>3. DbdTypeOK'
  <2>1. \A m \in DOMAIN conf' : conf'[m] \in Nat
    BY <1>2 DEF DbdTypeOK
  <2> QED
    BY <2>1, <1>1, <1>2 DEF DbdTypeOK
<1>4. PoolInv'
  <2>1. \A m \in DOMAIN pools : conf'[m] = conf[m]
    BY <1>1, <1>2 DEF DbdTypeOK
  <2> QED
    BY <2>1, <1>1 DEF PoolInv, Of
<1>5. ConnInv' /\ CallInv'
  BY <1>1 DEF ConnInv, CallInv, CallOK, Calls
<1> QED
  BY <1>3, <1>4, <1>5

\* What is known of a pool, also of one that is not there.
LEMMA HavingLemma ==
    ASSUME IInv, NEW n \in Names
    PROVE  /\ Having(n) \in PoolType
           /\ Having(n).busyN = Len(Having(n).busy) /\ IsInjective(Having(n).busy)
           /\ Having(n).freeN = Len(Having(n).free) /\ IsInjective(Having(n).free)
           /\ ToSet(Having(n).busy) = Of(n, "live")
           /\ ToSet(Having(n).free) = Of(n, "freed")
<1>1. CASE n \in DOMAIN pools
  BY <1>1 DEF Having, IInv, DbdTypeOK, PoolInv
<1>2. CASE n \notin DOMAIN pools
  <2>1. Having(n) = EmptyPool
    BY <1>2 DEF Having
  <2>2. <<>> \in Seq(Nat) /\ Len(<<>>) = 0 /\ DOMAIN <<>> = {}
    OBVIOUS
  <2>3. IsInjective(<<>>) /\ ToSet(<<>>) = {}
    BY <2>2 DEF IsInjective, ToSet
  <2>4. Of(n, "live") = {} /\ Of(n, "freed") = {}
    BY <1>2 DEF Of, IInv, PoolInv
  <2>5. /\ EmptyPool.busy = <<>> /\ EmptyPool.busyN = 0
        /\ EmptyPool.free = <<>> /\ EmptyPool.freeN = 0 /\ EmptyPool \in PoolType
    BY <2>2 DEF EmptyPool, PoolType
  <2> QED
    BY <2>1, <2>2, <2>3, <2>4, <2>5
<1> QED
  BY <1>1, <1>2

\* The free connection that was given back first is taken.
LEMMA ExecuteFreeStep ==
    ASSUME IInv, NEW t \in Threads, NEW n \in Names, ExecuteFree(t, n)
    PROVE  IInv'
<1> USE DbdAssumption
<1> DEFINE p == pools[n]
           c == Last(p.free)
           q == [busy |-> <<c>> \o p.busy, busyN |-> p.busyN + 1,
                 free |-> Front(p.free), freeN |-> p.freeN - 1]
<1>1. Runs(t) /\ n \in DOMAIN conf /\ Having(n).free # <<>>
  BY DEF ExecuteFree
<1>2. n \in DOMAIN pools /\ Having(n) = p
  BY <1>1 DEF Having, EmptyPool
<1>3. Begin(t, c, q, conn[c])
  BY DEF ExecuteFree
<1>4. /\ p \in PoolType /\ p.busy \in Seq(Nat) /\ p.free \in Seq(Nat) /\ p.free # <<>>
      /\ p.busyN = Len(p.busy) /\ IsInjective(p.busy)
      /\ p.freeN = Len(p.free) /\ IsInjective(p.free)
      /\ ToSet(p.busy) = Of(n, "live") /\ ToSet(p.free) = Of(n, "freed")
      /\ conf[n] # 0 => Len(p.busy) + Len(p.free) <= conf[n]
  BY <1>1, <1>2, HavingLemma DEF PoolType, IInv, PoolInv
<1> HIDE DEF p
<1>5. /\ Front(p.free) \in Seq(Nat) /\ Len(Front(p.free)) = Len(p.free) - 1
      /\ IsInjective(Front(p.free)) /\ c \in ToSet(p.free)
      /\ ToSet(Front(p.free)) = ToSet(p.free) \ {c}
  BY <1>4, FrontLemma
<1> HIDE DEF c
<1>6. /\ c \in 1 .. Len(conn) /\ conn[c].name = n /\ conn[c].ctx = "freed"
      /\ c \notin Of(n, "live") /\ c \in Nat
  BY <1>4, <1>5 DEF Of
<1>7. /\ <<c>> \o p.busy \in Seq(Nat) /\ Len(<<c>> \o p.busy) = Len(p.busy) + 1
      /\ IsInjective(<<c>> \o p.busy)
      /\ ToSet(<<c>> \o p.busy) = ToSet(p.busy) \cup {c}
  BY <1>4, <1>6, PrependLemma
<1>8. conn \in Seq(ConnType) /\ Len(conn) \in Nat /\ conn[c] \in ConnType
      /\ c \in 1 .. Len(conn) + 1
  BY <1>6 DEF IInv, DbdTypeOK
<1>9. /\ q.busy = <<c>> \o p.busy /\ q.free = Front(p.free)
      /\ q.busyN = Len(q.busy) /\ q.freeN = Len(q.free)
  BY <1>4, <1>5, <1>7
<1>a. Len(p.busy) \in Nat /\ Len(p.free) \in Nat
  BY <1>4
<1>b. Len(q.busy) \in Nat /\ Len(q.free) \in Nat
  BY <1>5, <1>7, <1>9
<1>10. q \in PoolType
  BY <1>5, <1>7, <1>9, <1>b DEF PoolType
<1>11. Len(q.busy) = Len(p.busy) + 1 /\ Len(q.free) = Len(p.free) - 1
  BY <1>5, <1>7, <1>9
<1> HIDE DEF q
<1>12. Len(q.busy) + Len(q.free) = Len(p.busy) + Len(p.free)
  <2>1. \A x, y \in Nat : (x + 1) + (y - 1) = x + y
    OBVIOUS
  <2> QED
    BY <2>1, <1>11, <1>a, Zenon
<1>13. /\ IsInjective(q.busy) /\ IsInjective(q.free)
       /\ ToSet(q.busy) = Of(n, "live") \cup {c}
       /\ ToSet(q.free) = Of(n, "freed") \ {c}
  BY <1>4, <1>5, <1>7, <1>9
<1>14. conf[n] # 0 => Len(q.busy) + Len(q.free) <= conf[n]
  BY <1>4, <1>12
<1>15. c <= Len(conn) => conn[c].name = n /\ conn[c].ctx = "freed"
  BY <1>6
<1>16. q.busyN = Len(q.busy) /\ q.freeN = Len(q.free) /\ conn[c].name = n
  BY <1>6, <1>9
<1> QED
  BY <1>1, <1>3, <1>8, <1>10, <1>13, <1>14, <1>15, <1>16, BeginStep, Zenon

\* A connection is made, in a pool that is there and not full, or in a new one.
LEMMA ExecuteNewStep ==
    ASSUME IInv, NEW t \in Threads, NEW n \in Names, ExecuteNew(t, n)
    PROVE  IInv'
<1> USE DbdAssumption
<1> DEFINE p == Having(n)
           c == Len(conn) + 1
           b == <<c>> \o p.busy
           q == [p EXCEPT !.busy = b, !.busyN = p.busyN + 1]
           k == NewConn(n, t)
<1>1. Runs(t) /\ n \in DOMAIN conf /\ p.free = <<>> /\ MayConnect(n) /\ Begin(t, c, q, k)
  BY DEF ExecuteNew
<1>2. /\ p \in PoolType /\ p.busy \in Seq(Nat) /\ p.free \in Seq(Nat)
      /\ p.busyN = Len(p.busy) /\ IsInjective(p.busy)
      /\ p.freeN = Len(p.free) /\ IsInjective(p.free)
      /\ ToSet(p.busy) = Of(n, "live") /\ ToSet(p.free) = Of(n, "freed")
  BY HavingLemma DEF PoolType
<1>3. conn \in Seq(ConnType) /\ Len(conn) \in Nat /\ conf[n] \in Nat
  BY <1>1 DEF IInv, DbdTypeOK
<1>4. c \in 1 .. Len(conn) + 1 /\ c \in Nat /\ ~(c <= Len(conn))
  BY <1>3
<1>5. c \notin Of(n, "live") /\ c \notin Of(n, "freed")
  BY <1>3 DEF Of
<1>6. k \in ConnType /\ k.name = n
  BY DEF ConnType, NewConn
<1>7. Len(p.free) = 0 /\ Len(p.busy) \in Nat
  BY <1>1, <1>2
<1>8. conf[n] # 0 => Len(p.busy) + 1 <= conf[n]
  <2>1. CASE n \in DOMAIN pools
    <3>1. p = pools[n]
      BY <2>1 DEF Having
    <3>2. Len(p.busy) # conf[n]
      BY <2>1, <1>1, <1>2 DEF MayConnect
    <3>3. conf[n] # 0 => Len(p.busy) + Len(p.free) <= conf[n]
      BY <2>1, <3>1 DEF IInv, PoolInv
    <3>4. conf[n] # 0 => Len(p.busy) <= conf[n]
      BY <3>3, <1>7
    <3> HIDE DEF p
    <3> QED
      BY <3>2, <3>4, <1>3, <1>7
  <2>2. CASE n \notin DOMAIN pools
    <3>1. p.busy = <<>>
      BY <2>2 DEF Having, EmptyPool
    <3>2. Len(p.busy) = 0
      BY <3>1
    <3> QED
      BY <3>2, <1>3
  <2> QED
    BY <2>1, <2>2
<1> HIDE DEF p, c, k
<1>9. /\ b \in Seq(Nat) /\ Len(b) = Len(p.busy) + 1 /\ IsInjective(b)
      /\ ToSet(b) = ToSet(p.busy) \cup {c}
  BY <1>2, <1>4, <1>5, PrependLemma
<1> HIDE DEF b
<1>10. /\ q.busy = b /\ q.free = p.free /\ q.busyN = Len(b) /\ q.freeN = Len(q.free)
  <2>1. q.busy = b /\ q.free = p.free /\ q.busyN = p.busyN + 1 /\ q.freeN = p.freeN
    BY <1>2 DEF PoolType
  <2> HIDE DEF q
  <2>2. p.busyN = Len(p.busy) /\ p.freeN = Len(p.free) /\ Len(b) = Len(p.busy) + 1
    BY <1>2, <1>9
  <2> QED
    BY <2>1, <2>2, Zenon
<1>11. q \in PoolType
  <2>1. p.busyN + 1 \in Nat
    BY <1>2, <1>7
  <2> QED
    BY <2>1, <1>2, <1>9 DEF PoolType
<1> HIDE DEF q
<1>12. q.busyN = Len(q.busy) /\ IsInjective(q.busy) /\ q.freeN = Len(q.free) /\ IsInjective(q.free)
  BY <1>2, <1>9, <1>10, Zenon
<1>13. ToSet(q.busy) = Of(n, "live") \cup {c} /\ ToSet(q.free) = Of(n, "freed") \ {c}
  BY <1>2, <1>5, <1>9, <1>10
<1>14. conf[n] # 0 => Len(q.busy) + Len(q.free) <= conf[n]
  <2>1. Len(q.busy) = Len(p.busy) + 1 /\ Len(q.free) = 0
    BY <1>7, <1>9, <1>10
  <2>2. \A x \in Nat : (x + 1) + 0 = x + 1
    OBVIOUS
  <2> QED
    BY <2>1, <2>2, <1>7, <1>8, Zenon
<1> QED
  BY <1>1, <1>4, <1>6, <1>11, <1>12, <1>13, <1>14, BeginStep, Zenon

\* No memory for a connection: an empty pool stays.
LEMMA ExecuteFailsStep ==
    ASSUME IInv, NEW t \in Threads, NEW n \in Names, ExecuteFails(t, n)
    PROVE  IInv'
<1> USE DbdAssumption
<1>1. /\ n \in DOMAIN conf /\ n \notin DOMAIN pools /\ pools' = Put(pools, n, EmptyPool)
      /\ UNCHANGED <<conf, conn, vm, cln, cur>>
  BY DEF ExecuteFails
<1>2. /\ DOMAIN pools' = DOMAIN pools \cup {n}
      /\ \A m \in DOMAIN pools' : pools'[m] = IF m = n THEN EmptyPool ELSE pools[m]
  BY <1>1 DEF Put
<1>3. Having(n) = EmptyPool
  BY <1>1 DEF Having
<1>4. /\ EmptyPool \in PoolType
      /\ EmptyPool.busyN = Len(EmptyPool.busy) /\ IsInjective(EmptyPool.busy)
      /\ EmptyPool.freeN = Len(EmptyPool.free) /\ IsInjective(EmptyPool.free)
      /\ ToSet(EmptyPool.busy) = Of(n, "live")
      /\ ToSet(EmptyPool.free) = Of(n, "freed")
  BY <1>3, HavingLemma
<1>5. Len(EmptyPool.busy) + Len(EmptyPool.free) = 0
  <2>1. Len(EmptyPool.busy) = 0 /\ Len(EmptyPool.free) = 0
    BY DEF EmptyPool
  <2> QED
    BY <2>1
<1> USE DEF IInv
<1>6. conf[n] \in Nat
  BY <1>1 DEF DbdTypeOK
<1>7. conf[n] # 0 => Len(EmptyPool.busy) + Len(EmptyPool.free) <= conf[n]
  <2>1. 0 <= conf[n]
    BY <1>6
  <2> QED
    BY <2>1, <1>5, Zenon
<1> HIDE DEF EmptyPool
<1>8. DbdTypeOK'
  BY <1>1, <1>2, <1>4 DEF DbdTypeOK
<1>9. PoolInv'
  <2>1. \A m, s : Of(m, s)' = Of(m, s)
    BY <1>1 DEF Of
  <2>2. \A i \in 1 .. Len(conn') : conn'[i].name \in DOMAIN pools'
    BY <1>1, <1>2 DEF PoolInv
  <2>3. ASSUME NEW m \in DOMAIN pools'
        PROVE  /\ pools'[m].busyN = Len(pools'[m].busy) /\ IsInjective(pools'[m].busy)
               /\ pools'[m].freeN = Len(pools'[m].free) /\ IsInjective(pools'[m].free)
               /\ ToSet(pools'[m].busy) = Of(m, "live")'
               /\ ToSet(pools'[m].free) = Of(m, "freed")'
               /\ conf'[m] # 0 => Len(pools'[m].busy) + Len(pools'[m].free) <= conf'[m]
    <3>1. CASE m = n
      <4>1. pools'[m] = EmptyPool /\ conf' = conf
        BY <3>1, <1>1, <1>2
      <4> QED
        BY <3>1, <4>1, <2>1, <1>4, <1>7
    <3>2. CASE m # n
      <4>1. m \in DOMAIN pools /\ pools'[m] = pools[m] /\ conf' = conf
        BY <3>2, <1>1, <1>2
      <4> QED
        BY <4>1, <2>1 DEF PoolInv
    <3> QED
      BY <3>1, <3>2
  <2> QED
    BY <2>2, <2>3 DEF PoolInv
<1>10. ConnInv' /\ CallInv'
  BY <1>1 DEF ConnInv, CallInv, CallOK, Calls
<1> QED
  BY <1>8, <1>9, <1>10

\* The connection of the running handler.
LEMMA CurLemma ==
    ASSUME IInv, cur # 0
    PROVE  /\ cur \in 1 .. Len(conn) /\ conn[cur] \in ConnType
           /\ conn[cur].ctx = "live" /\ ConnOK(conn[cur])
BY DEF IInv, DbdTypeOK, CallInv, ConnInv

\* A handler that has nothing to read returns; a script it runs under waits.
LEMMA AgainStep ==
    ASSUME IInv, Again
    PROVE  IInv'
<1> USE DbdAssumption DEF IInv
<1>1. /\ cur # 0 /\ cur' = 0 /\ UNCHANGED <<conf, pools, conn, cln>>
      /\ vm' = [t \in Threads |-> IF t = conn[cur].thr THEN "db" ELSE vm[t]]
  BY DEF Again
<1>2. cur \in 1 .. Len(conn) /\ conn[cur].ctx = "live" /\ Len(conn) \in Nat
  BY <1>1, CurLemma DEF DbdTypeOK
<1>3. DbdTypeOK'
  BY <1>1, <1>2 DEF DbdTypeOK
<1>4. PoolInv' /\ ConnInv'
  BY <1>1 DEF PoolInv, Of, ConnInv
<1>5. CallInv'
  <2>1. \A t : Calls(t)' = Calls(t)
    BY <1>1 DEF Calls
  <2>2. \A t \in Threads : vm'[t] # "runs"
    BY <1>1 DEF CallInv
  <2>3. \A t \in Threads : t = conn[cur].thr => Calls(t) # {}
    BY <1>2 DEF Calls
  <2>4. \A t \in Threads : vm'[t] = "db" <=> Calls(t) # {}
    BY <2>3, <1>1 DEF CallInv, CallOK
  <2>5. \A t \in Threads : CallOK(t)'
    BY <2>1, <2>2, <2>4, <1>1 DEF CallInv, CallOK
  <2> QED
    BY <2>2, <2>5, <1>1 DEF CallInv
<1> QED
  BY <1>3, <1>4, <1>5

\* Each of the other handlers goes on with its call, or ends it.
LEMMA HandlerStep ==
    ASSUME IInv, Handler
    PROVE  IInv'
<1> USE DbdAssumption
<1>1. CASE Again
  BY <1>1, AgainStep
<1>2. ASSUME cur # 0, Finalize(cur) PROVE IInv'
  BY <1>2, FinalizeStep
<1>3. CASE Fails
  BY <1>2, <1>3 DEF Fails
<1>4. CASE Connect
  <2> DEFINE k == [conn[cur] EXCEPT !.connected = TRUE, !.handler = "query"]
  <2>1. cur # 0 /\ Goes(k) /\ conn[cur].handler = "connect"
    BY <1>4 DEF Connect, In
  <2>2. k \in ConnType /\ ConnOK(k) /\ k.name = conn[cur].name /\ k.ctx = conn[cur].ctx
        /\ k.thr = conn[cur].thr
    BY <2>1, CurLemma DEF ConnType, ConnOK
  <2> QED
    BY <2>1, <2>2, GoesStep
<1>5. CASE Query
  <2> DEFINE k == [conn[cur] EXCEPT !.handler = "column", !.seen = 0]
  <2>1. cur # 0 /\ Goes(k) /\ conn[cur].handler = "query"
    BY <1>5 DEF Query, In
  <2>2. k \in ConnType /\ ConnOK(k) /\ k.name = conn[cur].name /\ k.ctx = conn[cur].ctx
        /\ k.thr = conn[cur].thr
    BY <2>1, CurLemma DEF ConnType, ConnOK
  <2> QED
    BY <2>1, <2>2, GoesStep
<1>6. ASSUME NEW phase \in {"column", "field"}, Reads(phase) PROVE IInv'
  <2> DEFINE c == conn[cur]
             k == [c EXCEPT !.seen = c.seen + 1,
                            !.col = IF c.thr = Nobody THEN c.col ELSE c.col + 1]
  <2>1. cur # 0 /\ Goes(k) /\ c.handler \in {"column", "field"}
    BY <1>6 DEF Reads, In
  <2>2. c \in ConnType /\ c.ctx = "live" /\ ConnOK(c)
    BY <2>1, CurLemma
  <2> HIDE DEF c
  <2>3. /\ k \in ConnType /\ k.name = c.name /\ k.ctx = c.ctx /\ k.thr = c.thr
        /\ k.handler = c.handler /\ k.connected = c.connected /\ k.seen = c.seen + 1
        /\ k.col = IF c.thr = Nobody THEN c.col ELSE c.col + 1
    <3> DEFINE x == c.seen + 1
               y == IF c.thr = Nobody THEN c.col ELSE c.col + 1
    <3>1. x \in Nat /\ y \in Nat
      BY <2>2 DEF ConnType
    <3> HIDE DEF x, y
    <3>2. k = [c EXCEPT !.seen = x, !.col = y]
      BY DEF x, y
    <3> HIDE DEF k
    <3>3. /\ k \in ConnType /\ k.name = c.name /\ k.ctx = c.ctx /\ k.thr = c.thr
          /\ k.handler = c.handler /\ k.connected = c.connected
          /\ k.seen = x /\ k.col = y
      BY <2>2, <3>1, <3>2 DEF ConnType
    <3> QED
      BY <3>3 DEF x, y
  <2> HIDE DEF k
  <2>4. ConnOK(k)
    BY <2>1, <2>2, <2>3 DEF ConnOK
  <2> QED
    BY <2>1, <2>3, <2>4, GoesStep DEF c
<1>7. ASSUME In("column") \/ In("field"), Goes([conn[cur] EXCEPT !.handler = "row"])
      PROVE  IInv'
  <2> DEFINE k == [conn[cur] EXCEPT !.handler = "row"]
  <2>1. cur # 0 /\ Goes(k) /\ conn[cur].handler # "connect"
    BY <1>7 DEF In
  <2>2. k \in ConnType /\ ConnOK(k) /\ k.name = conn[cur].name /\ k.ctx = conn[cur].ctx
        /\ k.thr = conn[cur].thr
    BY <2>1, CurLemma DEF ConnType, ConnOK
  <2> QED
    BY <2>1, <2>2, GoesStep
<1>8. CASE Column
  BY <1>6, <1>7, <1>8 DEF Column
<1>9. CASE Field
  BY <1>6, <1>7, <1>9 DEF Field
<1>10. CASE Row
  <2>1. CASE In("row") /\ Finalize(cur)
    BY <2>1, <1>2 DEF In
  <2>2. CASE In("row") /\ Goes([conn[cur] EXCEPT !.row = @ + 1, !.seen = 0, !.col = 0,
                                                !.handler = "field"])
    <3> DEFINE k == [conn[cur] EXCEPT !.row = @ + 1, !.seen = 0, !.col = 0,
                                      !.handler = "field"]
    <3>1. cur # 0 /\ Goes(k) /\ conn[cur].handler = "row"
      BY <2>2 DEF In
    <3>2. conn[cur] \in ConnType /\ conn[cur].ctx = "live" /\ ConnOK(conn[cur])
      BY <3>1, CurLemma
    <3>3. /\ k \in ConnType /\ k.name = conn[cur].name /\ k.ctx = conn[cur].ctx
          /\ k.thr = conn[cur].thr /\ k.connected = conn[cur].connected
          /\ k.handler = "field" /\ k.seen = 0 /\ k.col = 0
      <4> DEFINE x == conn[cur].row + 1
      <4>1. x \in Nat
        BY <3>2 DEF ConnType
      <4> HIDE DEF x
      <4>2. k = [conn[cur] EXCEPT !.row = x, !.seen = 0, !.col = 0, !.handler = "field"]
        BY DEF x
      <4> HIDE DEF k
      <4> QED
        BY <3>2, <4>1, <4>2 DEF ConnType
    <3> HIDE DEF k
    <3>4. ConnOK(k)
      BY <3>1, <3>2, <3>3 DEF ConnOK
    <3> QED
      BY <3>1, <3>3, <3>4, GoesStep
  <2> QED
    BY <1>10, <2>1, <2>2 DEF Row
<1> QED
  BY <1>1, <1>3, <1>4, <1>5, <1>8, <1>9, <1>10 DEF Handler

\* The library calls the handler of a connection when nothing runs.
LEMMA AnswerStep ==
    ASSUME IInv, NEW c \in 1 .. Len(conn), Answer(c)
    PROVE  IInv'
<1>1. /\ NobodyRuns /\ cur = 0 /\ conn[c].ctx = "live" /\ cur' = c
      /\ UNCHANGED <<conf, pools, conn, vm, cln>>
  BY DEF Answer, Idle
<1>2. DbdTypeOK'
  BY <1>1 DEF IInv, DbdTypeOK
<1>3. PoolInv' /\ ConnInv'
  BY <1>1 DEF IInv, PoolInv, Of, ConnInv
<1>4. CallInv'
  BY <1>1 DEF IInv, CallInv, CallOK, Calls, NobodyRuns
<1> QED
  BY <1>2, <1>3, <1>4 DEF IInv

\* A script runs when nothing else does, and one that runs may wait for something
\* that is not the database.
LEMMA ScriptStep ==
    ASSUME IInv, NEW t \in Threads, Wake(t) \/ Pause(t)
    PROVE  IInv'
<1>1. /\ cur = 0 /\ UNCHANGED <<conf, pools, conn, cln, cur>>
      /\ \/ NobodyRuns /\ vm[t] \in {"none", "elsewhere"} /\ vm' = [vm EXCEPT ![t] = "runs"]
         \/ vm[t] = "runs" /\ vm' = [vm EXCEPT ![t] = "elsewhere"]
  BY DEF Wake, Pause, Idle, Runs
<1>2. DbdTypeOK'
  BY <1>1 DEF IInv, DbdTypeOK
<1>3. PoolInv' /\ ConnInv'
  BY <1>1 DEF IInv, PoolInv, Of, ConnInv
<1>4. CallInv'
  <2>1. \A u : Calls(u)' = Calls(u)
    BY <1>1 DEF Calls
  <2>2. vm \in [Threads -> {"none", "runs", "db", "elsewhere"}]
    BY DEF IInv, DbdTypeOK
  <2>3. Calls(t) = {}
    <3>1. Calls(t) \subseteq 1 .. Len(conn)
      BY DEF Calls
    <3>2. CallOK(t)
      BY DEF IInv, CallInv
    <3>3. vm[t] = "runs" \/ vm[t] \in {"none", "elsewhere"}
      BY <1>1
    <3> QED
      BY <3>1, <3>2, <3>3, <1>1 DEF CallOK, IInv, DbdTypeOK
  <2>4. \A u \in Threads : CallOK(u)'
    BY <2>1, <2>2, <2>3, <1>1 DEF IInv, CallInv, CallOK
  <2>5. \A u, v \in Threads : vm'[u] = "runs" /\ vm'[v] = "runs" => u = v
    BY <2>2, <1>1 DEF IInv, CallInv, NobodyRuns
  <2> QED
    BY <2>4, <2>5, <1>1 DEF CallInv
<1> QED
  BY <1>2, <1>3, <1>4 DEF IInv

\* The cleanups of session t are run: its call, if there is one, loses its thread.
LEMMA SessionEndsStep ==
    ASSUME IInv, NEW t \in Threads, SessionEnds(t)
    PROVE  IInv'
<1> USE DbdAssumption DEF IInv
<1>1. /\ cur = 0 /\ UNCHANGED <<conf, pools, cur>>
      /\ vm' = [vm EXCEPT ![t] = "none"] /\ cln' = [cln EXCEPT ![t] = {}]
      /\ conn' = [c \in 1 .. Len(conn) |->
                     IF c \in cln[t] THEN [conn[c] EXCEPT !.thr = Nobody] ELSE conn[c]]
  BY DEF SessionEnds, Runs, Idle
<1>2. conn \in Seq(ConnType) /\ Len(conn) \in Nat /\ cln[t] = Calls(t) /\ cln \in [Threads -> SUBSET Nat]
  BY DEF DbdTypeOK, CallInv, CallOK
<1>3. \A c \in 1 .. Len(conn) : conn[c] \in ConnType /\ ConnOK(conn[c])
  BY <1>2 DEF ConnInv
<1>4. ASSUME NEW c \in 1 .. Len(conn)
      PROVE  /\ conn'[c] \in ConnType /\ ConnOK(conn'[c])
             /\ conn'[c].name = conn[c].name /\ conn'[c].ctx = conn[c].ctx
             /\ conn'[c].thr = IF c \in Calls(t) THEN Nobody ELSE conn[c].thr
  <2>1. CASE c \in Calls(t)
    <3> DEFINE k == [conn[c] EXCEPT !.thr = Nobody]
    <3>1. conn'[c] = k
      BY <2>1, <1>1, <1>2
    <3>2. /\ k \in ConnType /\ k.name = conn[c].name /\ k.ctx = conn[c].ctx
          /\ k.thr = Nobody /\ k.handler = conn[c].handler
          /\ k.connected = conn[c].connected /\ k.col = conn[c].col
      BY <1>3 DEF ConnType
    <3> HIDE DEF k
    <3>3. ConnOK(k)
      BY <3>2, <1>3 DEF ConnOK
    <3> QED
      BY <2>1, <3>1, <3>2, <3>3
  <2>2. CASE c \notin Calls(t)
    BY <2>2, <1>1, <1>2, <1>3
  <2> QED
    BY <2>1, <2>2
<1>5. conn' \in Seq(ConnType) /\ Len(conn') = Len(conn)
  <2>1. DOMAIN conn' = 1 .. Len(conn) /\ conn' = [c \in 1 .. Len(conn) |-> conn'[c]]
    BY <1>1
  <2> QED
    BY <2>1, <1>2, <1>4
<1>6. DbdTypeOK'
  <2>1. vm' \in [Threads -> {"none", "runs", "db", "elsewhere"}] /\ cln' \in [Threads -> SUBSET Nat]
    BY <1>1 DEF DbdTypeOK
  <2> QED
    BY <2>1, <1>1, <1>5 DEF DbdTypeOK
<1>7. PoolInv'
  <2>1. \A n, s : Of(n, s)' = Of(n, s)
    BY <1>4, <1>5 DEF Of
  <2> QED
    BY <2>1, <1>1, <1>4, <1>5 DEF PoolInv
<1>8. ConnInv'
  BY <1>4, <1>5 DEF ConnInv
<1>9. CallInv'
  <2>1. Calls(t)' = {}
    BY <1>4, <1>5 DEF Calls
  <2>2. \A u \in Threads : u # t => Calls(u)' = Calls(u)
    BY <1>4, <1>5 DEF Calls
  <2>3. vm'[t] = "none" /\ cln'[t] = {}
    BY <1>1, <1>2 DEF DbdTypeOK
  <2>4. \A u \in Threads : u # t => vm'[u] = vm[u] /\ cln'[u] = cln[u]
    BY <1>1, <1>2 DEF DbdTypeOK
  <2>5. CallOK(t)'
    BY <2>1, <2>3 DEF CallOK
  <2>6. \A u \in Threads : u # t => CallOK(u)'
    BY <2>2, <2>4, <1>1 DEF CallInv, CallOK
  <2>7. \A u, v \in Threads : vm'[u] = "runs" /\ vm'[v] = "runs" => u = v
    BY <2>3, <2>4 DEF CallInv
  <2> QED
    BY <2>5, <2>6, <2>7, <1>1 DEF CallInv
<1> QED
  BY <1>6, <1>7, <1>8, <1>9

-----------------------------------------------------------------------------
(* The invariants                                                           *)

\* The strengthening is kept by every step.
THEOREM DbdInductive == Spec => []IInv
<1> USE DbdAssumption
<1>1. Init => IInv
  <2> SUFFICES ASSUME Init PROVE IInv
    OBVIOUS
  <2>1. /\ conf = <<>> /\ pools = <<>> /\ conn = <<>> /\ cur = 0
        /\ vm = [t \in Threads |-> "none"] /\ cln = [t \in Threads |-> {}]
    BY DEF Init
  <2>2. DOMAIN conf = {} /\ DOMAIN pools = {} /\ Len(conn) = 0 /\ conn \in Seq(ConnType)
    BY <2>1
  <2>3. DbdTypeOK
    BY <2>1, <2>2 DEF DbdTypeOK
  <2>4. PoolInv /\ ConnInv
    BY <2>2 DEF PoolInv, ConnInv
  <2>5. CallInv
    BY <2>1, <2>2 DEF CallInv, CallOK, Calls
  <2> QED
    BY <2>3, <2>4, <2>5 DEF IInv
<1>2. IInv /\ [Next]_vars => IInv'
  <2> SUFFICES ASSUME IInv, [Next]_vars PROVE IInv'
    OBVIOUS
  <2>1. ASSUME NEW n \in Names, NEW limit \in Limits, CreatePool(n, limit) PROVE IInv'
    BY <2>1, CreatePoolStep
  <2>2. ASSUME NEW t \in Threads, NEW n \in Names,
               ExecuteFree(t, n) \/ ExecuteNew(t, n) \/ ExecuteFails(t, n)
        PROVE  IInv'
    BY <2>2, ExecuteFreeStep, ExecuteNewStep, ExecuteFailsStep
  <2>3. CASE Handler
    BY <2>3, HandlerStep
  <2>4. ASSUME NEW c \in 1 .. Len(conn), Answer(c) PROVE IInv'
    BY <2>4, AnswerStep
  <2>5. ASSUME NEW t \in Threads, Wake(t) \/ Pause(t) \/ SessionEnds(t) PROVE IInv'
    BY <2>5, ScriptStep, SessionEndsStep
  <2>6. CASE UNCHANGED vars
    <3>1. UNCHANGED <<conf, pools, conn, vm, cln, cur>>
      BY <2>6 DEF vars
    <3>2. DbdTypeOK' /\ ConnInv'
      BY <3>1 DEF IInv, DbdTypeOK, ConnInv
    <3>3. PoolInv'
      BY <3>1 DEF IInv, PoolInv, Of
    <3>4. CallInv'
      BY <3>1 DEF IInv, CallInv, CallOK, Calls
    <3> QED
      BY <3>2, <3>3, <3>4 DEF IInv
  <2> QED
    BY <2>1, <2>2, <2>3, <2>4, <2>5, <2>6 DEF Next
<1> QED
  BY <1>1, <1>2, PTL DEF Spec

\* Whatever the limits and however many sessions: each connection of a pool is in
\* one of its two lists, once, busy exactly while a call has it; the counters that
\* get_connection compares with the limit are the lengths of the lists; and the
\* limit, if there is one, is kept.
THEOREM PoolsAgree == Spec => []PoolAgrees
<1> USE DbdAssumption
<1>1. IInv => PoolAgrees
  <2> SUFFICES ASSUME IInv, NEW n \in DOMAIN pools
               PROVE  LET p == pools[n]
                          all == p.busy \o p.free
                      IN /\ p.busyN = Len(p.busy) /\ p.freeN = Len(p.free)
                         /\ IsInjective(all)
                         /\ ToSet(all) = {c \in 1 .. Len(conn) : conn[c].name = n}
                         /\ \A c \in ToSet(all) :
                                c \in ToSet(p.busy) <=> conn[c].ctx = "live"
                         /\ conf[n] # 0 => Len(all) <= conf[n]
    BY DEF PoolAgrees
  <2> DEFINE p == pools[n]
             b == p.busy
             f == p.free
             all == b \o f
  <2>1. b \in Seq(Nat) /\ f \in Seq(Nat)
    BY DEF IInv, DbdTypeOK, PoolType
  <2>2. /\ p.busyN = Len(b) /\ IsInjective(b) /\ p.freeN = Len(f) /\ IsInjective(f)
        /\ ToSet(b) = Of(n, "live") /\ ToSet(f) = Of(n, "freed")
        /\ conf[n] # 0 => Len(b) + Len(f) <= conf[n]
    BY DEF IInv, PoolInv
  <2>3. \A c \in 1 .. Len(conn) : conn[c].ctx \in {"live", "freed"}
    <3> SUFFICES ASSUME NEW c \in 1 .. Len(conn) PROVE conn[c].ctx \in {"live", "freed"}
      OBVIOUS
    <3>1. conn[c] \in ConnType
      BY DEF IInv, DbdTypeOK
    <3> QED
      BY <3>1 DEF ConnType
  <2> HIDE DEF b, f
  <2>4. Len(b) \in Nat /\ DOMAIN b = 1 .. Len(b) /\ Len(f) \in Nat /\ DOMAIN f = 1 .. Len(f)
    BY <2>1
  <2>5. /\ Len(all) = Len(b) + Len(f) /\ DOMAIN all = 1 .. Len(b) + Len(f)
        /\ \A i \in 1 .. Len(b) + Len(f) :
              all[i] = IF i <= Len(b) THEN b[i] ELSE f[i - Len(b)]
    <3>1. /\ all \in Seq(Nat) /\ Len(all) = Len(b) + Len(f)
          /\ \A i \in 1 .. Len(b) + Len(f) :
                all[i] = IF i <= Len(b) THEN b[i] ELSE f[i - Len(b)]
      BY <2>1, ConcatProperties, Zenon
    <3> QED
      BY <3>1
  <2> HIDE DEF all
  <2>6. \A i \in 1 .. Len(b) + Len(f) : i > Len(b) => i - Len(b) \in 1 .. Len(f)
    BY <2>4
  <2>7. ToSet(b) \cap ToSet(f) = {}
    BY <2>2 DEF Of
  <2>8. IsInjective(all)
    <3> SUFFICES ASSUME NEW i \in 1 .. Len(b) + Len(f), NEW j \in 1 .. Len(b) + Len(f),
                        all[i] = all[j]
                 PROVE  i = j
      BY <2>5 DEF IsInjective
    <3>1. CASE i <= Len(b) /\ j <= Len(b)
      BY <3>1, <2>2, <2>4, <2>5 DEF IsInjective
    <3>2. CASE i > Len(b) /\ j > Len(b)
      BY <3>2, <2>2, <2>4, <2>5, <2>6 DEF IsInjective
    <3>3. CASE ~(i <= Len(b) <=> j <= Len(b))
      <4> SUFFICES ASSUME NEW k \in 1 .. Len(b) + Len(f), NEW l \in 1 .. Len(b) + Len(f),
                          all[k] = all[l], k <= Len(b), l > Len(b)
                   PROVE  FALSE
        BY <3>3, <2>4
      <4>1. all[k] = b[k] /\ k \in DOMAIN b
        BY <2>4, <2>5
      <4>2. all[l] = f[l - Len(b)] /\ l - Len(b) \in DOMAIN f
        BY <2>4, <2>5, <2>6
      <4> QED
        BY <4>1, <4>2, <2>7 DEF ToSet
    <3> QED
      BY <3>1, <3>2, <3>3, <2>4
  <2>9. ToSet(all) = ToSet(b) \cup ToSet(f)
    <3>1. ToSet(all) \subseteq ToSet(b) \cup ToSet(f)
      BY <2>4, <2>5, <2>6 DEF ToSet
    <3>2. ASSUME NEW i \in 1 .. Len(b) PROVE b[i] \in ToSet(all)
      <4>1. i \in DOMAIN all /\ all[i] = b[i]
        BY <2>4, <2>5
      <4> QED
        BY <4>1 DEF ToSet
    <3>3. ASSUME NEW i \in 1 .. Len(f) PROVE f[i] \in ToSet(all)
      <4>1. i + Len(b) \in DOMAIN all /\ all[i + Len(b)] = f[i]
        BY <2>4, <2>5
      <4> QED
        BY <4>1 DEF ToSet
    <3> QED
      BY <3>1, <3>2, <3>3, <2>4 DEF ToSet
  <2>10. ToSet(all) = {c \in 1 .. Len(conn) : conn[c].name = n}
    BY <2>2, <2>3, <2>9 DEF Of
  <2>11. \A c \in ToSet(all) : c \in ToSet(b) <=> conn[c].ctx = "live"
    BY <2>2, <2>10 DEF Of
  <2> QED
    BY <2>2, <2>5, <2>8, <2>10, <2>11 DEF b, f, all
<1> QED
  BY <1>1, DbdInductive, PTL

\* Whatever ends first: a script that waits for the database waits for one call,
\* which knows it and is told if the session ends.
THEOREM CallsAlwaysMatch == Spec => []CallsMatch
<1>1. IInv => CallsMatch
  <2> SUFFICES ASSUME IInv, NEW t \in Threads
               PROVE  /\ Cardinality(Calls(t)) <= 1 /\ cln[t] = Calls(t)
                      /\ (vm[t] = "db") <=> (Calls(t) # {} /\ ~(vm[t] = "runs"))
                      /\ vm[t] = "runs" => Calls(t) \subseteq {cur}
    BY DEF CallsMatch, Calls
  <2>1. CallOK(t)
    BY DEF IInv, CallInv
  <2>2. Cardinality(Calls(t)) <= 1
    <3>1. CASE Calls(t) = {}
      <4>1. Cardinality({}) = 0
        BY FS_EmptySet
      <4> QED
        BY <3>1, <4>1
    <3>2. CASE Calls(t) # {}
      <4>1. PICK c : c \in Calls(t)
        BY <3>2
      <4>2. Calls(t) = {c}
        BY <4>1, <2>1 DEF CallOK
      <4>3. Cardinality({c}) = 1
        BY FS_Singleton
      <4> QED
        BY <4>2, <4>3
    <3> QED
      BY <3>1, <3>2
  <2> QED
    BY <2>1, <2>2 DEF CallOK
<1> QED
  BY <1>1, DbdInductive, PTL

\* However many columns and rows: no field is stored behind its row, and a query
\* is only sent on a connection that is there.
THEOREM RowsAlwaysWhole == Spec => []RowsWhole
<1>1. IInv => RowsWhole
  BY DEF IInv, ConnInv, ConnOK, RowsWhole
<1> QED
  BY <1>1, DbdInductive, PTL

=============================================================================
