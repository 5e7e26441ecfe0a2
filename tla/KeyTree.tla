------------------------------ MODULE KeyTree ------------------------------
(***************************************************************************)
(* The keyed red-black trees of the module: compiled scripts, database     *)
(* pools and their configurations, torrents, peers, sessions and session   *)
(* variables.  All seven order their nodes by a crc32 and, where two crc32 *)
(* are equal, by the bytes of the key; all seven are filled by one         *)
(* insert_value function and searched by one lookup function, with one     *)
(* difference: at a node with the key's crc32, the session tables compare  *)
(* the key with the node, as insert_value does, and the others compare the *)
(* node with the key and turn the other way (mirrored).                    *)
(*                                                                         *)
(* The rebalancing of nginx's rbtree (external) keeps the in-order         *)
(* sequence and leaves some shape a red-black tree may have.               *)
(***************************************************************************)
EXTENDS Naturals, Sequences, SequencesExt

CONSTANTS
    Keys,       \* records [hash, bytes]; both components are numbers
    Lookups,    \* which lookups the tables have (subset of BOOLEAN): mirrored or not
    MaxNodes    \* bound on the size of the tree

VARIABLES
    mirrored,   \* which lookup this table has
    tree        \* the tree, with its shape

Leaf == [leaf |-> TRUE]
Node(l, k, r) == [key |-> k, left |-> l, right |-> r]

RECURSIVE InOrder(_)
InOrder(t) ==
    IF t = Leaf THEN <<>>
    ELSE InOrder(t.left) \o <<t.key>> \o InOrder(t.right)

Nodes(t) == ToSet(InOrder(t))

-----------------------------------------------------------------------------
(* Shapes a red-black tree can have                                         *)

RECURSIVE Longest(_), Shortest(_)
Longest(t) ==
    IF t = Leaf THEN 0
    ELSE 1 + LET l == Longest(t.left) r == Longest(t.right)
             IN IF l > r THEN l ELSE r
Shortest(t) ==
    IF t = Leaf THEN 0
    ELSE 1 + LET l == Shortest(t.left) r == Shortest(t.right)
             IN IF l < r THEN l ELSE r

\* A tree over the sequence s: a root somewhere, and a tree on either side,
\* with no path to a leaf more than twice as long as another.
RECURSIVE Balanced(_)
Balanced(s) ==
    IF s = <<>> THEN {Leaf}
    ELSE UNION {{t \in {Node(l, s[i], r) :
                           l \in Balanced(SubSeq(s, 1, i - 1)),
                           r \in Balanced(SubSeq(s, i + 1, Len(s)))} :
                   Longest(t) <= 2 * Shortest(t)} : i \in DOMAIN s}

-----------------------------------------------------------------------------
(* insert_value and lookup                                                  *)

Less(a, b) == a.hash < b.hash \/ (a.hash = b.hash /\ a.bytes < b.bytes)

\* insert_value: down to a leaf.
RECURSIVE InsertValue(_, _)
InsertValue(t, k) ==
    IF t = Leaf THEN Node(Leaf, k, Leaf)
    ELSE IF Less(k, t.key) THEN Node(InsertValue(t.left, k), t.key, t.right)
    ELSE Node(t.left, t.key, InsertValue(t.right, k))

\* Where the inner loop of lookup turns at a node n with the crc32 of k.
TurnsLeft(n, k) == IF mirrored THEN n.bytes < k.bytes ELSE k.bytes < n.bytes

\* The inner loop of lookup: it ends at a node with another crc32.
RECURSIVE Among(_, _)
Among(t, k) ==
    IF t = Leaf \/ t.key.hash # k.hash THEN FALSE
    ELSE IF t.key = k THEN TRUE
    ELSE Among(IF TurnsLeft(t.key, k) THEN t.left ELSE t.right, k)

\* The outer loop of lookup.
RECURSIVE Lookup(_, _)
Lookup(t, k) ==
    IF t = Leaf THEN FALSE
    ELSE IF k.hash < t.key.hash THEN Lookup(t.left, k)
    ELSE IF k.hash > t.key.hash THEN Lookup(t.right, k)
    ELSE Among(t, k)

-----------------------------------------------------------------------------
(* The life of a table                                                      *)

Init == mirrored \in Lookups /\ tree = Leaf

\* ngx_squ_cache_set, and the way the other tables are filled: a key is
\* inserted when lookup did not find it.
Store(k) ==
    /\ Len(InOrder(tree)) < MaxNodes
    /\ ~Lookup(tree, k)
    /\ tree' \in Balanced(InOrder(InsertValue(tree, k)))
    /\ UNCHANGED mirrored

\* The node lookup found is deleted, as ngx_squ_cache_get deletes a stale entry.
Delete(k) ==
    /\ Lookup(tree, k)
    /\ \E i \in DOMAIN InOrder(tree) :
          /\ InOrder(tree)[i] = k
          /\ tree' \in Balanced(RemoveAt(InOrder(tree), i))
    /\ UNCHANGED mirrored

vars == <<mirrored, tree>>

Next == \E k \in Keys : Store(k) \/ Delete(k)

Spec == Init /\ [][Next]_vars

-----------------------------------------------------------------------------
(* Properties                                                               *)

\* What is in the tree is found: lookup's "not found" means it is not there.
FoundAll == \A k \in Nodes(tree) : Lookup(tree, k)

=============================================================================
