-------------------------------- MODULE Pools --------------------------------
(***************************************************************************)
(* Pools of addresses and of prefixes.                                     *)
(*                                                                         *)
(* ippool.IPPool (tools/ippool): a set of IP addresses, kept as a          *)
(* red-black tree of disjoint ranges.  An address has a high and a low     *)
(* word of Width bits (64 in the code) and is the number they form.        *)
(*                                                                         *)
(* A tree is a function from the paths of its nodes, which are sequences   *)
(* of "L" and "R" from the root, to their values and colors; so Parent,    *)
(* Left and Right need no pointers.  Operators that rotate while they hold *)
(* a node return the tree and where that node is now.                      *)
(*                                                                         *)
(* prefixpool.PrefixPool (tools/prefixpool), below: networks from which    *)
(* connections get a pair of addresses and extra prefixes.                 *)
(***************************************************************************)
EXTENDS Integers, Sequences, SequencesExt, FiniteSets, FiniteSetsExt

CONSTANTS
    Width,    \* bits of a word
    Nets,     \* networks that are added and excluded, as ranges
    Wanted    \* addresses that are asked for

MaxWord == 2 ^ Width - 1
MaxAddress == 2 ^ (2 * Width) - 1
Address == 0 .. MaxAddress

-----------------------------------------------------------------------------
(* Ranges of addresses (types.go).                                         *)

ipRange(a, b) == [start |-> a, end |-> b]

Addresses(r) == r.start .. r.end

\* 0 if they cross, -1 and 1 if r ends or begins next to b, -2 and 2 otherwise.
CompareRange(b, r) ==
    CASE r.end < b.start -> IF r.end + 1 = b.start THEN -1 ELSE -2
      [] r.start > b.end -> IF r.start - 1 = b.end THEN 1 ELSE 2
      [] OTHER -> 0

Unite(b, r) ==
    ipRange(IF r.start < b.start THEN r.start ELSE b.start, IF r.end > b.end THEN r.end ELSE b.end)

\* What is left of b when r is taken out: at most a range on either side.
Sub(b, r) ==
    IF CompareRange(b, r) # 0 THEN {b}
    ELSE {x \in {[start |-> b.start, end |-> r.start - 1], [start |-> r.end + 1, end |-> b.end]} :
             x.start <= x.end}

\* ipRangeFromIPNet: the addresses of a network whose host part has h bits.
RangeFromIPNet(a, h) ==
    LET size == 2 ^ h IN ipRange((a \div size) * size, (a \div size) * size + size - 1)

-----------------------------------------------------------------------------
(* Nodes of the tree.                                                      *)

EmptyTree == <<>>
Root == <<>>

Left(p)  == Append(p, "L")
Right(p) == Append(p, "R")
Parent(p) == Front(p)
IsLeft(p) == Last(p) = "L"

Sibling(p) == IF IsLeft(p) THEN Right(Parent(p)) ELSE Left(Parent(p))

nodeColor(t, p) == IF p \in DOMAIN t THEN t[p].color ELSE "black"

Paint(t, p, c) == [t EXCEPT ![p].color = c]

\* The tree t with every node p moved to At(p).
Moved(t, At(_)) ==
    LET moves == {<<At(p), p>> : p \in DOMAIN t}
    IN  [q \in {m[1] : m \in moves} |-> t[(CHOOSE m \in moves : m[1] = q)[2]]]

\* The path s below p.
Below(p, q) == SubSeq(q, Len(p) + 1, Len(q))

\* Rotation at p: the child on the side up takes the place of p, which becomes
\* its child on the side down.
Rotate(t, p, up, down) ==
    LET At(q) ==
          LET s == Below(p, q)
          IN  IF ~IsPrefix(p, q) THEN q
              ELSE IF s = <<>> \/ s[1] = down THEN p \o <<down>> \o s
              ELSE IF Len(s) > 1 /\ s[2] = down THEN p \o <<down, up>> \o SubSeq(s, 3, Len(s))
              ELSE p \o Tail(s)
    IN  Moved(t, At)

rotateLeft(t, p)  == Rotate(t, p, "R", "L")
rotateRight(t, p) == Rotate(t, p, "L", "R")

\* replaceNode(node, child) for the only child of p, on side s, or for none: p is
\* gone and what was below the child comes one step up.
replaceNode(t, p, s) ==
    LET Rest == [q \in DOMAIN t \ {p} |-> t[q]]
        At(q) == IF IsPrefix(Append(p, s), q) THEN p \o Below(Append(p, s), q) ELSE q
    IN  Moved(Rest, At)

\* A tree and the place of a node in it.
Placed(t, n) == [tree |-> t, node |-> n]

-----------------------------------------------------------------------------
(* Insertion.                                                              *)

\* At the parent of the node that was inserted, whose grandparent is g.
insertCase5(t, p, g) ==
    IF IsLeft(p) THEN rotateRight(Paint(Paint(t, p, "black"), g, "red"), g)
    ELSE rotateLeft(Paint(Paint(t, p, "black"), g, "red"), g)

\* The uncle of n is black; afterwards n and its parent are on the same side.
insertCase4(t, n) ==
    LET p == Parent(n)
    IN  insertCase5(IF IsLeft(n) = IsLeft(p) THEN t
                    ELSE IF IsLeft(p) THEN rotateLeft(t, p) ELSE rotateRight(t, p), p, Parent(p))

\* Parent and uncle of the red node are red: they become black, and on with the
\* grandparent, which is red now.
insertCase3(x) ==
    LET p == Parent(x.node)
    IN  IF x.node = Root \/ nodeColor(x.tree, p) = "black" \/ nodeColor(x.tree, Sibling(p)) = "black" THEN x
        ELSE Placed(Paint(Paint(Paint(x.tree, p, "black"), Sibling(p), "black"), Parent(p), "red"), Parent(p))

\* insertCase1 and 2: t with the red node n in it is a red-black tree again.
insertCase1(t, n) ==
    LET Repaired(x) ==
          IF x.node = Root THEN Paint(x.tree, Root, "black")
          ELSE IF nodeColor(x.tree, Parent(x.node)) = "black" THEN x.tree
          ELSE insertCase4(x.tree, x.node)
    IN  Repaired(FoldLeft(LAMBDA x, side : insertCase3(x), Placed(t, n), n))

-----------------------------------------------------------------------------
(* Removal: the paths through n get a black node back that they lack.      *)

\* The far child c of the sibling s of n is red, and p is the parent.
deleteCase6(t, n) ==
    LET s == Sibling(n)
        p == Parent(n)
        Swap(c) == Paint(Paint(Paint(t, s, t[p].color), p, "black"), c, "black")
    IN  IF IsLeft(n) /\ nodeColor(t, Right(s)) = "red"
        THEN Placed(rotateLeft(Swap(Right(s)), p), p \o <<"L", "L">>)
        ELSE IF nodeColor(t, Left(s)) = "red"
        THEN Placed(rotateRight(Swap(Left(s)), p), p \o <<"R", "R">>)
        ELSE Placed(Swap(p), n)

\* The sibling is black; its near child, if only that is red, takes its place.
deleteCase5(t, n) ==
    LET s == Sibling(n)
        near == IF IsLeft(n) THEN Left(s) ELSE Right(s)
        far  == IF IsLeft(n) THEN Right(s) ELSE Left(s)
        red  == Paint(Paint(t, s, "red"), near, "black")
    IN  deleteCase6(IF ~(nodeColor(t, near) = "red" /\ nodeColor(t, far) = "black") THEN t
                    ELSE IF IsLeft(n) THEN rotateRight(red, s) ELSE rotateLeft(red, s), n)

AllBlack(t, s) == \A m \in {s, Left(s), Right(s)} : nodeColor(t, m) = "black"

deleteCase4(t, n) ==
    IF nodeColor(t, Parent(n)) = "red" /\ AllBlack(t, Sibling(n))
    THEN Placed(Paint(Paint(t, Sibling(n), "red"), Parent(n), "black"), n)
    ELSE deleteCase5(t, n)

\* Everything around is black: on with the parent.
deleteCase3(x) ==
    IF x.node # Root /\ nodeColor(x.tree, Parent(x.node)) = "black" /\ AllBlack(x.tree, Sibling(x.node))
    THEN Placed(Paint(x.tree, Sibling(x.node), "red"), Parent(x.node))
    ELSE x

\* A red sibling is turned up, so that n has a black one and a red parent.
deleteCase2(t, n) ==
    LET p == Parent(n)
        red == nodeColor(t, Sibling(n)) = "red"
        flip == Paint(Paint(t, p, "red"), Sibling(n), "black")
    IN  deleteCase4(IF ~ red THEN t ELSE IF IsLeft(n) THEN rotateLeft(flip, p) ELSE rotateRight(flip, p),
                    IF ~ red THEN n ELSE IF IsLeft(n) THEN p \o <<"L", "L">> ELSE p \o <<"R", "R">>)

\* The node at which this ends may move, and n with it.
deleteCase1(t, n) ==
    LET Moves(x, top) == Placed(x.tree, x.node \o Below(top, n))
        Repaired(x) == Moves(IF x.node = Root THEN x ELSE deleteCase2(x.tree, x.node), x.node)
    IN  Repaired(FoldLeft(LAMBDA x, side : deleteCase3(x), Placed(t, n), n))

\* The node of the subtree of p that is farthest on side s.
Farthest(t, p, s) ==
    CHOOSE q \in DOMAIN t :
        /\ IsPrefix(p, q)
        /\ \A i \in 1 .. Len(Below(p, q)) : Below(p, q)[i] = s
        /\ Append(q, s) \notin DOMAIN t

\* The end of removeNode: node n, with no child but the one on side s, goes.
RemoveLeaf(t, n, s) ==
    LET Painted(r, top) == IF top /\ Root \in DOMAIN r THEN Paint(r, Root, "black") ELSE r
        Replaced(x) == Painted(replaceNode(x.tree, x.node, s), x.node = Root)
    IN  Replaced(IF t[n].color = "black"
                 THEN deleteCase1(Paint(t, n, nodeColor(t, Append(n, s))), n)
                 ELSE Placed(t, n))

\* A node with two children takes the value of its predecessor, which goes instead.
removeNode(t, p) ==
    LET n == IF {Left(p), Right(p)} \subseteq DOMAIN t THEN Farthest(t, Left(p), "R") ELSE p
    IN  RemoveLeaf([t EXCEPT ![p].value = t[n].value], n, IF Right(n) \in DOMAIN t THEN "R" ELSE "L")

-----------------------------------------------------------------------------
(* Addition and removal of ranges.                                         *)

\* The node that a search for range r ends at: one whose value is at most d away
\* from r, or a path where there is no node.
Search(t, p, r, d) ==
    LET from[q \in Seq({"L", "R"})] ==
          LET c == IF q \in DOMAIN t THEN CompareRange(t[q].value, r) ELSE 0
          IN  IF c < -d THEN from[Left(q)] ELSE IF c > d THEN from[Right(q)] ELSE q
    IN  from[p]

\* A range and the node that it crosses or, for d = 1, may also continue.
Found(t, r, d) == [tree |-> t, range |-> r, node |-> Search(t, Root, r, d)]

\* A range that crosses nodes or continues them is united with them and added anew.
addRange(t, r) ==
    LET Unites(x) ==
          IF x.node \notin DOMAIN x.tree THEN x
          ELSE Found(removeNode(x.tree, x.node), Unite(x.tree[x.node].value, x.range), 1)
        Added(x) ==
          insertCase1([q \in DOMAIN x.tree \cup {x.node} |->
                          IF q = x.node THEN [value |-> x.range, color |-> "red"] ELSE x.tree[q]], x.node)
    IN  Added(FoldSet(LAMBDA p, x : Unites(x), Found(t, r, 1), DOMAIN t))

\* Mutant: only one node that crosses the range is found.
deleteRange_Once(t, r) ==
    LET n == Search(t, Root, r, 0)
    IN  IF n \notin DOMAIN t THEN t
        ELSE FoldLeft(addRange, removeNode(t, n),
                      SetToSortSeq(Sub(t[n].value, r), LAMBDA x, y : x.start < y.start))

\* All nodes that cross the range are removed; then what was outside of the range
\* is added again, the left part of a node before its right part.
deleteRange(t, r) ==
    LET Rests(v) == SetToSortSeq(Sub(v, r), LAMBDA y, z : y.start < z.start)
        Removes(x) ==
          IF x.found.node \notin DOMAIN x.found.tree THEN x
          ELSE [found |-> Found(removeNode(x.found.tree, x.found.node), r, 0),
                rest  |-> Rests(x.found.tree[x.found.node].value) \o x.rest]
        Readded(x) == FoldLeft(addRange, x.found.tree, x.rest)
    IN  Readded(FoldSet(LAMBDA p, x : Removes(x), [found |-> Found(t, r, 0), rest |-> <<>>], DOMAIN t))

lookup(t, a) == Search(t, Root, ipRange(a, a), 0) \in DOMAIN t

ContainsNet(t, r) ==
    LET n == Search(t, Root, r, 0) IN n \in DOMAIN t /\ Sub(r, t[n].value) = {}

\* pull: the first address of the leftmost node.
pull(t) ==
    LET n == Farthest(t, Root, "L")
        v == t[n].value
    IN  [ip |-> v.start,
         tree |-> IF v.start = v.end THEN removeNode(t, n)
                  ELSE [t EXCEPT ![n].value.start = v.start + 1]]

\* excludePool: the ranges of pool x are deleted from left to right.
excludePool(t, x) ==
    FoldLeft(deleteRange, t,
             SetToSortSeq({x[p].value : p \in DOMAIN x}, LAMBDA r, s : r.start < s.start))

\* PullIP succeeds if the pool contains the address without the excluded ones.
PullIP(t, a) == deleteRange(t, ipRange(a, a))

\* The pairs that PullP2PAddrs may return: none or one.
P2PAddrs(t, x) ==
    LET With(src) == IF src.tree = EmptyTree THEN {} ELSE {<<src.ip, pull(src.tree).ip>>}
        From(c) == IF c = EmptyTree THEN {} ELSE With(pull(c))
    IN  From(excludePool(t, x))

PullP2PAddrs(t, s, d) == PullIP(PullIP(t, s), d)

-----------------------------------------------------------------------------
(* GetPrefixes: the networks that make up a range, each as the number of   *)
(* its first address and the number of its host bits.                      *)

trailingZeros(w) ==
    CHOOSE z \in 0 .. Width : IF w = 0 THEN z = Width ELSE w % 2 ^ z = 0 /\ w % 2 ^ (z + 1) # 0

\* The blocks of words from w to the end of the word.
BlocksToEnd(w) ==
    LET from[v \in 0 .. MaxWord] ==
          LET z == trailingZeros(v)
          IN  IF v = 0 THEN {} ELSE {<<v, z>>} \cup from[(v + 2 ^ z) % 2 ^ Width]
    IN  from[w]

\* The blocks of words from w to e.  The sum wraps around.
Blocks(w, e) ==
    LET from[v \in 0 .. MaxWord + 1] ==
          LET z == CHOOSE y \in 0 .. Width :
                      /\ y <= trailingZeros(v) /\ y < Width
                      /\ y = 0 \/ e - v + 1 >= 2 ^ y
                      /\ \A x \in (y + 1) .. Width - 1 : x > trailingZeros(v) \/ e - v + 1 < 2 ^ x
          IN  IF v > e THEN {}
              ELSE IF v = 0 /\ e = MaxWord THEN {<<0, Width>>}
              ELSE {<<v, z>>} \cup from[(v + 2 ^ z) % 2 ^ Width]
    IN  from[w]

LowNets(high, blocks) == {<<high * 2 ^ Width + b[1], b[2]>> : b \in blocks}

HighNets(blocks) == {<<b[1] * 2 ^ Width, b[2] + Width>> : b \in blocks}

getPrefixes(r) ==
    LET sh == r.start \div 2 ^ Width
        sl == r.start % 2 ^ Width
        eh == r.end \div 2 ^ Width
        el == r.end % 2 ^ Width
        first == IF sl = 0 THEN {} ELSE LowNets(sh, BlocksToEnd(sl))
        mid == HighNets(Blocks(IF sl = 0 THEN sh ELSE sh + 1, IF el = MaxWord THEN eh ELSE eh - 1))
        last == IF el = MaxWord THEN {} ELSE LowNets(eh, Blocks(0, el))
    IN  IF sh = eh THEN LowNets(sh, Blocks(sl, el)) ELSE first \cup mid \cup last

GetPrefixes(t) == UNION {getPrefixes(t[p].value) : p \in DOMAIN t}

-----------------------------------------------------------------------------
(* The pool under its lock.                                                *)

VARIABLES
    tree,    \* root and what is below
    size,
    addrs    \* the addresses that the pool has to hold

poolVars == <<tree, size, addrs>>

\* addRange and deleteRange count the nodes they insert and remove.
Becomes(t) == tree' = t /\ size' = size + Cardinality(DOMAIN t) - Cardinality(DOMAIN tree)

PoolInit == tree = EmptyTree /\ size = 0 /\ addrs = {}

AddNet(r) == Becomes(addRange(tree, r)) /\ addrs' = addrs \cup Addresses(r)

Exclude(r) == Becomes(deleteRange(tree, r)) /\ addrs' = addrs \ Addresses(r)

Pull ==
    /\ tree # EmptyTree
    /\ Becomes(pull(tree).tree)
    /\ addrs' = addrs \ {pull(tree).ip}

PullIPs(a) ==
    /\ lookup(tree, a)
    /\ Becomes(PullIP(tree, a))
    /\ addrs' = addrs \ {a}

\* Addresses for a connection that excludes network r.
PullPair(r) ==
    \E pair \in P2PAddrs(tree, addRange(EmptyTree, r)) :
        /\ Becomes(PullP2PAddrs(tree, pair[1], pair[2]))
        /\ addrs' = addrs \ {pair[1], pair[2]}

PoolNext ==
    \/ \E r \in Nets : AddNet(r) \/ Exclude(r) \/ PullPair(r)
    \/ Pull
    \/ \E a \in Wanted : PullIPs(a)

-----------------------------------------------------------------------------
Ranges == {tree[p].value : p \in DOMAIN tree}

\* Whatever was added, excluded and pulled, the tree holds exactly the addresses
\* that are left, in ranges that do not touch and are found by a search.
TreeHoldsPool ==
    /\ UNION {Addresses(r) : r \in Ranges} = addrs
    /\ \A r, s \in Ranges : r # s => CompareRange(r, s) \in {-2, 2}
    /\ \A a \in Address : lookup(tree, a) <=> a \in addrs
    /\ \A r \in Nets : ContainsNet(tree, r) <=> Addresses(r) \subseteq addrs

BlackNodes(p) == Cardinality({i \in 0 .. Len(p) - 1 : tree[SubSeq(p, 1, i)].color = "black"})

\* The tree stays a red-black tree, and its shape one of nodes with parents.
RedBlack ==
    LET Leaves == {q \in {Left(p) : p \in DOMAIN tree} \cup {Right(p) : p \in DOMAIN tree} :
                      q \notin DOMAIN tree}
    IN  /\ nodeColor(tree, Root) = "black"
        /\ \A p \in DOMAIN tree \ {Root} :
              /\ Parent(p) \in DOMAIN tree
              /\ tree[p].color = "red" => tree[Parent(p)].color = "black"
        /\ \A p, q \in Leaves : BlackNodes(p) = BlackNodes(q)
        /\ size = Cardinality(DOMAIN tree)

\* GetPrefixes returns the addresses of the pool as networks, and no others.
PrefixesArePool ==
    UNION {Addresses(RangeFromIPNet(n[1], n[2])) : n \in GetPrefixes(tree)} = addrs

-----------------------------------------------------------------------------
(* PrefixPool.  A network is its first address and its length, in a space  *)
(* of Bits bits.  The order of the list of prefixes is that of an          *)
(* iteration over a map after every release, so the list is a set here,    *)
(* and where the code takes the first one of several, any may be taken.    *)

CONSTANTS
    Bits,        \* length of an address (32 or 128)
    PairLen,     \* length of the network of a connection (30 or 126)
    Initial,     \* networks of New
    Unwanted,    \* networks that are excluded
    ExtraLen,    \* lengths of extra prefixes that are asked for
    Holder       \* connections

VARIABLES
    prefixes,    \* free networks
    connections, \* what each connection holds: its network and its extra prefixes
    removed,     \* networks that ExcludePrefixes has returned
    forgotten    \* (history) networks that nobody can release any more

prefixVars == <<prefixes, connections, removed, forgotten>>

NoRecord == [ipNet |-> <<>>, prefixes |-> {}]

HostBits(p) == 2 ^ (Bits - p[2])
Hosts(p) == p[1] .. p[1] + HostBits(p) - 1
All(s) == UNION {Hosts(p) : p \in s}

\* toIP(setNetIndexInIP): the half of network p with index i.
subnet(p, i) == <<p[1] + i * (HostBits(p) \div 2), p[2] + 1>>

\* clearNetIndexInIP: the network of which p is a half.
clearNetIndexInIP(p) == <<p[1] - (p[1] % (2 * HostBits(p))), p[2] - 1>>

\* intersect: the narrower of two networks is in the wider.
intersect(p, q) == IF p[2] < q[2] THEN q[1] \in Hosts(p) ELSE p[1] \in Hosts(q)

\* The halves that are left when network p is split down to its part q.
extractSubnet(p, q) ==
    {r \in {subnet(clearNetIndexInIP(<<q[1] - (q[1] % 2 ^ (Bits - l)), l>>), i) :
               l \in (p[2] + 1) .. q[2], i \in {0, 1}} : q[1] \notin Hosts(r)}

\* extractPrefix: a network of that length, or else the first part of a
\* smallest one that is wider.  A result is the prefix and what is left.
extractPrefix(s, len) ==
    LET exact == {p \in s : p[2] = len}
        wider == {p \in s : p[2] < len}
        roots == IF exact # {} THEN exact
                 ELSE {p \in wider : \A q \in wider : q[2] <= p[2]}
    IN  {LET x == <<p[1], len>> IN [got |-> {x}, left |-> (s \ {p}) \cup extractSubnet(p, x)] :
            p \in roots}

\* ExtractPrefixes of one request: required ones must be found, others may be.
ExtractRequested(s, r) ==
    LET More(rs) == UNION {{[got |-> x.got \cup y.got, left |-> y.left] :
                               y \in extractPrefix(x.left, r.len)} : x \in rs}
        Upto[n \in 0 .. r.requested] == IF n = 0 THEN {[got |-> {}, left |-> s]}
                                        ELSE More(Upto[n - 1])
        found == {n \in 0 .. r.requested : Upto[n] # {}}
    IN  IF r.required \notin found \/ Max(found) = 0 THEN {} ELSE Upto[Max(found)]

\* removeNestedNetworks: networks inside of others go.
removeNestedNetworks(s) == {p \in s : ~ \E q \in s : q # p /\ intersect(p, q) /\ q[2] <= p[2]}

\* The first halves whose second halves are free as well.
Join(s) ==
    {p \in s : \E q \in s : p # q /\ p[2] = q[2] /\ clearNetIndexInIP(p) = clearNetIndexInIP(q)
                             /\ p[1] < q[1]}

\* releasePrefixes: halves of a network are joined as long as there are any.
JoinAll[l \in 0 .. Bits, s \in SUBSET {<<a, n>> : a \in 0 .. 2 ^ Bits - 1, n \in 0 .. Bits}] ==
    LET firsts == {p \in Join(s) : p[2] = l}
        seconds == {<<p[1] + HostBits(p), l>> : p \in firsts}
        t == (s \ (firsts \cup seconds)) \cup {<<p[1], l - 1>> : p \in firsts}
    IN  IF l = 0 THEN s ELSE JoinAll[l - 1, t]

releasePrefixes(s, released) ==
    IF released = {} THEN s ELSE JoinAll[Bits, removeNestedNetworks(s \cup released)]

-----------------------------------------------------------------------------
PrefixInit ==
    /\ prefixes = Initial
    /\ connections = [c \in Holder |-> NoRecord]
    /\ removed = {} /\ forgotten = {}

Held(c) ==
    connections[c].prefixes \cup (IF connections[c].ipNet = <<>> THEN {} ELSE {connections[c].ipNet})

\* A new record replaces the one that the connection may have; incrementIP twice has to
\* stay in the network.
Extract(c, extra) ==
    \E x \in extractPrefix(prefixes, PairLen) :
    \E y \in IF extra = {} THEN {[got |-> {}, left |-> x.left]}
             ELSE UNION {ExtractRequested(x.left, r) : r \in extra} :
        /\ \A p \in x.got : p[1] + 2 \in Hosts(p)
        /\ prefixes' = y.left
        /\ connections' = [connections EXCEPT
                              ![c] = [ipNet |-> CHOOSE p \in x.got : TRUE, prefixes |-> y.got]]
        /\ forgotten' = forgotten \cup Held(c)
        /\ UNCHANGED removed

\* A connection without a record gets one with no network of its own.
ExtractPrefixes(c, r) ==
    \E y \in ExtractRequested(prefixes, r) :
        /\ prefixes' = y.left
        /\ connections' = [connections EXCEPT ![c].prefixes = @ \cup y.got]
        /\ UNCHANGED <<removed, forgotten>>

\* The record goes first: without a network in it, its release fails with the name of none.
Release(c) ==
    /\ connections[c] # NoRecord
    /\ connections' = [connections EXCEPT ![c] = NoRecord]
    /\ IF connections[c].ipNet = <<>>
       THEN forgotten' = forgotten \cup Held(c) /\ UNCHANGED prefixes
       ELSE /\ prefixes' = releasePrefixes(releasePrefixes(prefixes, connections[c].prefixes),
                                           {connections[c].ipNet})
            /\ UNCHANGED forgotten
    /\ UNCHANGED removed

\* The first prefix that the network crosses is split or removed, and no other.
ExcludePrefixes(q) ==
    \E p \in prefixes :
        /\ intersect(p, q)
        /\ LET rest == (prefixes \ {p}) \cup IF q[2] < p[2] THEN {} ELSE extractSubnet(p, q)
           IN  rest # {} /\ prefixes' = rest
        /\ removed' = removed \cup {IF q[2] < p[2] THEN p ELSE q}
        /\ UNCHANGED <<connections, forgotten>>

ReleaseExcludedPrefixes ==
    /\ removed # {}
    /\ prefixes' = releasePrefixes(prefixes, removed)
    /\ removed' = {}
    /\ UNCHANGED <<connections, forgotten>>

Request == {[len |-> l, required |-> 1, requested |-> n] : l \in ExtraLen, n \in {1, 2}}

PrefixNext ==
    \/ \E c \in Holder :
          \/ Extract(c, {})
          \/ \E r \in Request : Extract(c, {r}) \/ ExtractPrefixes(c, r)
          \/ Release(c)
    \/ \E q \in Unwanted : ExcludePrefixes(q)
    \/ ReleaseExcludedPrefixes

-----------------------------------------------------------------------------
AllNetworks == prefixes \cup removed \cup forgotten \cup UNION {Held(c) : c \in Holder}

Size(s) == MapThenSumSet(HostBits, s)

\* Through all splits and joins the free networks, the networks of the connections and
\* the excluded ones are disjoint: none is given out twice.  With them, the networks of
\* the beginning are those whose record another Extract of the same connection has
\* replaced, or whose release failed for the lack of a network: no others are lost.
PoolIsPartition ==
    /\ All(AllNetworks) = All(Initial)
    /\ Size(prefixes) + Size(removed) + Size(forgotten) + MapThenSumSet(LAMBDA c : Size(Held(c)), Holder)
         = Size(Initial)
=============================================================================
