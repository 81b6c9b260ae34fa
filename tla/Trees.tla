------------------------------- MODULE Trees -------------------------------
(***************************************************************************)
(* The trees of onet and how they are made from a roster, as operators.    *)
(*                                                                         *)
(* A roster is a sequence of servers, a server the pair of its host and    *)
(* its port.  A tree under construction is the sequence of its nodes in    *)
(* the order of their creation: the number of a node is its id, and parent *)
(* is the number of the node above, 0 for the root.  Roster indices count  *)
(* from 0, as in the code.                                                 *)
(***************************************************************************)
EXTENDS Naturals, Sequences, FiniteSets, Bags, SequencesExt

CONSTANTS
    TreeServers,    \* the servers
    MaxRoster,      \* bound: the length of a roster
    MaxChildren,    \* bound: the children of a node
    MaxNodes        \* bound: the nodes of a tree

VARIABLE treeAsked  \* what is asked for: a roster, N, the number of nodes and the root

NoTree == [roster |-> <<>>, N |-> 0, nodes |-> 0, root |-> 0]

TreeInputs ==
    {q \in [roster : BoundedSeq(TreeServers, MaxRoster), N : 1..MaxChildren,
            nodes : 1..MaxNodes, root : 0..(MaxRoster - 1)] : q.root < Len(q.roster)}

Host(s) == s[1]

\* NewTreeNode; the parent is set when the node is added to its children.
TreeNode(idx, parent) == [idx |-> idx, parent |-> parent]

KidsOf(t, i) == SelectSeq([k \in 1..Len(t) |-> k], LAMBDA k : t[k].parent = i)

-----------------------------------------------------------------------------
\* The numbers 0 to n - 1 of a loop.
Loop(n) == [k \in 1..n |-> k - 1]

\* The last of the nodes below that go to part n.
PartEnd(diff, n, N) == (diff * (n + 1)) \div N

\* addNary: the servers from start to end, below a node of t.
RECURSIVE addNary(_, _, _, _, _, _)
addNary(t, len, parent, N, start, end) ==
    IF ~(start <= end /\ end < len) THEN t
    ELSE LET with == Append(t, TreeNode(start, parent))
             diff == end - start
             Part(acc, n) == addNary(acc, len, Len(with), N,
                                     start + (diff * n) \div N + 1, start + PartEnd(diff, n, N))
         IN FoldLeft(Part, with, Loop(N))

GenerateNaryTree(roster, N) == addNary(<<>>, Len(roster), 0, N, 0, Len(roster) - 1)

\* The roster of GenerateNaryTreeWithRoot: the server at index r comes first.
WithRoot(roster, r) ==
    <<roster[r + 1]>> \o SubSeq(roster, 1, r) \o SubSeq(roster, r + 2, Len(roster))

-----------------------------------------------------------------------------
(* GenerateBigNaryTree.  g holds the nodes so far, the used indices, the index to try *)
(* next, and the nodes of the new level.                                             *)

\* The loop that looks for a server: i is elIndex, first where it began, ch the host
\* it looked at last, ph the host of the parent.
RECURSIVE FindServer(_, _, _, _, _, _, _, _)
FindServer(roster, used, useAll, ph, i, first, notSameHost, ch) ==
    LET len == Len(roster)
        j == (i + 1) % len IN
    IF ~(notSameHost /\ ch = ph /\ len > 1) /\ ~(useAll /\ i \in used) THEN i
    ELSE IF useAll /\ j \in used
    THEN FindServer(roster, used, useAll, ph, j, first, notSameHost /\ j # first, ch)
    ELSE IF j = first THEN j
    ELSE FindServer(roster, used, useAll, ph, j, first, notSameHost, Host(roster[j + 1]))

ChildServer(roster, g, useAll, p) ==
    FindServer(roster, g.used, useAll, Host(roster[g.t[p].idx + 1]), g.next, g.next, TRUE,
               Host(roster[g.next + 1]))

AddBigChild(roster, useAll, g, p) ==
    LET i == ChildServer(roster, g, useAll, p) IN
    [t |-> Append(g.t, TreeNode(i, p)), used |-> g.used \cup {i},
     next |-> (i + 1) % Len(roster), level |-> Append(g.level, Len(g.t) + 1)]

\* Mutation: the remaining nodes are not counted again for each parent.
EvenShare(nodes, total, i, len, N) == Min({N, ((nodes - total) \div len)})

\* How many children parent number i of a level of len nodes gets.
Share(nodes, total, i, len, N) == Min({N, ((nodes - total) * i) \div len})

BigLevel(roster, N, nodes, g) ==
    LET useAll == Len(roster) = nodes
        Fill(acc, i) ==
            FoldLeft(LAMBDA a, k : AddBigChild(roster, useAll, a, g.level[i]), acc,
                     Loop(Share(nodes, Len(acc.t), i, Len(g.level), N)))
    IN FoldLeft(Fill, [g EXCEPT !.level = <<>>], [i \in 1..Len(g.level) |-> i])

\* A level without nodes would never end.
RECURSIVE BigLevels(_, _, _, _)
BigLevels(roster, N, nodes, g) ==
    IF Len(g.t) >= nodes \/ g.level = <<>> THEN g.t
    ELSE BigLevels(roster, N, nodes, BigLevel(roster, N, nodes, g))

GenerateBigNaryTree(roster, N, nodes) ==
    BigLevels(roster, N, nodes,
              [t |-> <<TreeNode(0, 0)>>, used |-> {0}, next |-> 1 % Len(roster), level |-> <<1>>])

-----------------------------------------------------------------------------
\* Visit and List: the nodes in depth-first order.
RECURSIVE List(_, _)
List(t, i) == FoldLeft(LAMBDA acc, c : acc \o List(t, c), <<i>>, KidsOf(t, i))

\* UsesList
UsesList(roster, t) == \A s \in ToSet(roster) : \E i \in 1..Len(t) : roster[t[i].idx + 1] = s

Publics(roster) == FoldLeft(LAMBDA b, s : b (+) SetToBag({s}), EmptyBag, roster)

OwnPublic(roster, t, i) == SetToBag({roster[t[i].idx + 1]})

\* A sum of public keys is the bag of the servers they belong to.
RECURSIVE computeSubtreeAggregate(_, _, _)
computeSubtreeAggregate(roster, t, i) ==
    FoldLeft(LAMBDA b, c : b (+) computeSubtreeAggregate(roster, t, c), OwnPublic(roster, t, i),
             KidsOf(t, i))

\* What is sent of a tree: ids of nodes and servers.
RECURSIVE TreeMarshalCopyTree(_, _, _)
TreeMarshalCopyTree(roster, t, i) ==
    [id |-> i, si |-> roster[t[i].idx + 1],
     kids |-> [k \in 1..Len(KidsOf(t, i)) |->
                 TreeMarshalCopyTree(roster, t, KidsOf(t, i)[k])]]

\* Roster.Search: the first index of a server.
Search(roster, si) == CHOOSE k \in 0..(Len(roster) - 1) :
    roster[k + 1] = si /\ \A j \in 0..(k - 1) : roster[j + 1] # si

\* MakeTreeFromList: the nodes with their ids, in depth-first order.
RECURSIVE MakeTreeFromList(_, _, _)
MakeTreeFromList(roster, tm, parent) ==
    FoldLeft(LAMBDA acc, k : acc \o MakeTreeFromList(roster, k, tm.id),
             <<<<tm.id, TreeNode(Search(roster, tm.si), parent)>>>>, tm.kids)

-----------------------------------------------------------------------------
TreeInit == treeAsked = NoTree

\* A service or a simulation asks for a tree.
AskTree(q) == treeAsked = NoTree /\ treeAsked' = q

TreeNext == \E q \in TreeInputs : AskTree(q)

NaryTree == GenerateNaryTree(treeAsked.roster, treeAsked.N)
BigTree == GenerateBigNaryTree(treeAsked.roster, treeAsked.N, treeAsked.nodes)

(* Distributed key generation and re-encryption take the position of a node in the *)
(* List of the tree for the position of its server in the roster: a tree made by   *)
(* GenerateNaryTree lists the roster, each server once and in its order, no node   *)
(* has more than N children, and what the children of a node stand for differs in  *)
(* size by one at most.                                                            *)
ListIsRoster == treeAsked # NoTree =>
    LET t == NaryTree
        Below(c) == Len(List(t, c)) IN
    /\ [k \in 1..Len(t) |-> t[List(t, 1)[k]].idx] = Loop(Len(treeAsked.roster))
    /\ \A i \in 1..Len(t) :
        LET cs == ToSet(KidsOf(t, i)) IN
        /\ Cardinality(cs) <= treeAsked.N
        /\ \A c, d \in cs : Below(c) <= Below(d) + 1

(* "It will make a tree with exactly 'nodes' elements": at most N children below a  *)
(* node, and every server in the tree when there are as many as nodes.              *)
BigTreeIsExact == treeAsked # NoTree =>
    /\ Len(BigTree) = treeAsked.nodes
    /\ \A i \in 1..Len(BigTree) : Len(KidsOf(BigTree, i)) <= treeAsked.N
    /\ Len(treeAsked.roster) = treeAsked.nodes =>
        /\ {BigTree[i].idx : i \in 1..Len(BigTree)} = 0..(treeAsked.nodes - 1)
        /\ UsesList(treeAsked.roster, BigTree)

(* A child of a big tree is on the host of its parent only when no server that may *)
(* still be taken is on another host: those that no earlier node uses where all of *)
(* them must be used, any server otherwise.                                        *)
HostsApart == treeAsked # NoTree =>
    LET t == BigTree
        H(i) == Host(treeAsked.roster[t[i].idx + 1])
        Free(i) == IF Len(treeAsked.roster) = treeAsked.nodes
                   THEN 0..(Len(treeAsked.roster) - 1) \ {t[j].idx : j \in 1..(i - 1)}
                   ELSE 0..(Len(treeAsked.roster) - 1)
    IN \A i \in 2..Len(t) : H(i) = H(t[i].parent) =>
            \A k \in Free(i) : Host(treeAsked.roster[k + 1]) = H(i)

(* The server that receives the marshalled tree rebuilds it: the same nodes below the *)
(* same parents, in the same order and with the same servers, and with the same       *)
(* roster indices where no server is in the roster twice.                             *)
TreeTravels == treeAsked # NoTree =>
    LET t == BigTree
        made == MakeTreeFromList(treeAsked.roster, TreeMarshalCopyTree(treeAsked.roster, t, 1), 0)
    IN /\ [k \in 1..Len(made) |-> made[k][1]] = List(t, 1)
       /\ \A k \in 1..Len(made) :
            LET old == t[made[k][1]]
                new == made[k][2] IN
            /\ new.parent = old.parent
            /\ treeAsked.roster[new.idx + 1] = treeAsked.roster[old.idx + 1]
            /\ Cardinality(ToSet(treeAsked.roster)) = Len(treeAsked.roster) => new.idx = old.idx

(* The aggregate key at the root of a tree whose root was chosen is the aggregate of *)
(* the roster it was made from.                                                      *)
AggregateIsRoster == treeAsked # NoTree =>
    LET roster == WithRoot(treeAsked.roster, treeAsked.root) IN
    /\ computeSubtreeAggregate(roster, GenerateNaryTree(roster, treeAsked.N), 1) = Publics(treeAsked.roster)
    /\ Head(roster) = treeAsked.roster[treeAsked.root + 1]

(* Whatever roster, branching factor and number of nodes are asked for, both kinds of *)
(* trees are what the protocols take them for, where they are made and where they are *)
(* received.                                                                          *)
TreesAreRight == ListIsRoster /\ BigTreeIsExact /\ HostsApart /\ TreeTravels /\ AggregateIsRoster

=============================================================================
