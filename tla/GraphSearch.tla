----------------------------- MODULE GraphSearch -----------------------------
(***************************************************************************)
(* The grid of the Field D* search (igvc_navigation/GraphSearch): nodes on *)
(* the corners of occupancy cells, their neighbours, the cost of going     *)
(* from one to the next, the nodes to update when a cell changes, and the  *)
(* priority queue of nodes (Graph.cpp, Node.cpp, PriorityQueue.cpp).       *)
(*                                                                         *)
(* Costs are squared and in 255ths, so that the diagonal distance          *)
(* sqrt(2) is exact.  configuration_space_ and resolution_ are whole       *)
(* numbers of one unit, and a continuous position counts Unit steps to a   *)
(* cell.                                                                   *)
(***************************************************************************)
EXTENDS Integers, Sequences, FiniteSets

CONSTANTS
  length_, width_,             \* cells of the occupancy grid
  resolution_,                 \* size of a cell
  ConfigurationSpaces,         \* the values setConfigurationSpace may be called with
  Unit,                        \* steps of a continuous position per cell
  CellValues, MaxMarked,       \* bounds: values of cells, cells that are not free
  QueueNodes, KeyParts         \* bounds: nodes of the queue, parts of a key

ASSUME GridAssumption ==
  /\ length_ \in Nat \ {0} /\ width_ \in Nat \ {0}
  /\ resolution_ \in Nat \ {0} /\ Unit \in Nat \ {0}
  /\ 0 \in ConfigurationSpaces /\ ConfigurationSpaces \subseteq Nat
  /\ CellValues \subseteq 0..255 /\ MaxMarked \in Nat
  /\ KeyParts \subseteq Nat

\* A cell above this is occupied: occupancy_threshold_uchar_ is 178.5.
occupancy_threshold_uchar_ == 178
TRAVERSAL_COST == 255
Infinity == 10000                            \* above every other cost; its square times two is an int

Cells == (0..length_-1) \X (0..width_-1)
Nodes == (0..length_) \X (0..width_)

Least(a, b) == IF a < b THEN a ELSE b
Greatest(a, b) == IF a < b THEN b ELSE a
Abs(n) == IF n < 0 THEN -n ELSE n
Squared(n) == n * n
DistanceSquared(s, t) == Squared(s[1] - t[1]) + Squared(s[2] - t[2])

-----------------------------------------------------------------------------
(* Nodes, positions and cells.                                             *)

isValidNode(s) == s[1] <= length_ /\ s[2] <= width_ /\ s[1] >= 0 /\ s[2] >= 0
isValidPosition(p) ==
  p[1] <= Unit * length_ /\ p[2] <= Unit * width_ /\ p[1] >= 0 /\ p[2] >= 0
isValidCell(c) == c[1] < length_ /\ c[2] < width_ /\ c[1] >= 0 /\ c[2] >= 0

isDiagonal(s, t) == Abs(t[1] - s[1]) = 1 /\ Abs(t[2] - s[2]) = 1

\* right, top right, above, top left, left, bottom left, bottom, bottom right
Around == << <<1, 0>>, <<1, 1>>, <<0, 1>>, <<-1, 1>>, <<-1, 0>>, <<-1, -1>>, <<0, -1>>, <<1, -1>> >>
Moved(s, d, unit) == <<s[1] + unit * d[1], s[2] + unit * d[2]>>
Next8(i) == (i % 8) + 1
\* Variant: clockwise is the same as counter-clockwise.
Previous8_Next(i) == (i % 8) + 1

Previous8(i) == ((i + 6) % 8) + 1

\* With include_invalid the order matters, without it the set is enough.
AllNbrs(s, unit) == [i \in 1..8 |-> Moved(s, Around[i], unit)]
nbrs(s) == {n \in {Moved(s, Around[i], 1) : i \in 1..8} : isValidNode(n)}

\* The pairs (s1,s2), ..., (s7,s8), (s8,s1) of valid neighbours, in this order:
\* the code's vector without the gaps.
consecutiveNeighbors(s) ==
  LET all == AllNbrs(s, 1)
  IN  [i \in {j \in 1..8 : isValidNode(all[j]) /\ isValidNode(all[Next8(j)])} |->
         <<all[i], all[Next8(i)]>>]

nbrsContinuous(p) ==
  LET all == AllNbrs(p, Unit)
  IN  [i \in {j \in 1..8 : isValidPosition(all[j]) /\ isValidPosition(all[Next8(j)])} |->
         <<all[i], all[Next8(i)]>>]

\* The neighbour of s after (before) its neighbour t.  If t is none, the node
\* that is returned was never set: its index is (0, 0).
NoNode == <<-1, -1>>                          \* Node(false), which is none of the grid
Turned(s, t, step) ==
  LET n == IF \E i \in 1..8 : t = Moved(s, Around[i], 1)
           THEN Moved(s, Around[step[CHOOSE i \in 1..8 : t = Moved(s, Around[i], 1)]], 1)
           ELSE <<0, 0>>
  IN  IF isValidNode(n) THEN n ELSE NoNode
counterClockwiseNeighbor(s, t) == Turned(s, t, [i \in 1..8 |-> Next8(i)])
clockwiseNeighbor(s, t) == Turned(s, t, [i \in 1..8 |-> Previous8(i)])

-----------------------------------------------------------------------------
(* The cost of traversing a cell, and of going from a node to the next.    *)

\* Variant: no cell is added for the rest of the division.
separation_Truncated(cs) == cs \div resolution_

\* The most occupied cell of the slice around c.  cv::Range is half open.
separation(cs) == cs \div resolution_ + 1

getValWithConfigurationSpace(map, cs, c) ==
  LET sep == separation(cs)
      slice == (Greatest(c[1] - sep, 0)..Least(c[1] + sep + 1, length_) - 1)
               \X (Greatest(c[2] - sep, 0)..Least(c[2] + sep + 1, width_) - 1)
  IN  IF ~isValidCell(c) THEN 255
      ELSE CHOOSE v \in {map[d] : d \in slice} : \A d \in slice : map[d] <= v

CellCost(val) == IF val > occupancy_threshold_uchar_ THEN Infinity ELSE TRAVERSAL_COST + val

\* The cell between s and a diagonal neighbour.
getC(map, cs, s, t) ==
  CellCost(getValWithConfigurationSpace(map, cs, <<Least(s[1], t[1]), Least(s[2], t[2])>>))

\* Variant: the cells of the edge are found from its first node.
EdgeCells_FromFirst(s, t) == {s, IF s[1] = t[1] THEN <<s[1] - 1, s[2]>> ELSE <<s[1], s[2] - 1>>}

\* The two cells on the sides of the edge between s and t.
EdgeCells(s, t) ==
  LET low == <<Least(s[1], t[1]), Least(s[2], t[2])>>
  IN  {low, IF s[1] = t[1] THEN <<low[1] - 1, low[2]>> ELSE <<low[1], low[2] - 1>>}

getB(map, cs, s, t) ==
  LET vals == {getValWithConfigurationSpace(map, cs, c) : c \in EdgeCells(s, t)}
  IN  CellCost(CHOOSE v \in vals : \A w \in vals : w <= v)

\* Squared: the distance is sqrt(2) or 1.
getTraversalCost(map, cs, s, t) ==
  IF isDiagonal(s, t) THEN 2 * Squared(getC(map, cs, s, t)) ELSE Squared(getB(map, cs, s, t))

\* roundf rounds halves away from zero, ceil0 rounds away from zero.
HalfUp(x) == (2 * x + Unit) \div (2 * Unit)
Rounded(x) == IF x >= 0 THEN HalfUp(x) ELSE -HalfUp(-x)
Up(x) == (x + Unit - 1) \div Unit
Ceil0(x) == IF x >= 0 THEN Up(x) ELSE -Up(-x)
castToNode(p) == <<Rounded(p[1]), Rounded(p[2])>>
getContinuousTraversalCost(map, cs, p, q) ==
  LET s == castToNode(p)
      t == <<s[1] + Ceil0(q[1] - p[1]), s[2] + Ceil0(q[2] - p[2])>>
  IN  IF isDiagonal(s, t) THEN getC(map, cs, s, t) ELSE getB(map, cs, s, t)

getMinTraversalCost(map, cs, s) ==
  LET costs == {Squared(Infinity)} \cup
               {getTraversalCost(map, cs, s, t) : t \in nbrs(s)}
  IN  CHOOSE c \in costs : \A d \in costs : c <= d

euclidianHeuristicSquared(start, s) == DistanceSquared(start, s)

-----------------------------------------------------------------------------
(* A new map: the cells that changed, and the nodes around one of them.    *)

\* updateGraph goes through the two images in row order.
CellAt(pos) == <<pos \div width_, pos % width_>>
updated_cells(old, new) ==
  {c \in {CellAt(pos) : pos \in 0..(length_ * width_ - 1)} : old[c] # new[c]}

\* Variant: near nodes are not put on the open list.
getNodesAroundCellWithConfigurationSpace_OneRound(cs, cell) ==
  {cell} \cup {n \in Nodes : /\ DistanceSquared(cell, n) < Squared((cs + resolution_ - 1) \div resolution_)
                             /\ \E i \in 1..8 : n = Moved(cell, Around[i], 1)}

\* Breadth first from the cell's lower corner over the nodes that are nearer
\* than the configuration space.  A node that is not is only marked as seen.
IsNear(cs, cell, n) == DistanceSquared(cell, n) < Squared((cs + resolution_ - 1) \div resolution_)
WithNeighbours(cs, cell, nodes) ==
  nodes \cup {n \in Nodes : /\ IsNear(cs, cell, n)
                            /\ \E m \in nodes : \E i \in 1..8 : n = Moved(m, Around[i], 1)}
getNodesAroundCellWithConfigurationSpace(cs, cell) ==
  LET found[k \in Nat] == IF k = 0 THEN {cell} ELSE WithNeighbours(cs, cell, found[k - 1])
  IN  found[length_ + width_]

-----------------------------------------------------------------------------
(* The priority queue: a std::set of <<node, key>> that compares only keys,*)
(* and with <=.  An entry is never found equal to another one, and goes    *)
(* before those of the same key.                                           *)

\* Variant: the second part of the key is not compared.
KeyBefore_FirstPart(k, l) == k[1] <= l[1]

KeyBefore(k, l) == k[1] < l[1] \/ (k[1] = l[1] /\ k[2] <= l[2])

Insert(q, n, k) ==
  LET before == {i \in DOMAIN q : ~KeyBefore(k, q[i].key)}
  IN  SubSeq(q, 1, Cardinality(before)) \o << [node |-> n, key |-> k] >>
        \o SubSeq(q, Cardinality(before) + 1, Len(q))
Contains(q, n) == \E i \in DOMAIN q : q[i].node = n
Remove(q, n) ==
  IF ~Contains(q, n) THEN q
  ELSE LET it == CHOOSE i \in DOMAIN q : q[i].node = n /\ \A j \in 1..(i-1) : q[j].node # n
       IN  SubSeq(q, 1, it - 1) \o SubSeq(q, it + 1, Len(q))
Pop(q) == IF q = <<>> THEN q ELSE Tail(q)

-----------------------------------------------------------------------------
(* The graph and the queue, under the calls a search makes.  No program of *)
(* the repository is linked with this library.                             *)

VARIABLES
  map_,                        \* the occupancy grid: a value of 0..255 per cell
  configuration_space_,
  updated_cells_,              \* cells the last updateGraph found changed
  pq_,                         \* the queue
  entries                      \* what has been inserted and not taken out again

graphVars == <<map_, configuration_space_, updated_cells_>>
queueVars == <<pq_, entries>>

Keys == KeyParts \X KeyParts
Entries == [node : QueueNodes, key : Keys]

\* A graph that has no map yet.
NoMap == <<>>

GraphTypeOK ==
  /\ map_ = NoMap \/ map_ \in [Cells -> 0..255]
  /\ configuration_space_ \in ConfigurationSpaces
  /\ updated_cells_ \subseteq Cells
  /\ pq_ \in Seq(Entries) /\ entries \subseteq Entries

GraphInit == map_ = NoMap /\ configuration_space_ = 0 /\ updated_cells_ = {}

\* The first map, and setConfigurationSpace before it.
initializeGraph ==
  /\ map_ = NoMap
  /\ map_' = [c \in Cells |-> 0]
  /\ configuration_space_' \in ConfigurationSpaces
  /\ updated_cells_' = {}

EmptyQueue == pq_ = <<>> /\ entries = {}

\* A grid in which one cell has another value, at most MaxMarked are not free.
updateGraph ==
  /\ map_ # NoMap
  /\ \E c \in Cells, v \in CellValues :
       LET new == [map_ EXCEPT ![c] = v]
       IN  /\ Cardinality({d \in Cells : new[d] # 0}) <= MaxMarked
           /\ updated_cells_' = updated_cells(map_, new)
           /\ map_' = new
  /\ UNCHANGED configuration_space_

\* A search inserts a node that is not in the queue; to give one another key
\* it removes the node first.
PushNode ==
  \E n \in QueueNodes, k \in Keys :
    /\ ~Contains(pq_, n)
    /\ pq_' = Insert(pq_, n, k)
    /\ entries' = entries \cup {[node |-> n, key |-> k]}

RemoveNode ==
  \E n \in QueueNodes :
    /\ Contains(pq_, n)
    /\ pq_' = Remove(pq_, n)
    /\ entries' = {e \in entries : e.node # n}

PopNode ==
  /\ pq_ # <<>>
  /\ entries' = entries \ {pq_[1]}
  /\ pq_' = Pop(pq_)

GraphNext == initializeGraph \/ updateGraph
GraphSpec == GraphInit /\ [][GraphNext]_graphVars

QueueNext == PushNode \/ RemoveNode \/ PopNode
QueueSpec == EmptyQueue /\ [][QueueNext]_queueVars

-----------------------------------------------------------------------------
(* Properties.                                                             *)

\* How far, in cells, a node is from a cell, squared.
Gap(x, c) == IF x <= c THEN c - x ELSE x - c - 1
DistanceToCell(s, c) == Squared(Gap(s[1], c[1])) + Squared(Gap(s[2], c[2]))

\* A step of finite cost keeps the robot's configuration space clear of every
\* occupied cell, from both ends: getC and getB look at a slice of cells whose
\* ends are clipped to the grid, with a half open range and a radius that is
\* truncated to whole cells.  Nothing keeps a diagonal step off the border.
KeepsClearance ==
  map_ # NoMap => \A s \in Nodes : \A t \in nbrs(s) :
    getTraversalCost(map_, configuration_space_, s, t) < Squared(Infinity) =>
      \A c \in Cells : \A n \in {s, t} :
        map_[c] > occupancy_threshold_uchar_ =>
          DistanceToCell(n, c) * Squared(resolution_) > Squared(configuration_space_)

\* A step costs the same both ways, and no less than its length: the cells it
\* crosses are found from either end, in all eight directions, and the
\* heuristic and the least cost around a node are lower bounds.
CostsAreConsistent ==
  map_ # NoMap => \A s \in Nodes : \A t \in nbrs(s) :
    LET cost == getTraversalCost(map_, configuration_space_, s, t)
    IN  /\ cost = getTraversalCost(map_, configuration_space_, t, s)
        /\ cost >= Squared(TRAVERSAL_COST) * euclidianHeuristicSquared(s, t)
        /\ cost >= getMinTraversalCost(map_, configuration_space_, t)

\* The neighbours of a node are found in three ways that agree: turning around
\* it, and back; its list of pairs; and the pairs around a continuous position
\* that happens to be a node, with the cost of going there.  The pairs go
\* counter-clockwise, as in the figure of Graph.h:282-284, not clockwise as
\* the sentence above it says.
NeighboursAgree ==
  map_ # NoMap => \A s \in Nodes :
    LET p == <<Unit * s[1], Unit * s[2]>>
        cpairs == nbrsContinuous(p)
        pairs == consecutiveNeighbors(s)
    IN  /\ \A t \in nbrs(s) :
             LET u == counterClockwiseNeighbor(s, t)
             IN  IF u = NoNode THEN \A j \in DOMAIN pairs : pairs[j][1] # t
                 ELSE clockwiseNeighbor(s, u) = t /\ \E j \in DOMAIN pairs : pairs[j] = <<t, u>>
        /\ [i \in DOMAIN cpairs |-> <<castToNode(cpairs[i][1]), castToNode(cpairs[i][2])>>] = pairs
        /\ \A i \in DOMAIN cpairs : \A j \in 1..2 :
             LET t == castToNode(cpairs[i][j])
                 cost == getContinuousTraversalCost(map_, configuration_space_, p, cpairs[i][j])
             IN  getTraversalCost(map_, configuration_space_, s, t)
                   = IF isDiagonal(s, t) THEN 2 * Squared(cost) ELSE Squared(cost)

CornersOf(c) == {c[1], c[1] + 1} \X {c[2], c[2] + 1}

\* What the breadth first search around a changed cell finds.  It starts at
\* the lower corner and never goes on from a node that is not near, yet it
\* misses no node nearer to that corner than the configuration space, goes no
\* further than a cell beyond it, and reaches the four corners of the cell,
\* which Graph.h:137 says are updated, if the configuration space is larger
\* than a cell.  These are not all the nodes who might be affected by the cell,
\* as Graph.h:366 has it: the slice of cells that getC looks at reaches further.
NearNodesFound ==
  \A c \in updated_cells_ :
    LET found == getNodesAroundCellWithConfigurationSpace(configuration_space_, c)
        Away(n) == DistanceSquared(c, n) * Squared(resolution_)
    IN  /\ \A n \in Nodes : Away(n) < Squared(configuration_space_) => n \in found
        /\ \A n \in found \ {c} : Away(n) < Squared(configuration_space_ + resolution_)
        /\ configuration_space_ > resolution_ => CornersOf(c) \subseteq found

\* The queue holds what was inserted, its first entry has the least key, and
\* an entry is neither lost nor kept by a comparison that is not a strict
\* order.
QueueInOrder ==
  /\ {pq_[i] : i \in DOMAIN pq_} = entries
  /\ Len(pq_) = Cardinality(entries)
  /\ \A i, j \in DOMAIN pq_ : LET k == pq_[i].key l == pq_[j].key
                                IN  i < j => k[1] < l[1] \/ (k[1] = l[1] /\ k[2] <= l[2])
=============================================================================
