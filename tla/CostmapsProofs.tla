--------------------------- MODULE CostmapsProofs ---------------------------
(***************************************************************************)
(* A layer's costmap lags behind its grid map only in the dirty window and *)
(* where a write fell into an update, and the master costmap shows what    *)
(* the grid maps hold: for maps of any size, any layers, any messages and  *)
(* any interleaving of the threads.                                        *)
(***************************************************************************)
EXTENDS Costmaps, LocalCostmap, TLAPS

\* Different cells have different places in the array of a costmap.
LEMMA RowsDoNotOverlap ==
  ASSUME NEW W \in Nat, NEW a \in Nat, NEW b \in Nat, a < b
  PROVE  a * W + W <= b * W
<1>1. PICK d \in Nat : b = a + 1 + d
  <2>1. b - a - 1 \in Nat  OBVIOUS
  <2>2. b = a + 1 + (b - a - 1)  OBVIOUS
  <2> QED  BY <2>1, <2>2
<1>2. b * W = a * W + W + d * W  BY <1>1
<1>3. d * W \in Nat  BY <1>1
<1>4. a * W \in Nat /\ b * W \in Nat  OBVIOUS
<1> QED  BY <1>2, <1>3, <1>4

\* Two cells have two linear indices.
LEMMA LinearInjective ==
  ASSUME NEW a \in Index, NEW b \in Index,
         getLinearIndexFromIndex(a) = getLinearIndexFromIndex(b)
  PROVE  a = b
<1>1. /\ a[1] \in 0..(SizeX - 1) /\ a[2] \in 0..(SizeY - 1) /\ a = <<a[1], a[2]>>
      /\ b[1] \in 0..(SizeX - 1) /\ b[2] \in 0..(SizeY - 1) /\ b = <<b[1], b[2]>>
      /\ SizeX \in Nat /\ SizeY \in Nat
  BY CostmapsAssumption DEF Index
<1> DEFINE p == a[2] * SizeX
           q == b[2] * SizeX
<1>2. p \in Nat /\ q \in Nat /\ p + a[1] = q + b[1]
  BY <1>1 DEF getLinearIndexFromIndex
<1>3. CASE a[2] < b[2]
  <2>1. p + SizeX <= q  BY <1>1, <1>3, RowsDoNotOverlap
  <2> HIDE DEF p, q
  <2> QED  BY <1>1, <1>2, <2>1
<1>4. CASE b[2] < a[2]
  <2>1. q + SizeX <= p  BY <1>1, <1>4, RowsDoNotOverlap
  <2> HIDE DEF p, q
  <2> QED  BY <1>1, <1>2, <2>1
<1>5. CASE a[2] = b[2]
  <2>1. p = q  BY <1>5
  <2> HIDE DEF p, q
  <2>2. a[1] = b[1]  BY <1>1, <1>2, <2>1
  <2> QED  BY <1>1, <1>5, <2>2
<1> QED  BY <1>1, <1>3, <1>4, <1>5

\* Two cells have two places in the array of costs.
LEMMA CharIndexInjective ==
  ASSUME NEW a \in Index, NEW b \in Index, CharIndex(a) = CharIndex(b)
  PROVE  a = b
<1>1. /\ getLinearIndexFromIndex(a) \in Int /\ getLinearIndexFromIndex(b) \in Int
      /\ NumCells \in Int
  BY CostmapsAssumption DEF Index, getLinearIndexFromIndex, NumCells
<1>2. getLinearIndexFromIndex(a) = getLinearIndexFromIndex(b)
  BY <1>1 DEF CharIndex
<1> QED  BY <1>2, LinearInjective

\* These places are in the array.
LEMMA CharIndexInArray ==
  ASSUME NEW a \in Index
  PROVE  CharIndex(a) \in 0..(NumCells - 1)
<1>1. /\ a[1] \in 0..(SizeX - 1) /\ a[2] \in 0..(SizeY - 1)
      /\ SizeX \in Nat \ {0} /\ SizeY \in Nat \ {0}
  BY CostmapsAssumption DEF Index
<1> DEFINE p == a[2] * SizeX
           n == SizeY * SizeX
<1>2. p \in Nat /\ n \in Nat  BY <1>1
<1>3. p + SizeX <= n  BY <1>1, RowsDoNotOverlap
<1>4. NumCells = n  BY <1>1 DEF NumCells
<1>5. CharIndex(a) = n - (p + a[1]) - 1
  BY <1>4 DEF CharIndex, getLinearIndexFromIndex
<1> HIDE DEF p, n
<1> QED  BY <1>1, <1>2, <1>3, <1>4, <1>5

-----------------------------------------------------------------------------
Limits == [min : Int \X Int, max : Int \X Int]

MapsOK ==
  /\ logodds \in [Layers -> [Index -> Int]]
  /\ dirty \in [Layers -> Limits]
  /\ costmap_2d_ \in [Layers -> [0..(NumCells - 1) -> Int]]
  /\ lost \in [Layers -> SUBSET Index]

CallbackOK ==
  /\ callback.touched => callback.left # {}
  /\ callback.left # {} =>
       callback.layer \in Layers /\ \A todo \in callback.left : todo[1] \in Index
  /\ callback.touched /\ ~callback.undone => Todo[1] \in DirtyCells(callback.layer)

CycleOK ==
  /\ cycle \in [phase : {"idle", "bounds", "transfer", "combine"}, next : Nat \ {0}]
  /\ cycle.phase \in {"transfer", "combine"} => cycle.next <= Len(Plugins)

\* Between the two halves of updateCosts, the layer's costmap lags only where a
\* cell was touched since the first.
Transferred ==
  cycle.phase = "combine" =>
    \A index \in Index \ lost[Plugins[cycle.next]] :
      costmap_2d_[Plugins[cycle.next]][CharIndex(index)] = Cost(logodds[Plugins[cycle.next]][index])

LagInv == MapsOK /\ CallbackOK /\ CycleOK /\ LagsOnlyWhereDirty /\ Transferred

\* Costs are numbers.
LEMMA CostIsInt == ASSUME NEW level \in Int PROVE Cost(level) \in Int
BY DEF Cost, LETHAL_OBSTACLE, FREE_SPACE

\* The costmaps start like the grid maps.
LEMMA LagInvInit == CostmapInit => LagInv
<1> SUFFICES ASSUME CostmapInit PROVE LagInv  OBVIOUS
<1>1. MapsOK
  <2>1. Untouched \in Limits  BY DEF Untouched, Limits, IntMax
  <2> QED  BY <2>1 DEF CostmapInit, MapsOK, FREE_SPACE
<1>2. CallbackOK  BY DEF CostmapInit, CallbackOK, NoCallback, Working
<1>3. CycleOK  BY DEF CostmapInit, CycleOK
<1>4. LagsOnlyWhereDirty
  BY CharIndexInArray DEF CostmapInit, LagsOnlyWhereDirty, Cost, FREE_SPACE
<1>5. Transferred  BY DEF CostmapInit, Transferred
<1> QED  BY <1>1, <1>2, <1>3, <1>4, <1>5 DEF LagInv

\* A callback that starts has cells of the map to mark.
LEMMA CallbackStartsOK ==
  ASSUME LagInv, NEW l, NEW cells, CallbackStarts(l, cells),
         \A todo \in cells : todo[1] \in Index
  PROVE  LagInv'
<1>1. CallbackOK'
  BY DEF CallbackStarts, CallbackOK, NoCallback, Working
<1>2. (MapsOK /\ CycleOK /\ LagsOnlyWhereDirty /\ Transferred)'
  BY DEF LagInv, CallbackStarts, updateVars, MapsOK, CycleOK, LagsOnlyWhereDirty, Transferred, DirtyCells
<1> QED  BY <1>1, <1>2 DEF LagInv

\* The traversability layer's callback changes only touched cells of its grid map.
LEMMA SlopeKeepsInv == ASSUME LagInv, slopeMapCallback PROVE LagInv'
<1> DEFINE Steps(slope) ==
      {<<getIndex(pos), IF slope[pos] THEN 1 ELSE -1>> : pos \in {p \in DOMAIN slope : isInside(p)}}
<1>1. PICK slope \in SlopeMaps : CallbackStarts("traversability", Steps(slope))
  BY DEF slopeMapCallback
<1>2. \A todo \in Steps(slope) : todo[1] \in Index
  BY CostmapsAssumption DEF isInside, getIndex, Index
<1> HIDE DEF Steps
<1> QED  BY <1>1, <1>2, CallbackStartsOK

\* So does that of the line layer.
LEMMA ImageKeepsInv == ASSUME LagInv, imageSyncedCallback PROVE LagInv'
<1>1. PICK image \in Images, lines \in SUBSET Buffer2, freespace \in SUBSET Buffer2 :
        CallbackStarts("line",
             {<<index, IF Near(index, image.camera) THEN 1 ELSE 0>> :
                 index \in {MapIndex(c, image.camera) : c \in lines}}
        \cup {<<index, IF Near(index, image.camera) THEN -1 ELSE 0>> :
                 index \in {MapIndex(c, image.camera) : c \in freespace}})
  <2>1. \A cells : Closed(cells) \subseteq Buffer2  BY DEF Closed
  <2> QED  BY <2>1 DEF imageSyncedCallback
<1> DEFINE Steps ==
             {<<index, IF Near(index, image.camera) THEN 1 ELSE 0>> :
                 index \in {MapIndex(c, image.camera) : c \in lines}}
        \cup {<<index, IF Near(index, image.camera) THEN -1 ELSE 0>> :
                 index \in {MapIndex(c, image.camera) : c \in freespace}}
<1>2. \A todo \in Steps : todo[1] \in Index
  BY ImagesAssumption
<1> HIDE DEF Steps
<1>3. CallbackStarts("line", Steps)  BY <1>1 DEF Steps
<1> QED  BY <1>2, <1>3, CallbackStartsOK

\* What touch returns holds the old window and the cell.
LEMMA TouchExtends ==
  ASSUME NEW d \in Limits, NEW index \in Int \X Int
  PROVE  /\ touch(d, index) \in Limits
         /\ \A i \in 1..2 : /\ touch(d, index).min[i] <= index[i] /\ index[i] <= touch(d, index).max[i]
                            /\ touch(d, index).min[i] <= d.min[i] /\ d.max[i] <= touch(d, index).max[i]
BY DEF touch, Limits, Lower, Higher

\* The cell that the callback is at is one of the layer's map.
LEMMA TodoIsCell ==
  ASSUME LagInv, callback.left # {}
  PROVE  /\ Todo \in callback.left /\ callback.layer \in Layers
         /\ Todo[1] \in Index /\ Todo[1] \in Int \X Int
<1>1. Todo \in callback.left
  BY DEF Todo
<1>2. callback.layer \in Layers /\ Todo[1] \in Index
  BY <1>1 DEF LagInv, CallbackOK
<1>3. Todo[1] \in Int \X Int
  BY <1>2, CostmapsAssumption DEF Index
<1>. QED
  BY <1>1, <1>2, <1>3

\* A touch takes no cell out of a window.
LEMMA TouchKeepsDirty ==
  ASSUME LagInv, TouchCell, NEW m \in Layers
  PROVE  dirty'[m] \in Limits /\ DirtyCells(m) \subseteq DirtyCells(m)'
<1>. DEFINE l == callback.layer
            index == Todo[1]
            after == touch(dirty[l], index)
<1>1. l \in Layers /\ index \in Int \X Int /\ dirty[m] \in Limits /\ dirty[l] \in Limits
  BY TodoIsCell DEF TouchCell, LagInv, MapsOK
<1>2. dirty' = [dirty EXCEPT ![l] = after]
  BY DEF TouchCell
<1>3. /\ after \in Limits
      /\ \A k \in 1..2 : after.min[k] <= dirty[l].min[k] /\ dirty[l].max[k] <= after.max[k]
  BY <1>1, TouchExtends
<1>. HIDE DEF after, l, index
<1>4. CASE m # l
  BY <1>1, <1>2, <1>4 DEF LagInv, MapsOK, DirtyCells
<1>5. CASE m = l
  <2>1. dirty'[m] = after
    BY <1>1, <1>2, <1>5 DEF LagInv, MapsOK
  <2>2. ASSUME NEW i \in Index, NEW k \in 1..2, dirty[m].min[k] <= i[k], i[k] <= dirty[m].max[k]
        PROVE  after.min[k] <= i[k] /\ i[k] <= after.max[k]
    <3>1. i[k] \in Int
      BY CostmapsAssumption DEF Index
    <3>2. after.min[k] \in Int /\ after.max[k] \in Int /\ dirty[m].min[k] \in Int /\ dirty[m].max[k] \in Int
      BY <1>1, <1>3 DEF Limits
    <3>3. after.min[k] <= dirty[m].min[k] /\ dirty[m].max[k] <= after.max[k]
      BY <1>3, <1>5
    <3>. QED
      BY <2>2, <3>1, <3>2, <3>3
  <2>. QED
    BY <1>3, <2>1, <2>2 DEF DirtyCells
<1>. QED
  BY <1>4, <1>5

\* Touching a cell changes nothing that its costmap shows.
LEMMA TouchKeepsInv == ASSUME LagInv, TouchCell PROVE LagInv'
<1>1. /\ UNCHANGED <<logodds, lost, costmap_2d_, cycle>>
      /\ callback' = [callback EXCEPT !.touched = TRUE] /\ callback.left # {}
  BY DEF TouchCell, updateVars
<1>2. MapsOK'
  <2>1. dirty' \in [Layers -> Limits]
    <3>1. DOMAIN dirty = Layers /\ DOMAIN dirty' = Layers
      BY DEF TouchCell, LagInv, MapsOK
    <3>2. dirty' = [m \in Layers |-> dirty'[m]]
      BY <3>1 DEF TouchCell, LagInv, MapsOK
    <3>. QED
      BY <3>2, TouchKeepsDirty
  <2>. QED
    BY <1>1, <2>1 DEF LagInv, MapsOK
<1>3. CallbackOK'
  <2>1. callback'.left = callback.left /\ callback'.layer = callback.layer
    BY <1>1 DEF LagInv, CallbackOK
  <2>2. Todo' = Todo
    BY <2>1 DEF Todo
  <2>3. Todo[1] \in DirtyCells(callback.layer)'
    <3>. DEFINE l == callback.layer
                index == Todo[1]
    <3>1. l \in Layers /\ index \in Index /\ index \in Int \X Int /\ dirty[l] \in Limits
      BY <1>1, TodoIsCell DEF LagInv, MapsOK
    <3>2. dirty'[l] = touch(dirty[l], index)
      BY <3>1 DEF TouchCell, LagInv, MapsOK
    <3>. HIDE DEF l, index
    <3>3. \A i \in 1..2 : dirty'[l].min[i] <= index[i] /\ index[i] <= dirty'[l].max[i]
      BY <3>1, <3>2, TouchExtends
    <3>4. index \in {k \in Index : \A i \in 1..2 : dirty'[l].min[i] <= k[i] /\ k[i] <= dirty'[l].max[i]}
      BY <3>1, <3>3
    <3>. QED
      BY <2>1, <3>4 DEF DirtyCells, l, index
  <2>4. callback'.left # {} /\ (callback'.left # {} =>
           callback'.layer \in Layers /\ \A todo \in callback'.left : todo[1] \in Index)
    BY <1>1, <2>1 DEF LagInv, CallbackOK
  <2>5. Todo'[1] \in DirtyCells(callback.layer)'
    BY <2>2, <2>3
  <2>. QED
    BY <2>4, <2>5 DEF CallbackOK
<1>4. LagsOnlyWhereDirty'
  BY <1>1, TouchKeepsDirty DEF LagInv, LagsOnlyWhereDirty
<1>. QED
  BY <1>1, <1>2, <1>3, <1>4 DEF LagInv, CycleOK, Transferred

\* A write changes the log odds of a cell that is lost or will be copied.
LEMMA MarkWrites ==
  ASSUME LagInv, MarkCell, NEW m \in Layers
  PROVE  /\ UNCHANGED dirty /\ lost[m] \subseteq lost'[m] /\ lost'[m] \subseteq Index
         /\ \A i \in Index :
              /\ i \notin lost'[m]
              /\ i \notin DirtyCells(m) \/ (cycle.phase = "combine" /\ m = Plugins[cycle.next])
              => logodds'[m][i] = logodds[m][i]
<1>. DEFINE l == callback.layer
            index == Todo[1]
            step == Todo[2]
            gone == step # 0 /\ ((cycle.phase = "combine" /\ Plugins[cycle.next] = l)
                                   \/ callback.undone)
<1>1. l \in Layers /\ index \in Index
  BY TodoIsCell DEF MarkCell, LagInv, CallbackOK
<1>2. /\ logodds' = [logodds EXCEPT ![l][index] = Marked(logodds[l][index], step)]
      /\ lost' = IF gone THEN [lost EXCEPT ![l] = lost[l] \cup {index}] ELSE lost
      /\ UNCHANGED dirty
  BY DEF MarkCell
<1>3. logodds \in [Layers -> [Index -> Int]] /\ lost \in [Layers -> SUBSET Index]
  BY DEF LagInv, MapsOK
<1>4. step = 0 => Marked(logodds[l][index], step) = logodds[l][index]
  BY DEF Marked
<1>5. ~gone /\ step # 0 => /\ ~(cycle.phase = "combine" /\ Plugins[cycle.next] = l)
                            /\ index \in DirtyCells(l)
  BY DEF MarkCell, LagInv, CallbackOK
<1>. HIDE DEF gone, l, index, step
<1>6. lost[m] \subseteq lost'[m] /\ lost'[m] \subseteq Index
  BY <1>1, <1>2, <1>3
<1>7. ASSUME NEW i \in Index, i \notin lost'[m],
             i \notin DirtyCells(m) \/ (cycle.phase = "combine" /\ m = Plugins[cycle.next])
      PROVE  logodds'[m][i] = logodds[m][i]
  <2>1. CASE m # l \/ i # index
    BY <1>1, <1>2, <1>3, <2>1
  <2>2. CASE m = l /\ i = index
    <3>1. ~gone
      BY <1>1, <1>2, <1>3, <1>7, <2>2
    <3>2. step = 0
      BY <1>5, <1>7, <2>2, <3>1
    <3>. QED
      BY <1>1, <1>2, <1>3, <1>4, <2>2, <3>2
  <2>. QED
    BY <2>1, <2>2
<1>. QED
  BY <1>2, <1>6, <1>7

\* A cell that is written is in the window and will be copied, or is lost.
LEMMA MarkKeepsInv == ASSUME LagInv, MarkCell PROVE LagInv'
<1>. DEFINE l == callback.layer
            index == Todo[1]
<1>1. l \in Layers /\ index \in Index
  BY TodoIsCell DEF MarkCell, LagInv, CallbackOK
<1>2. UNCHANGED <<dirty, costmap_2d_, cycle>>
  BY DEF MarkCell, updateVars
<1>3. logodds' \in [Layers -> [Index -> Int]]
  <2>1. logodds[l][index] \in Int /\ logodds \in [Layers -> [Index -> Int]]
    BY <1>1 DEF LagInv, MapsOK
  <2>2. Marked(logodds[l][index], Todo[2]) \in Int
    BY <2>1, CostmapsAssumption DEF Marked, markHit, markEmpty, Lower, Higher
  <2>3. logodds' = [logodds EXCEPT ![l][index] = Marked(logodds[l][index], Todo[2])]
    BY DEF MarkCell
  <2>. HIDE DEF l, index
  <2>. QED
    BY <1>1, <2>1, <2>2, <2>3
<1>4. lost' \in [Layers -> SUBSET Index]
  BY <1>1 DEF MarkCell, LagInv, MapsOK
<1>5. MapsOK'
  BY <1>2, <1>3, <1>4 DEF LagInv, MapsOK
<1>6. CallbackOK'
  BY DEF MarkCell, LagInv, CallbackOK, NoCallback, Working
<1>7. CycleOK'
  BY <1>2 DEF LagInv, CycleOK
<1>8. Transferred'
  <2>. DEFINE m == Plugins[cycle.next]
  <2>. SUFFICES ASSUME cycle.phase = "combine", NEW i \in Index, i \notin lost'[m]
                PROVE  costmap_2d_[m][CharIndex(i)] = Cost(logodds'[m][i])
    BY <1>2 DEF Transferred
  <2>1. m \in Layers
    BY CostmapsAssumption DEF LagInv, CycleOK, Layers
  <2>2. i \notin lost[m] /\ logodds'[m][i] = logodds[m][i]
    BY <2>1, MarkWrites
  <2>. HIDE DEF m
  <2>3. costmap_2d_[m][CharIndex(i)] = Cost(logodds[m][i])
    BY <2>2 DEF LagInv, Transferred, m
  <2>. QED
    BY <2>2, <2>3
<1>9. LagsOnlyWhereDirty'
  <2>. SUFFICES ASSUME NEW m \in Layers, NEW i \in Index, i \notin lost'[m], i \notin DirtyCells(m)
                PROVE  costmap_2d_[m][CharIndex(i)] = Cost(logodds'[m][i])
    BY <1>2 DEF LagsOnlyWhereDirty, DirtyCells
  <2>1. i \notin lost[m] /\ logodds'[m][i] = logodds[m][i]
    BY MarkWrites
  <2>. QED
    BY <2>1 DEF LagInv, LagsOnlyWhereDirty
<1>. QED
  BY <1>5, <1>6, <1>7, <1>8, <1>9 DEF LagInv

\* Copying the window brings its cells up to date.
LEMMA TransferKeepsInv == ASSUME LagInv, TransferToCostmap PROVE LagInv'
<1> DEFINE l == Plugins[cycle.next]
           cells == DirtyCells(l)
<1>1. l \in Layers /\ cycle.next \in 1..Len(Plugins)
  BY CostmapsAssumption DEF LagInv, CycleOK, TransferToCostmap, Layers
<1>2. /\ costmap_2d_' = [costmap_2d_ EXCEPT ![l] =
           [k \in DOMAIN costmap_2d_[l] |->
              IF k \in {CharIndex(c) : c \in cells}
              THEN Cost(logodds[l][CHOOSE c \in cells : CharIndex(c) = k])
              ELSE costmap_2d_[l][k]]]
      /\ cycle' = [cycle EXCEPT !.phase = "combine"]
      /\ lost' = [lost EXCEPT ![l] = lost[l] \ cells]
      /\ UNCHANGED <<logodds, dirty, callback>>
  BY DEF TransferToCostmap
<1>3. costmap_2d_[l] \in [0..(NumCells - 1) -> Int] /\ logodds[l] \in [Index -> Int]
  BY <1>1 DEF LagInv, MapsOK
<1>4. cells \subseteq Index  BY DEF DirtyCells
<1>5. ASSUME NEW i \in Index, i \notin lost'[l]
      PROVE  costmap_2d_'[l][CharIndex(i)] = Cost(logodds[l][i])
  <2>1. costmap_2d_'[l][CharIndex(i)] =
          IF CharIndex(i) \in {CharIndex(c) : c \in cells}
          THEN Cost(logodds[l][CHOOSE c \in cells : CharIndex(c) = CharIndex(i)])
          ELSE costmap_2d_[l][CharIndex(i)]
    BY <1>1, <1>2, <1>3, CharIndexInArray DEF LagInv, MapsOK
  <2>2. CASE CharIndex(i) \in {CharIndex(c) : c \in cells}
    <3>1. PICK c \in cells : CharIndex(c) = CharIndex(i)  BY <2>2
    <3>2. (CHOOSE d \in cells : CharIndex(d) = CharIndex(i)) = i
      BY <3>1, <1>4, CharIndexInjective
    <3> QED  BY <2>1, <2>2, <3>2
  <2>3. CASE CharIndex(i) \notin {CharIndex(c) : c \in cells}
    <3>1. i \notin cells  BY <2>3
    <3>2. i \notin lost[l]  BY <1>1, <1>2, <1>5, <3>1 DEF LagInv, MapsOK
    <3> QED  BY <1>1, <2>1, <2>3, <3>1, <3>2 DEF LagInv, LagsOnlyWhereDirty
  <2> QED  BY <2>2, <2>3
<1>6. ASSUME NEW m \in Layers, m # l PROVE costmap_2d_'[m] = costmap_2d_[m] /\ lost'[m] = lost[m]
  BY <1>2, <1>6 DEF LagInv, MapsOK
<1>7. MapsOK'
  <2>1. [k \in DOMAIN costmap_2d_[l] |->
              IF k \in {CharIndex(c) : c \in cells}
              THEN Cost(logodds[l][CHOOSE c \in cells : CharIndex(c) = k])
              ELSE costmap_2d_[l][k]] \in [0..(NumCells - 1) -> Int]
    BY <1>3, <1>4, CostIsInt
  <2> QED  BY <1>1, <1>2, <2>1 DEF LagInv, MapsOK
<1>8. CallbackOK'  BY <1>2 DEF LagInv, CallbackOK, Todo, DirtyCells
<1>9. CycleOK'  BY <1>1, <1>2 DEF LagInv, CycleOK
<1>10. LagsOnlyWhereDirty'
  <2> SUFFICES ASSUME NEW m \in Layers, NEW i \in Index, i \notin lost'[m], i \notin DirtyCells(m)
               PROVE  costmap_2d_'[m][CharIndex(i)] = Cost(logodds[m][i])
    BY <1>2 DEF LagsOnlyWhereDirty, DirtyCells
  <2>1. CASE m = l  BY <2>1, <1>5
  <2>2. CASE m # l  BY <2>2, <1>6 DEF LagInv, LagsOnlyWhereDirty
  <2> QED  BY <2>1, <2>2
<1>11. Transferred'
  <2>1. cycle'.next = cycle.next  BY <1>2 DEF LagInv, CycleOK
  <2> QED  BY <1>2, <1>5, <2>1 DEF Transferred
<1> QED  BY <1>7, <1>8, <1>9, <1>10, <1>11 DEF LagInv

\* So does the end of updateCosts.
LEMMA UpdateKeepsInv == ASSUME LagInv, UpdateCosts PROVE LagInv'
<1> DEFINE l == Plugins[cycle.next]
<1>1. l \in Layers /\ cycle.next \in 1..Len(Plugins) /\ cycle.phase = "combine"
  BY CostmapsAssumption DEF LagInv, CycleOK, UpdateCosts, Layers
<1>2. /\ dirty' = [dirty EXCEPT ![l] = Untouched]
      /\ callback' = IF callback.touched /\ callback.layer = l
                     THEN [callback EXCEPT !.undone = TRUE] ELSE callback
      /\ UNCHANGED <<logodds, lost, costmap_2d_>>
  BY DEF UpdateCosts
<1>3. cycle'.phase \in {"idle", "transfer"} /\ CycleOK'
  BY <1>1, CostmapsAssumption DEF LagInv, CycleOK, UpdateCosts
<1>4. MapsOK'
  BY <1>1, <1>2 DEF LagInv, MapsOK, Untouched, Limits, IntMax
<1>5. CallbackOK'
  <2>1. CASE callback.touched /\ callback.layer = l
    <3>1. callback' = [callback EXCEPT !.undone = TRUE]
      BY <1>2, <2>1
    <3>. QED
      BY <3>1 DEF LagInv, CallbackOK
  <2>2. CASE ~(callback.touched /\ callback.layer = l)
    <3>1. callback' = callback /\ Todo' = Todo
      BY <1>2, <2>2 DEF Todo
    <3>2. callback.touched => DirtyCells(callback.layer)' = DirtyCells(callback.layer)
      BY <1>2, <2>2, <3>1 DEF LagInv, MapsOK, CallbackOK, DirtyCells
    <3>. QED
      BY <3>1, <3>2 DEF LagInv, CallbackOK
  <2>. QED
    BY <2>1, <2>2
<1>6. LagsOnlyWhereDirty'
  <2> SUFFICES ASSUME NEW m \in Layers, NEW i \in Index, i \notin lost[m], i \notin DirtyCells(m)'
               PROVE  costmap_2d_[m][CharIndex(i)] = Cost(logodds[m][i])
    BY <1>2 DEF LagsOnlyWhereDirty
  <2>1. CASE m = l  BY <2>1, <1>1 DEF LagInv, Transferred
  <2>2. CASE m # l
    <3>1. dirty'[m] = dirty[m]  BY <2>2, <1>2 DEF LagInv, MapsOK
    <3> QED  BY <3>1 DEF LagInv, LagsOnlyWhereDirty, DirtyCells
  <2> QED  BY <2>1, <2>2
<1>7. Transferred'  BY <1>3 DEF Transferred
<1> QED  BY <1>3, <1>4, <1>5, <1>6, <1>7 DEF LagInv

\* The other steps of the update thread leave maps and dirty windows alone.
LEMMA RestKeepsInv ==
  ASSUME LagInv,
         UNCHANGED <<logodds, dirty, costmap_2d_, callback, lost>>,
         CycleOK', cycle'.phase # "combine" \/ UNCHANGED cycle
  PROVE  LagInv'
BY DEF LagInv, MapsOK, CallbackOK, LagsOnlyWhereDirty, Transferred, DirtyCells, Todo

\* Every step keeps the lag in its bounds.
LEMMA LagInvStep ==
  ASSUME LagInv, [CostmapNext]_costmapVars
  PROVE  LagInv'
<1> USE CostmapsAssumption
<1>0. Len(Plugins) \in Nat /\ (Plugins # <<>> => Len(Plugins) >= 1)  OBVIOUS
<1>1. CASE slopeMapCallback  BY <1>1, SlopeKeepsInv
<1>2. CASE imageSyncedCallback  BY <1>2, ImageKeepsInv
<1>3. CASE MarkCell  BY <1>3, MarkKeepsInv
<1>10. CASE TouchCell  BY <1>10, TouchKeepsInv
<1>4. CASE StartUpdate
  <2>1. CycleOK'  BY <1>4 DEF StartUpdate, CycleOK
  <2> QED  BY <1>4, <2>1, RestKeepsInv DEF StartUpdate, mapVars
<1>5. CASE updateBounds
  <2>1. CycleOK' /\ cycle'.phase = "bounds"  BY <1>5 DEF updateBounds, CycleOK, LagInv
  <2> QED  BY <1>5, <2>1, RestKeepsInv DEF updateBounds, mapVars
<1>6. CASE ResetWindow
  <2>1. CycleOK' /\ cycle'.phase # "combine"  BY <1>0, <1>6 DEF ResetWindow, CycleOK
  <2> QED  BY <1>6, <2>1, RestKeepsInv DEF ResetWindow, mapVars
<1>7. CASE TransferToCostmap  BY <1>7, TransferKeepsInv
<1>8. CASE UpdateCosts  BY <1>8, UpdateKeepsInv
<1>9. CASE UNCHANGED costmapVars
  <2>1. CycleOK'  BY <1>9 DEF costmapVars, updateVars, CycleOK, LagInv
  <2> QED  BY <1>9, <2>1, RestKeepsInv DEF costmapVars, mapVars, updateVars
<1> QED  BY <1>1, <1>2, <1>3, <1>4, <1>5, <1>6, <1>7, <1>8, <1>9, <1>10 DEF CostmapNext

\* In every behaviour, a cell whose costs are not those of its log odds is in the
\* dirty window of its layer, or was written inside of updateCosts, or after an
\* update that took it out of the window.
THEOREM CostmapsLag == CostmapSpec => []LagsOnlyWhereDirty
<1>1. LagInv => LagsOnlyWhereDirty  BY DEF LagInv
<1>2. LagInv /\ [CostmapNext]_costmapVars => LagInv'  BY LagInvStep
<1> QED  BY <1>1, <1>2, LagInvInit, PTL DEF CostmapSpec

-----------------------------------------------------------------------------
(* Between updates the master costmap shows what the layers' grid maps     *)
(* hold, but for the cells that have been touched since.                   *)

\* A cell has the same place in a layer's array and in the master's.
LEMMA PlaceOfPosition ==
  ASSUME NEW i \in Index
  PROVE  getPosition(i) \in Index /\ MasterIndex(getPosition(i)) = CharIndex(i)
<1>1. /\ i[1] \in 0..(SizeX - 1) /\ i[2] \in 0..(SizeY - 1)
      /\ SizeX \in Nat \ {0} /\ SizeY \in Nat \ {0}
  BY CostmapsAssumption DEF Index
<1>2. getPosition(i) \in Index
  BY <1>1 DEF getPosition, Index
<1>3. MasterIndex(getPosition(i)) = (SizeY - 1 - i[2]) * SizeX + (SizeX - 1 - i[1])
  BY <1>1 DEF MasterIndex, getPosition
<1>4. (SizeY - 1 - i[2]) * SizeX = SizeX * SizeY - SizeX - i[2] * SizeX
  BY <1>1
<1>5. CharIndex(i) = SizeX * SizeY - (i[2] * SizeX + i[1]) - 1
  BY DEF CharIndex, NumCells, getLinearIndexFromIndex
<1>6. SizeX * SizeY \in Int /\ i[2] * SizeX \in Int
  BY <1>1
<1> QED  BY <1>1, <1>2, <1>3, <1>4, <1>5, <1>6

\* A cell whose position is between the window's corners is one of its cells.
LEMMA InWindow ==
  ASSUME NEW w, NEW i \in Index,
         \A j \in 1..2 : w.min[j] <= getPosition(i)[j] /\ getPosition(i)[j] <= w.max[j]
  PROVE  CharIndex(i) \in WindowCells(w)
BY PlaceOfPosition DEF WindowCells

\* A window that grows loses no cells.
LEMMA GrownKeepsCells ==
  ASSUME NEW w \in Limits, NEW v \in Limits
  PROVE  /\ Grown(w, v) \in Limits
         /\ WindowCells(w) \subseteq WindowCells(Grown(w, v))
         /\ WindowCells(v) \subseteq WindowCells(Grown(w, v))
<1>1. Grown(w, v) \in Limits
  BY DEF Grown, Limits, Lower, Higher
<1>2. \A j \in 1..2 : /\ Grown(w, v).min[j] <= w.min[j] /\ w.max[j] <= Grown(w, v).max[j]
                      /\ Grown(w, v).min[j] <= v.min[j] /\ v.max[j] <= Grown(w, v).max[j]
  BY DEF Grown, Limits, Lower, Higher
<1>3. \A p \in Index : p[1] \in Int /\ p[2] \in Int
  BY CostmapsAssumption DEF Index
<1>4. ASSUME NEW u \in {w, v}, NEW p \in Index,
             \A j \in 1..2 : u.min[j] <= p[j] /\ p[j] <= u.max[j]
      PROVE  \A j \in 1..2 : Grown(w, v).min[j] <= p[j] /\ p[j] <= Grown(w, v).max[j]
  <2>1. u \in Limits  OBVIOUS
  <2>2. \A j \in 1..2 : Grown(w, v).min[j] <= u.min[j] /\ u.max[j] <= Grown(w, v).max[j]
    BY <1>2
  <2>3. \A j \in 1..2 : u.min[j] \in Int /\ u.max[j] \in Int /\ Grown(w, v).min[j] \in Int
                        /\ Grown(w, v).max[j] \in Int /\ p[j] \in Int
    BY <1>1, <1>3, <2>1 DEF Limits
  <2> HIDE DEF Grown
  <2> QED  BY <1>4, <2>2, <2>3
<1> QED  BY <1>1, <1>4 DEF WindowCells

\* The corners of a dirty window are cells.
LEMMA CornersAreLimits == ASSUME NEW d \in Limits PROVE Corners(d) \in Limits
BY CostmapsAssumption DEF Corners, getPosition, Limits

\* The dirty cells of a layer are in the window that its bounds ask for.
LEMMA CornersCover ==
  ASSUME NEW d \in Limits, NEW i \in Index,
         \A j \in 1..2 : d.min[j] <= i[j] /\ i[j] <= d.max[j]
  PROVE  CharIndex(i) \in WindowCells(Corners(d))
<1>1. \A j \in 1..2 : /\ Corners(d).min[j] <= getPosition(i)[j]
                      /\ getPosition(i)[j] <= Corners(d).max[j]
  BY CostmapsAssumption DEF Corners, getPosition, Limits, Index
<1> QED  BY <1>1, InWindow

-----------------------------------------------------------------------------
Values == {FREE_SPACE, LETHAL_OBSTACLE}

ValuesOK ==
  /\ costmap_2d_ \in [Layers -> [0..(NumCells - 1) -> Values]]
  /\ master \in [0..(NumCells - 1) -> Values]
  /\ window \in Limits
  /\ bounded \in [Layers -> SUBSET Index]

\* A layer whose bounds have been read in this update has them in the window.
Covered ==
  \A m \in DOMAIN Plugins :
    (cycle.phase \in {"transfer", "combine"} \/ (cycle.phase = "bounds" /\ m < cycle.next)) =>
      \A c \in bounded[Plugins[m]] : CharIndex(c) \in WindowCells(window)

\* A cell that no thread has under way, and what the grid maps hold there.
Quiet(i) == CharIndex(i) \notin late /\ \A l \in Layers : i \notin DirtyCells(l) \cup lost[l]
Shown(i) == Cost(IF \E l \in Layers : logodds[l][i] > 0 THEN 1 ELSE 0)

\* While the layers are combined, that is true outside of the window, and inside
\* of it the master has the obstacles of the layers that have had their turn.
Combining == cycle.phase \in {"transfer", "combine"}
OutsideShown ==
  \A i \in Index :
    Quiet(i) /\ (Combining => CharIndex(i) \notin WindowCells(window)) =>
      master[CharIndex(i)] = Shown(i)
Combined(n, k) ==
  IF \E m \in 1..n : costmap_2d_[Plugins[m]][k] = LETHAL_OBSTACLE
  THEN LETHAL_OBSTACLE ELSE FREE_SPACE
InsideCombined ==
  Combining => \A i \in Index : CharIndex(i) \in WindowCells(window) =>
    master[CharIndex(i)] = Combined(cycle.next - 1, CharIndex(i))

MasterInv == LagInv /\ ValuesOK /\ Covered /\ OutsideShown /\ InsideCombined

\* Between updates, the invariant is the property.
LEMMA MasterInvShows == MasterInv => MasterShowsMaps
<1> SUFFICES ASSUME MasterInv, cycle.phase = "idle", NEW i \in Index,
                    MasterIndex(getPosition(i)) \notin late,
                    \A l \in Layers : i \notin DirtyCells(l) \cup lost[l]
             PROVE  master[MasterIndex(getPosition(i))] = Shown(i)
  BY DEF MasterShowsMaps, Shown
<1> QED  BY PlaceOfPosition DEF MasterInv, OutsideShown, Quiet, Combining

\* The master starts without obstacles, as the grid maps do.
LEMMA MasterInvInit == CostmapInit => MasterInv
<1> SUFFICES ASSUME CostmapInit PROVE MasterInv  OBVIOUS
<1>1. LagInv  BY LagInvInit
<1>2. ValuesOK
  <2>1. NoWindow \in Limits  BY CostmapsAssumption DEF NoWindow, Limits
  <2> QED  BY <2>1 DEF CostmapInit, ValuesOK, Values
<1>3. Covered /\ InsideCombined
  BY DEF CostmapInit, Covered, InsideCombined, Combining
<1>4. OutsideShown
  BY CharIndexInArray DEF CostmapInit, OutsideShown, Shown, Cost
<1> QED  BY <1>1, <1>2, <1>3, <1>4 DEF MasterInv

-----------------------------------------------------------------------------
(* The callbacks.                                                          *)

\* A callback that starts only touches cells the master may lag at.
LEMMA StartKeepsMaster ==
  ASSUME MasterInv, NEW l, NEW cells, CallbackStarts(l, cells), LagInv'
  PROVE  MasterInv'
BY DEF MasterInv, CallbackStarts, updateVars, ValuesOK, Covered, OutsideShown, InsideCombined,
       Combining, Quiet, Shown, Combined, DirtyCells

\* So does one that goes on.
LEMMA TouchKeepsMaster == ASSUME MasterInv, TouchCell PROVE MasterInv'
<1>1. LagInv'  BY TouchKeepsInv DEF MasterInv
<1>2. UNCHANGED <<updateVars, logodds, lost>>  BY DEF TouchCell
<1>3. (ValuesOK /\ Covered /\ InsideCombined)'
  BY <1>2 DEF MasterInv, updateVars, ValuesOK, Covered, InsideCombined, Combining, Combined
<1>4. ASSUME NEW i \in Index, Quiet(i)' PROVE Quiet(i) /\ Shown(i)' = Shown(i)
  <2>1. \A l \in Layers : i \notin DirtyCells(l) \cup lost[l]
    BY <1>2, <1>4, TouchKeepsDirty DEF MasterInv, Quiet
  <2> QED  BY <1>2, <1>4, <2>1 DEF Quiet, Shown, updateVars
<1>5. OutsideShown'
  BY <1>2, <1>4 DEF MasterInv, OutsideShown, Combining, updateVars
<1> QED  BY <1>1, <1>3, <1>5 DEF MasterInv

\* And the write that follows.
LEMMA MarkKeepsMaster == ASSUME MasterInv, MarkCell PROVE MasterInv'
<1>1. LagInv'  BY MarkKeepsInv DEF MasterInv
<1>2. UNCHANGED updateVars  BY DEF MarkCell
<1>3. (ValuesOK /\ Covered /\ InsideCombined)'
  BY <1>2 DEF MasterInv, updateVars, ValuesOK, Covered, InsideCombined, Combining, Combined
<1>4. ASSUME NEW i \in Index, Quiet(i)' PROVE Quiet(i) /\ Shown(i)' = Shown(i)
  <2>1. \A l \in Layers : /\ i \notin DirtyCells(l) \cup lost[l]
                          /\ logodds'[l][i] = logodds[l][i]
    <3>. SUFFICES ASSUME NEW l \in Layers
                  PROVE  i \notin DirtyCells(l) \cup lost[l] /\ logodds'[l][i] = logodds[l][i]
      OBVIOUS
    <3>1. i \notin DirtyCells(l)' /\ i \notin lost'[l]
      BY <1>4 DEF Quiet
    <3>2. i \notin DirtyCells(l)
      BY <3>1, MarkWrites DEF MasterInv, DirtyCells
    <3>. QED
      BY <3>1, <3>2, MarkWrites DEF MasterInv
  <2> QED  BY <1>2, <1>4, <2>1 DEF Quiet, Shown, updateVars
<1>5. OutsideShown'
  BY <1>2, <1>4 DEF MasterInv, OutsideShown, Combining, updateVars
<1> QED  BY <1>1, <1>3, <1>5 DEF MasterInv

-----------------------------------------------------------------------------
(* The update thread.                                                      *)

\* So does the start of an update.
LEMMA StartUpdateKeepsMaster == ASSUME MasterInv, StartUpdate, LagInv' PROVE MasterInv'
<1>1. /\ cycle.phase = "idle" /\ cycle' = [phase |-> "bounds", next |-> 1]
      /\ UNCHANGED <<logodds, dirty, lost, costmap_2d_, window, master, bounded, late>>
  BY DEF StartUpdate, mapVars
<1>2. Covered'
  BY <1>1, CostmapsAssumption DEF Covered
<1> QED
  BY <1>1, <1>2 DEF MasterInv, ValuesOK, OutsideShown, InsideCombined, Combining, Quiet, Shown, DirtyCells

\* A layer's bounds cover what its window has.
LEMMA BoundsKeepMaster == ASSUME MasterInv, updateBounds, LagInv' PROVE MasterInv'
<1> DEFINE l == Plugins[cycle.next]
<1>1. /\ cycle.phase = "bounds" /\ cycle.next \in 1..Len(Plugins) /\ l \in Layers
      /\ cycle'.phase = "bounds" /\ cycle'.next = cycle.next + 1
  BY CostmapsAssumption DEF updateBounds, MasterInv, LagInv, CycleOK, Layers
<1>2. /\ bounded' = [bounded EXCEPT ![l] = DirtyCells(l)]
      /\ UNCHANGED <<logodds, dirty, lost, costmap_2d_, master, late>>
  BY DEF updateBounds, mapVars
<1>3. dirty[l] \in Limits /\ window \in Limits
  BY <1>1 DEF MasterInv, LagInv, MapsOK, ValuesOK
<1>4. /\ window' \in Limits /\ WindowCells(window) \subseteq WindowCells(window')
      /\ \A c \in DirtyCells(l) : CharIndex(c) \in WindowCells(window')
  <2>1. CASE dirty[l] = Untouched
    <3>1. PICK w \in Uninitialised : window' = Grown(window, w)
      BY <2>1 DEF updateBounds
    <3>2. w \in Limits  BY CostmapsAssumption DEF Limits
    <3>3. DirtyCells(l) = {}
      BY <2>1, CostmapsAssumption DEF DirtyCells, Untouched, IntMax, Index
    <3> QED  BY <1>3, <3>1, <3>2, <3>3, GrownKeepsCells
  <2>2. CASE dirty[l] # Untouched
    <3>1. window' = Grown(window, Corners(dirty[l]))
      BY <2>2 DEF updateBounds
    <3>2. Corners(dirty[l]) \in Limits
      BY <1>3, CornersAreLimits
    <3>3. \A c \in DirtyCells(l) : CharIndex(c) \in WindowCells(Corners(dirty[l]))
      BY <1>3, CornersCover DEF DirtyCells
    <3> QED  BY <1>3, <3>1, <3>2, <3>3, GrownKeepsCells
  <2> QED  BY <2>1, <2>2
<1>5. ValuesOK'
  <2>1. DirtyCells(l) \subseteq Index  BY DEF DirtyCells
  <2> QED  BY <1>1, <1>2, <1>4, <2>1 DEF MasterInv, ValuesOK
<1>6. Covered'
  <2> SUFFICES ASSUME NEW m \in DOMAIN Plugins, m < cycle.next + 1, NEW c \in bounded'[Plugins[m]]
               PROVE  CharIndex(c) \in WindowCells(window')
    BY <1>1 DEF Covered
  <2>1. Plugins[m] \in Layers  BY DEF Layers
  <2>2. CASE Plugins[m] = l
    BY <2>2, <1>1, <1>2, <1>4 DEF MasterInv, ValuesOK
  <2>3. CASE Plugins[m] # l
    <3>1. m < cycle.next  BY <2>3, <1>1, CostmapsAssumption
    <3>2. c \in bounded[Plugins[m]]
      BY <2>1, <2>3, <1>2 DEF MasterInv, ValuesOK
    <3> QED  BY <1>1, <1>4, <3>1, <3>2 DEF MasterInv, Covered
  <2> QED  BY <2>2, <2>3
<1>7. (OutsideShown /\ InsideCombined)'
  BY <1>1, <1>2 DEF MasterInv, OutsideShown, InsideCombined, Combining, Quiet, Shown, DirtyCells
<1> QED  BY <1>5, <1>6, <1>7 DEF MasterInv

\* So does clearing the cells within the bounds.
LEMMA ResetKeepsMaster == ASSUME MasterInv, ResetWindow, LagInv' PROVE MasterInv'
<1>1. /\ cycle.phase = "bounds" /\ cycle.next > Len(Plugins) /\ cycle.next \in Nat
      /\ master' = [k \in DOMAIN master |->
                      IF k \in WindowCells(window) THEN FREE_SPACE ELSE master[k]]
      /\ late' = late \ WindowCells(window)
      /\ UNCHANGED <<logodds, dirty, lost, costmap_2d_>>
  BY DEF ResetWindow, mapVars, MasterInv, LagInv, CycleOK
<1>2. DOMAIN master = 0..(NumCells - 1)  BY DEF MasterInv, ValuesOK
<1>3. ASSUME NEW i \in Index
      PROVE  master'[CharIndex(i)] =
               IF CharIndex(i) \in WindowCells(window) THEN FREE_SPACE ELSE master[CharIndex(i)]
  BY <1>1, <1>2, CharIndexInArray
\* Outside of the window, what is quiet afterwards was quiet before.
<1>4. ASSUME NEW i \in Index, Quiet(i)', CharIndex(i) \notin WindowCells(window)
      PROVE  master'[CharIndex(i)] = Shown(i)'
  <2>1. Quiet(i) /\ Shown(i)' = Shown(i)
    BY <1>1, <1>4 DEF Quiet, Shown, DirtyCells
  <2>2. master[CharIndex(i)] = Shown(i)
    BY <1>1, <2>1 DEF MasterInv, OutsideShown, Combining
  <2> QED  BY <1>3, <1>4, <2>1, <2>2
<1>5. CASE Plugins = <<>> \/ \E j \in 1..2 : window.max[j] < window.min[j]
  <2>1. /\ cycle' = [phase |-> "idle", next |-> 1] /\ window' = NoWindow
        /\ bounded' = [l \in Layers |-> {}]
    BY <1>5 DEF ResetWindow
  <2>2. ValuesOK'
    <3>1. NoWindow \in Limits  BY CostmapsAssumption DEF NoWindow, Limits
    <3> QED  BY <1>1, <2>1, <3>1 DEF MasterInv, ValuesOK, Values
  <2>3. (Covered /\ InsideCombined)'
    BY <2>1 DEF Covered, InsideCombined, Combining
  <2>4. OutsideShown'
    <3> SUFFICES ASSUME NEW i \in Index, Quiet(i)' PROVE master'[CharIndex(i)] = Shown(i)'
      BY DEF OutsideShown
    <3>1. CASE CharIndex(i) \notin WindowCells(window)  BY <3>1, <1>4
    <3>2. CASE CharIndex(i) \in WindowCells(window)
      <4>1. Plugins = <<>>
        <5>1. ASSUME NEW j \in 1..2, window.max[j] < window.min[j] PROVE WindowCells(window) = {}
          <6>1. window.min[j] \in Int /\ window.max[j] \in Int
            BY DEF MasterInv, ValuesOK, Limits
          <6>2. \A p \in Index : p[j] \in Int  BY CostmapsAssumption DEF Index
          <6>3. \A p \in Index : ~(window.min[j] <= p[j] /\ p[j] <= window.max[j])
            BY <5>1, <6>1, <6>2
          <6> QED  BY <6>3 DEF WindowCells
        <5> QED  BY <1>5, <3>2, <5>1
      <4>2. Layers = {}  BY <4>1 DEF Layers
      <4>3. Shown(i)' = FREE_SPACE  BY <4>2 DEF Shown, Cost
      <4> QED  BY <1>3, <3>2, <4>3
    <3> QED  BY <3>1, <3>2
  <2> QED  BY <2>2, <2>3, <2>4 DEF MasterInv
<1>6. CASE ~(Plugins = <<>> \/ \E j \in 1..2 : window.max[j] < window.min[j])
  <2>1. /\ cycle' = [phase |-> "transfer", next |-> 1]
        /\ UNCHANGED <<window, bounded>>
    BY <1>6 DEF ResetWindow
  <2>2. ValuesOK'
    BY <1>1, <2>1 DEF MasterInv, ValuesOK, Values
  <2>3. Covered'
    <3>1. \A m \in DOMAIN Plugins : m < cycle.next  BY <1>1, CostmapsAssumption
    <3> QED  BY <1>1, <2>1, <3>1 DEF MasterInv, Covered
  <2>4. OutsideShown'
    BY <1>4, <2>1 DEF OutsideShown, Combining
  <2>5. InsideCombined'
    BY <1>3, <2>1 DEF InsideCombined, Combined
  <2> QED  BY <2>2, <2>3, <2>4, <2>5 DEF MasterInv
<1> QED  BY <1>5, <1>6

\* A layer's copy is current before it goes to the master.
LEMMA TransferKeepsMaster == ASSUME MasterInv, TransferToCostmap PROVE MasterInv'
<1> DEFINE l == Plugins[cycle.next]
           cells == DirtyCells(l)
<1>0. LagInv'  BY TransferKeepsInv DEF MasterInv
<1>1. /\ l \in Layers /\ cycle.next \in 1..Len(Plugins) /\ cycle.phase = "transfer"
      /\ cycle'.phase = "combine" /\ cycle'.next = cycle.next
  BY CostmapsAssumption DEF MasterInv, LagInv, CycleOK, TransferToCostmap, Layers
<1>2. /\ costmap_2d_' = [costmap_2d_ EXCEPT ![l] =
           [k \in DOMAIN costmap_2d_[l] |->
              IF k \in {CharIndex(c) : c \in cells}
              THEN Cost(logodds[l][CHOOSE c \in cells : CharIndex(c) = k])
              ELSE costmap_2d_[l][k]]]
      /\ lost' = [lost EXCEPT ![l] = lost[l] \ cells]
      /\ UNCHANGED <<logodds, dirty, window, master, bounded, late>>
  BY DEF TransferToCostmap
<1>3. ValuesOK'
  <2>1. [k \in DOMAIN costmap_2d_[l] |->
              IF k \in {CharIndex(c) : c \in cells}
              THEN Cost(logodds[l][CHOOSE c \in cells : CharIndex(c) = k])
              ELSE costmap_2d_[l][k]] \in [0..(NumCells - 1) -> Values]
    BY <1>1 DEF MasterInv, ValuesOK, Cost, Values
  <2> QED  BY <1>1, <1>2, <2>1 DEF MasterInv, ValuesOK
<1>4. Covered'
  BY <1>1, <1>2 DEF MasterInv, Covered
<1>5. OutsideShown'
  <2> SUFFICES ASSUME NEW i \in Index, Quiet(i)', CharIndex(i) \notin WindowCells(window)
               PROVE  master[CharIndex(i)] = Shown(i)
    BY <1>1, <1>2 DEF OutsideShown, Combining, Shown
  <2>1. \A m \in Layers : i \notin DirtyCells(m) /\ i \notin lost'[m]
    BY <1>2 DEF Quiet, DirtyCells
  <2>2. \A m \in Layers : i \notin lost[m]
    BY <1>1, <1>2, <2>1 DEF MasterInv, LagInv, MapsOK
  <2>3. Quiet(i)  BY <1>2, <2>1, <2>2 DEF Quiet
  <2> QED  BY <2>3 DEF MasterInv, OutsideShown
<1>6. InsideCombined'
  <2>1. \A m \in 1..(cycle.next - 1) : costmap_2d_'[Plugins[m]] = costmap_2d_[Plugins[m]]
    <3> SUFFICES ASSUME NEW m \in 1..(cycle.next - 1)
                 PROVE  costmap_2d_'[Plugins[m]] = costmap_2d_[Plugins[m]]
      OBVIOUS
    <3>1. m \in DOMAIN Plugins /\ cycle.next \in DOMAIN Plugins /\ m # cycle.next
      BY <1>1, CostmapsAssumption
    <3>2. Plugins[m] # l  BY <3>1, CostmapsAssumption
    <3> QED  BY <1>2, <3>1, <3>2 DEF MasterInv, LagInv, MapsOK, Layers
  <2> QED  BY <1>1, <1>2, <2>1 DEF MasterInv, InsideCombined, Combining, Combined
<1> QED  BY <1>0, <1>3, <1>4, <1>5, <1>6 DEF MasterInv

\* The larger of two costs is that of an obstacle where either of them is.
LEMMA LayerCombines ==
  ASSUME ValuesOK, NEW n \in 1..Len(Plugins), NEW k \in 0..(NumCells - 1),
         master[k] = Combined(n - 1, k)
  PROVE  (IF master[k] = NO_INFORMATION \/ master[k] < costmap_2d_[Plugins[n]][k]
          THEN costmap_2d_[Plugins[n]][k] ELSE master[k]) = Combined(n, k)
<1>1. Plugins[n] \in Layers  BY CostmapsAssumption DEF Layers
<1>2. costmap_2d_[Plugins[n]][k] \in Values  BY <1>1 DEF ValuesOK
<1>3. 1..n = 1..(n - 1) \cup {n}  BY CostmapsAssumption
<1>4. CASE costmap_2d_[Plugins[n]][k] = LETHAL_OBSTACLE
  BY <1>3, <1>4 DEF Combined, LETHAL_OBSTACLE, FREE_SPACE, NO_INFORMATION
<1>5. CASE costmap_2d_[Plugins[n]][k] = FREE_SPACE
  <2>1. Combined(n, k) = Combined(n - 1, k)
    BY <1>3, <1>5 DEF Combined, LETHAL_OBSTACLE, FREE_SPACE
  <2> QED  BY <1>5, <2>1 DEF Combined, LETHAL_OBSTACLE, FREE_SPACE, NO_INFORMATION
<1> QED  BY <1>2, <1>4, <1>5 DEF Values

\* A layer that had its turn shows in the master.
LEMMA UpdateKeepsMaster == ASSUME MasterInv, UpdateCosts PROVE MasterInv'
<1> DEFINE l == Plugins[cycle.next]
           n == cycle.next
<1>0. LagInv'  BY UpdateKeepsInv DEF MasterInv
<1>1. l \in Layers /\ n \in 1..Len(Plugins) /\ cycle.phase = "combine"
  BY CostmapsAssumption DEF MasterInv, LagInv, CycleOK, UpdateCosts, Layers
<1>2. /\ dirty' = [dirty EXCEPT ![l] = Untouched]
      /\ late' = late \cup ({MasterIndex(getPosition(c)) : c \in DirtyCells(l) \ bounded[l]}
                               \ WindowCells(window))
      /\ bounded' = [bounded EXCEPT ![l] = {}]
      /\ master' = [k \in DOMAIN master |->
           IF k \in WindowCells(window)
              /\ (master[k] = NO_INFORMATION \/ master[k] < costmap_2d_[l][k])
           THEN costmap_2d_[l][k] ELSE master[k]]
      /\ UNCHANGED <<logodds, lost, costmap_2d_>>
  BY DEF UpdateCosts
<1>3. DOMAIN master = 0..(NumCells - 1)  BY DEF MasterInv, ValuesOK
<1>4. ASSUME NEW i \in Index, CharIndex(i) \in WindowCells(window)
      PROVE  master'[CharIndex(i)] = Combined(n, CharIndex(i))
  <2>1. CharIndex(i) \in 0..(NumCells - 1)  BY CharIndexInArray
  <2>2. master[CharIndex(i)] = Combined(n - 1, CharIndex(i))
    BY <1>1, <1>4 DEF MasterInv, InsideCombined, Combining
  <2>3. master'[CharIndex(i)] =
          IF master[CharIndex(i)] = NO_INFORMATION
             \/ master[CharIndex(i)] < costmap_2d_[l][CharIndex(i)]
          THEN costmap_2d_[l][CharIndex(i)] ELSE master[CharIndex(i)]
    BY <1>2, <1>3, <1>4, <2>1
  <2> QED  BY <1>1, <2>1, <2>2, <2>3, LayerCombines DEF MasterInv
\* Outside of the window, a dirty cell is late from now on: it was not dirty when
\* the bounds were read.
<1>5. ASSUME NEW i \in Index, Quiet(i)', CharIndex(i) \notin WindowCells(window)
      PROVE  master'[CharIndex(i)] = Shown(i)
  <2>1. i \notin DirtyCells(l)
    <3> SUFFICES ASSUME i \in DirtyCells(l) PROVE FALSE  OBVIOUS
    <3>1. i \notin bounded[l]
      <4>1. PICK m \in DOMAIN Plugins : Plugins[m] = l  BY <1>1 DEF Layers
      <4> QED  BY <1>1, <1>5, <4>1 DEF MasterInv, Covered
    <3>2. CharIndex(i) \in late'
      BY <1>2, <1>5, <3>1, PlaceOfPosition
    <3> QED  BY <1>5, <3>2 DEF Quiet
  <2>2. \A m \in Layers : i \notin DirtyCells(m) \cup lost[m]
    <3> SUFFICES ASSUME NEW m \in Layers PROVE i \notin DirtyCells(m) /\ i \notin lost[m]
      OBVIOUS
    <3>1. i \notin lost[m]  BY <1>2, <1>5 DEF Quiet
    <3>2. CASE m # l
      <4>1. dirty'[m] = dirty[m]  BY <1>2, <3>2 DEF MasterInv, LagInv, MapsOK
      <4> QED  BY <1>5, <3>1, <4>1 DEF Quiet, DirtyCells
    <3> QED  BY <2>1, <3>1, <3>2
  <2>3. Quiet(i)  BY <1>2, <1>5, <2>2 DEF Quiet
  <2>4. master[CharIndex(i)] = Shown(i)
    BY <1>5, <2>3 DEF MasterInv, OutsideShown
  <2>5. master'[CharIndex(i)] = master[CharIndex(i)]
    BY <1>2, <1>3, <1>5, CharIndexInArray
  <2> QED  BY <2>4, <2>5
<1>6. master' \in [0..(NumCells - 1) -> Values]
  BY <1>1, <1>2, <1>3 DEF MasterInv, ValuesOK
<1>7. bounded' \in [Layers -> SUBSET Index]
  BY <1>1, <1>2 DEF MasterInv, ValuesOK
<1>8. CASE n = Len(Plugins)
  <2>1. cycle' = [phase |-> "idle", next |-> 1] /\ window' = NoWindow
    BY <1>8 DEF UpdateCosts
  <2>2. ValuesOK'
    <3>1. NoWindow \in Limits  BY CostmapsAssumption DEF NoWindow, Limits
    <3> QED  BY <1>2, <1>6, <1>7, <2>1, <3>1 DEF MasterInv, ValuesOK
  <2>3. (Covered /\ InsideCombined)'
    BY <2>1 DEF Covered, InsideCombined, Combining
  <2>4. OutsideShown'
    <3> SUFFICES ASSUME NEW i \in Index, Quiet(i)' PROVE master'[CharIndex(i)] = Shown(i)
      BY <1>2 DEF OutsideShown, Shown
    <3>1. CASE CharIndex(i) \notin WindowCells(window)  BY <3>1, <1>5
    <3>2. CASE CharIndex(i) \in WindowCells(window)
      <4>1. \A m \in Layers : costmap_2d_[m][CharIndex(i)] = Cost(logodds[m][i])
        BY <1>0, <1>2 DEF LagInv, LagsOnlyWhereDirty, Quiet
      <4>2. \A m \in Layers : (costmap_2d_[m][CharIndex(i)] = LETHAL_OBSTACLE) <=> logodds[m][i] > 0
        BY <4>1 DEF Cost, LETHAL_OBSTACLE, FREE_SPACE
      <4>3. Layers = {Plugins[m] : m \in 1..n}
        BY <1>8, CostmapsAssumption DEF Layers
      <4>4. Combined(n, CharIndex(i)) = Shown(i)
        BY <4>2, <4>3 DEF Combined, Shown, Cost
      <4> QED  BY <1>4, <3>2, <4>4
    <3> QED  BY <3>1, <3>2
  <2> QED  BY <1>0, <2>2, <2>3, <2>4 DEF MasterInv
<1>9. CASE n # Len(Plugins)
  <2>1. cycle' = [phase |-> "transfer", next |-> n + 1] /\ window' = window
    BY <1>9 DEF UpdateCosts
  <2>2. ValuesOK'
    BY <1>2, <1>6, <1>7, <2>1 DEF MasterInv, ValuesOK
  <2>3. Covered'
    <3>1. \A m \in Layers : bounded'[m] \subseteq bounded[m]
      BY <1>1, <1>2 DEF MasterInv, ValuesOK
    <3> QED  BY <1>1, <2>1, <3>1 DEF MasterInv, Covered, Layers
  <2>4. OutsideShown'
    BY <1>2, <1>5, <2>1 DEF OutsideShown, Combining, Shown
  <2>5. InsideCombined'
    BY <1>1, <1>2, <1>4, <2>1 DEF InsideCombined, Combined
  <2> QED  BY <1>0, <2>2, <2>3, <2>4, <2>5 DEF MasterInv
<1> QED  BY <1>8, <1>9

\* Every step keeps what the master shows.
LEMMA MasterInvStep == ASSUME MasterInv, [CostmapNext]_costmapVars PROVE MasterInv'
<1>0. LagInv'  BY LagInvStep DEF MasterInv
<1>1. CASE slopeMapCallback  BY <1>0, <1>1, StartKeepsMaster DEF slopeMapCallback
<1>2. CASE imageSyncedCallback
  <2>1. PICK cells : CallbackStarts("line", cells)  BY <1>2 DEF imageSyncedCallback
  <2> QED  BY <1>0, <2>1, StartKeepsMaster
<1>3. CASE MarkCell  BY <1>3, MarkKeepsMaster
<1>10. CASE TouchCell  BY <1>10, TouchKeepsMaster
<1>4. CASE StartUpdate  BY <1>0, <1>4, StartUpdateKeepsMaster
<1>5. CASE updateBounds  BY <1>0, <1>5, BoundsKeepMaster
<1>6. CASE ResetWindow  BY <1>0, <1>6, ResetKeepsMaster
<1>7. CASE TransferToCostmap  BY <1>7, TransferKeepsMaster
<1>8. CASE UpdateCosts  BY <1>8, UpdateKeepsMaster
<1>9. CASE UNCHANGED costmapVars
  BY <1>0, <1>9 DEF costmapVars, mapVars, updateVars, MasterInv, ValuesOK, Covered, OutsideShown,
                    InsideCombined, Combining, Quiet, Shown, Combined, DirtyCells
<1> QED  BY <1>1, <1>2, <1>3, <1>4, <1>5, <1>6, <1>7, <1>8, <1>9, <1>10 DEF CostmapNext

\* In every behaviour, the master costmap between updates shows an obstacle where
\* one of the layers has one, and nowhere else, but for the cells that are named.
THEOREM MasterIsCurrent == CostmapSpec => []MasterShowsMaps
<1> QED  BY MasterInvInit, MasterInvStep, MasterInvShows, PTL DEF CostmapSpec

-----------------------------------------------------------------------------
(* The local costmap shows the published map at the robot's place, for     *)
(* windows and maps of any size, any data, any way of the robot and any    *)
(* interleaving of the callback and the update thread.                     *)

\* Quotient and remainder of a number.
LEMMA Division ==
  ASSUME NEW L \in Nat \ {0}, NEW k \in Nat
  PROVE  /\ k \div L \in Nat /\ k % L \in 0..(L - 1)
         /\ (k \div L) * L + (k % L) = k
<1>. DEFINE q == k \div L
            r == k % L
<1>1. q \in Nat
  OBVIOUS
<1>2. r \in 0..(L - 1)
  OBVIOUS
<1>3. r = k - L * q
  OBVIOUS
<1>. HIDE DEF q, r
<1>4. q * L + r = k
  BY <1>1, <1>2, <1>3
<1>. QED
  BY <1>1, <1>2, <1>4 DEF q, r

\* A row and a column make an index from which they come back.
LEMMA DivisionBack ==
  ASSUME NEW L \in Nat \ {0}, NEW x \in 0..(L - 1), NEW y \in Nat
  PROVE  /\ (y * L + x) % L = x
         /\ (y * L + x) \div L = y
OBVIOUS

\* What RollingAssumption says of an origin.
LEMMA OriginType ==
  ASSUME NEW o \in Origins
  PROVE  /\ o[1] \in Nat \ {0} /\ o[2] \in Nat \ {0}
         /\ o = <<o[1], o[2]>>
         /\ o[1] * Excess \in 1..1000 /\ o[2] * Excess \in 1..1000
<1>1. o \in Nat \X Nat /\ 1 <= o[1] /\ 1 <= o[2]
  BY RollingAssumption
<1>. QED
  BY <1>1, RollingAssumption

\* A cell has a row and a column of the window.
LEMMA PlaceInWindow ==
  ASSUME NEW k \in LocalIndex
  PROVE  /\ k % LocalX \in 0..(LocalX - 1) /\ k \div LocalX \in 0..(LocalY - 1)
         /\ LocalCell(k % LocalX, k \div LocalX) = k
<1>1. k \in Nat /\ k < LocalX * LocalY /\ LocalX \in Nat \ {0} /\ LocalY \in Nat \ {0}
  BY RollingAssumption DEF LocalIndex
<1>2. /\ k \div LocalX \in Nat /\ k % LocalX \in 0..(LocalX - 1)
      /\ (k \div LocalX) * LocalX + (k % LocalX) = k
  BY <1>1, Division
<1>3. k \div LocalX < LocalY
  <2>. DEFINE q == k \div LocalX
              r == k % LocalX
  <2>1. q \in Nat /\ r \in Nat /\ q * LocalX + r = k
    BY <1>2
  <2>. HIDE DEF q, r
  <2>2. ~(LocalY <= q)
    <3>. SUFFICES ASSUME LocalY <= q PROVE FALSE
      OBVIOUS
    <3>1. PICK d \in Nat : q = LocalY + d
      BY <1>1, <2>1
    <3>2. q * LocalX = LocalX * LocalY + d * LocalX /\ d * LocalX \in Nat
      BY <1>1, <3>1
    <3>3. q * LocalX \in Nat /\ LocalX * LocalY \in Nat
      BY <1>1, <2>1
    <3>. QED
      BY <1>1, <2>1, <3>2, <3>3
  <2>. QED
    BY <1>1, <2>1, <2>2 DEF q
<1>. QED
  BY <1>1, <1>2, <1>3 DEF LocalCell

\* A cell of the map that is in the window is found there by its place on the
\* ground.
LEMMA CellOfPosition ==
  ASSUME NEW o \in Origins, NEW pos \in Window(o)
  PROVE  LET k == LocalCell(pos[1] - o[1], pos[2] - o[2])
         IN  k \in LocalIndex /\ MapPos(o, k) = pos
<1>1. PICK k \in LocalIndex : pos = MapPos(o, k)
  BY DEF Window
<1>2. /\ k % LocalX \in 0..(LocalX - 1) /\ k \div LocalX \in 0..(LocalY - 1)
      /\ LocalCell(k % LocalX, k \div LocalX) = k
  BY PlaceInWindow
<1>3. pos[1] = o[1] + (k % LocalX) /\ pos[2] = o[2] + k \div LocalX
  BY <1>1 DEF MapPos, LocalPos
<1>4. pos[1] - o[1] = (k % LocalX) /\ pos[2] - o[2] = k \div LocalX
  BY <1>2, <1>3, OriginType
<1>. QED
  BY <1>1, <1>2, <1>4

\* The index in the message is the cell's index in the map: one is added, and
\* the excess takes a fraction of one away.
LEMMA StartIndex ==
  ASSUME NEW n \in Nat \ {0}, n * Excess \in 1..1000
  PROVE  global_start_index(n) = n
<1>1. Excess \in Nat
  BY RollingAssumption
<1>2. Quotient(n, Excess) + 1000 = n * 1000 + (1000 - n * Excess)
  BY <1>1 DEF Quotient
<1>. DEFINE rest == 1000 - n * Excess
<1>3. rest \in 0..999
  BY <1>1
<1>. HIDE DEF rest
<1>4. n * 1000 + rest >= 0 /\ (n * 1000 + rest) \div 1000 = n
  BY <1>3
<1>. QED
  BY <1>2, <1>4 DEF global_start_index, Truncated, rest

-----------------------------------------------------------------------------
(* What the layer's costmap shows.                                         *)

\* What LocalShowsGlobal says of a cell of the window that begins at o.
CellShown(map, o, cells, k) ==
  IF MapPos(o, k) \in cells
  THEN FromMessage(map[GlobalCell(MapPos(o, k)[1], MapPos(o, k)[2])]) ELSE FREE_SPACE

RollingInv ==
  /\ origin \in Origins
  /\ reading # <<>> => reading[1].at \in Origins
  /\ kept \subseteq Window(origin)
  /\ ~misplaced => \A k \in LocalIndex : rolling[k] = CellShown(received, origin, kept, k)
  /\ phase = "idle" /\ copied => \A k \in LocalIndex : local[k] = rolling[k]

\* The window begins in its first place.
LEMMA RollingInvInit == RollingInit => RollingInv
<1>. SUFFICES ASSUME RollingInit PROVE RollingInv
  OBVIOUS
<1>. QED
  BY DEF RollingInit, RollingInv, CellShown, Fresh

\* A map that is copied where its callback read the origin is shown in every cell.
LEMMA CopyMapKeeps == RollingInv /\ CopyMap => RollingInv'
<1>. SUFFICES ASSUME RollingInv, CopyMap PROVE RollingInv'
  OBVIOUS
<1>. DEFINE map == reading[1].data
            at == reading[1].at
            start == <<global_start_index(at[1]), global_start_index(at[2])>>
<1>1. /\ reading # <<>> /\ reading' = <<>> /\ copied' = FALSE /\ received' = map
      /\ kept' = Window(origin) /\ misplaced' = (at # origin)
      /\ UNCHANGED <<phase, origin, local>>
      /\ rolling' = [k \in LocalIndex |->
           FromMessage(map[GlobalCell(start[1] + LocalPos(k)[1], start[2] + LocalPos(k)[2])])]
  BY DEF CopyMap
<1>2. at \in Origins
  BY <1>1 DEF RollingInv
<1>3. start = at
  <2>1. /\ at[1] \in Nat \ {0} /\ at[2] \in Nat \ {0} /\ at = <<at[1], at[2]>>
        /\ at[1] * Excess \in 1..1000 /\ at[2] * Excess \in 1..1000
    BY <1>2, OriginType
  <2>2. global_start_index(at[1]) = at[1] /\ global_start_index(at[2]) = at[2]
    BY <2>1, StartIndex
  <2>. QED
    BY <2>1, <2>2
<1>. HIDE DEF map, at, start
<1>4. ASSUME ~misplaced', NEW k \in LocalIndex
      PROVE  rolling'[k] = CellShown(received', origin, Window(origin), k)
  <2>1. start = origin
    BY <1>1, <1>3, <1>4
  <2>2. MapPos(origin, k) \in Window(origin)
    BY DEF Window
  <2>3. rolling'[k] = FromMessage(map[GlobalCell(origin[1] + LocalPos(k)[1],
                                                 origin[2] + LocalPos(k)[2])])
    BY <1>1, <2>1
  <2>4. /\ MapPos(origin, k)[1] = origin[1] + LocalPos(k)[1]
        /\ MapPos(origin, k)[2] = origin[2] + LocalPos(k)[2]
    BY DEF MapPos
  <2>. QED
    BY <1>1, <2>2, <2>3, <2>4 DEF CellShown
<1>. QED
  BY <1>1, <1>4 DEF RollingInv, CellShown

\* What stays in the window is shown in its new cell, the rest was not shown.
LEMMA BoundsKeep == RollingInv /\ RollingBounds => RollingInv'
<1>. SUFFICES ASSUME RollingInv, RollingBounds PROVE RollingInv'
  OBVIOUS
<1>1. PICK o \in Origins :
        /\ origin' = o
        /\ rolling' = [k \in LocalIndex |->
             LET pos == MapPos(o, k)
             IN  IF pos \in Window(origin)
                 THEN rolling[LocalCell(pos[1] - origin[1], pos[2] - origin[2])] ELSE FREE_SPACE]
        /\ kept' = kept \cap Window(o)
  BY DEF RollingBounds
<1>2. phase' = "bounds" /\ UNCHANGED <<reading, received, copied, misplaced>>
  BY DEF RollingBounds
<1>3. ASSUME ~misplaced, NEW k \in LocalIndex
      PROVE  rolling'[k] = CellShown(received, o, kept \cap Window(o), k)
  <2>. DEFINE pos == MapPos(o, k)
              was == LocalCell(pos[1] - origin[1], pos[2] - origin[2])
  <2>1. pos \in Window(o)
    BY DEF Window
  <2>2. rolling'[k] = IF pos \in Window(origin) THEN rolling[was] ELSE FREE_SPACE
    BY <1>1
  <2>. HIDE DEF pos, was
  <2>3. CASE pos \in Window(origin)
    <3>1. was \in LocalIndex /\ MapPos(origin, was) = pos
      BY <2>3, CellOfPosition DEF RollingInv, was
    <3>2. rolling[was] = CellShown(received, origin, kept, was)
      BY <1>3, <3>1 DEF RollingInv
    <3>3. CellShown(received, origin, kept, was) = CellShown(received, o, kept \cap Window(o), k)
      BY <2>1, <3>1 DEF CellShown, pos
    <3>. QED
      BY <2>2, <2>3, <3>2, <3>3
  <2>4. CASE pos \notin Window(origin)
    <3>1. pos \notin kept \cap Window(o)
      BY <2>4 DEF RollingInv
    <3>. QED
      BY <2>2, <2>4, <3>1 DEF CellShown, pos
  <2>. QED
    BY <2>3, <2>4
<1>. QED
  BY <1>1, <1>2, <1>3 DEF RollingInv, CellShown

\* Every step of the rolling layer keeps its cells right.
LEMMA RollingInvStep == RollingInv /\ [RollingNext]_rollingVars => RollingInv'
<1>. SUFFICES ASSUME RollingInv, [RollingNext]_rollingVars PROVE RollingInv'
  OBVIOUS
<1>1. CASE costmapCallback
  <2>1. /\ reading'[1].at = origin
        /\ UNCHANGED <<phase, origin, rolling, local, received, kept, copied, misplaced>>
    BY <1>1 DEF costmapCallback
  <2>. QED
    BY <2>1 DEF RollingInv, CellShown
<1>2. CASE RollingCosts
  BY <1>2 DEF RollingCosts, RollingInv, CellShown
<1>3. CASE UNCHANGED rollingVars
  BY <1>3 DEF rollingVars, RollingInv, CellShown
<1>. QED
  BY <1>1, <1>2, <1>3, CopyMapKeeps, BoundsKeep DEF RollingNext

\* Once it has been updated, the local costmap shows the map that came last in
\* the cells that have been in the window since, but for a map that was copied
\* while the window moved.
THEOREM LocalIsGlobal == RollingSpec => []LocalShowsGlobal
<1>1. RollingInv => LocalShowsGlobal
  BY DEF RollingInv, LocalShowsGlobal, CellShown
<1>. QED
  BY <1>1, RollingInvInit, RollingInvStep, PTL DEF RollingSpec

-----------------------------------------------------------------------------
(* The unrolling layer.                                                    *)

\* An offset is converted exactly.
LEMMA ExactIndex == ASSUME NEW offset \in Int PROVE map_idx(offset) = offset
<1>1. Quotient(offset, 0) = offset * 1000
  BY DEF Quotient
<1>2. CASE offset >= 0
  <2>1. offset * 1000 >= 0 /\ (offset * 1000) \div 1000 = offset
    BY <1>2
  <2>. QED
    BY <1>1, <2>1 DEF map_idx, Truncated
<1>3. CASE offset < 0
  <2>. DEFINE back == -offset
  <2>1. back \in Nat /\ -(offset * 1000) = back * 1000 /\ ~(offset * 1000 >= 0) /\ offset = -back
    BY <1>3
  <2>. HIDE DEF back
  <2>2. (back * 1000) \div 1000 = back
    BY <2>1
  <2>. QED
    BY <1>1, <2>1, <2>2 DEF map_idx, Truncated
<1>. QED
  BY <1>2, <1>3

\* The cells of one axis that are copied: those of the update that are in our
\* map, each to its place on the ground.
LEMMA CellsOfUpdate ==
  ASSUME NEW offset \in Int, NEW length \in Nat, NEW ours \in Nat,
         length + ours < 256, offset \in -length..ours
  PROVE  updateMap(offset, length, ours) =
           {<<i, offset + i>> : i \in {j \in 0..(length - 1) : offset + j \in 0..(ours - 1)}}
<1>. DEFINE start == IF offset < 0 THEN -offset ELSE 0
            end == IF offset + length > ours THEN ours - offset ELSE length
<1>1. start_idx(offset) = start
  BY ExactIndex DEF start_idx
<1>2. end_idx(offset, length, ours) = end
  <2>1. SizeT(offset + length) = offset + length
    BY DEF SizeT
  <2>2. offset + length > ours => UnsignedInt(ours - offset) = ours - offset
    BY DEF UnsignedInt
  <2>. QED
    BY <2>1, <2>2, ExactIndex DEF end_idx
<1>3. start..(end - 1) = {j \in 0..(length - 1) : offset + j \in 0..(ours - 1)}
  OBVIOUS
<1>4. ASSUME NEW i \in start..(end - 1) PROVE SizeT(map_idx(offset) + i) = offset + i
  <2>1. map_idx(offset) = offset
    BY ExactIndex
  <2>2. i \in Int /\ offset + i \in 0..255
    OBVIOUS
  <2>. QED
    BY <2>1, <2>2 DEF SizeT
<1>. HIDE DEF start, end
<1>5. updateMap(offset, length, ours) = {<<i, SizeT(map_idx(offset) + i)>> : i \in start..(end - 1)}
  BY <1>1, <1>2 DEF updateMap
<1>. QED
  BY <1>3, <1>4, <1>5

\* For maps and updates of any size and place: what is copied is what they have
\* in common, each cell to its place on the ground.
THEOREM UnrollsAnywhere == UnrollingInit => UnrollsInPlace
<1>. SUFFICES ASSUME UnrollingInit,
                     update.x \in -update.length_x..GlobalX,
                     update.y \in -update.length_y..GlobalY
              PROVE  Copied = {<<p[2] * update.length_x + p[1],
                                 GlobalCell(update.x + p[1], update.y + p[2])>> :
                        p \in {q \in (0..(update.length_x - 1)) \X (0..(update.length_y - 1)) :
                                 /\ update.x + q[1] \in 0..(GlobalX - 1)
                                 /\ update.y + q[2] \in 0..(GlobalY - 1)}}
  BY DEF UnrollsInPlace
<1>. DEFINE X == {i \in 0..(update.length_x - 1) : update.x + i \in 0..(GlobalX - 1)}
            Y == {i \in 0..(update.length_y - 1) : update.y + i \in 0..(GlobalY - 1)}
            To(i, j) == <<j * update.length_x + i, GlobalCell(update.x + i, update.y + j)>>
<1>1. /\ update.x \in Int /\ update.y \in Int
      /\ update.length_x \in Nat /\ update.length_y \in Nat
      /\ update.length_x + GlobalX < 256 /\ update.length_y + GlobalY < 256
      /\ GlobalX \in Nat /\ GlobalY \in Nat
  <2>1. /\ update.x \in Offsets /\ update.y \in Offsets
        /\ update.length_x \in Lengths /\ update.length_y \in Lengths
    BY DEF UnrollingInit
  <2>. QED
    BY <2>1, UnrollingAssumption
<1>2. /\ updateMap(update.x, update.length_x, GlobalX) = {<<i, update.x + i>> : i \in X}
      /\ updateMap(update.y, update.length_y, GlobalY) = {<<j, update.y + j>> : j \in Y}
  BY <1>1, CellsOfUpdate
<1>3. Copied = {To(i, j) : i \in X, j \in Y}
  <2>1. Copied = {<<y[1] * update.length_x + x[1], y[2] * GlobalX + x[2]>> :
                    x \in {<<i, update.x + i>> : i \in X},
                    y \in {<<j, update.y + j>> : j \in Y}}
    BY <1>2 DEF Copied
  <2>. HIDE DEF X, Y
  <2>. DEFINE XX == {<<i, update.x + i>> : i \in X}
              YY == {<<j, update.y + j>> : j \in Y}
              From(x, y) == <<y[1] * update.length_x + x[1], y[2] * GlobalX + x[2]>>
  <2>2. \A i, j : From(<<i, update.x + i>>, <<j, update.y + j>>) = To(i, j)
    BY DEF GlobalCell
  <2>3. /\ \A x \in XX : \E i \in X : x = <<i, update.x + i>>
        /\ \A i \in X : <<i, update.x + i>> \in XX
        /\ \A y \in YY : \E j \in Y : y = <<j, update.y + j>>
        /\ \A j \in Y : <<j, update.y + j>> \in YY
    OBVIOUS
  <2>. HIDE DEF XX, YY, From, To
  <2>4. {From(x, y) : x \in XX, y \in YY} = {To(i, j) : i \in X, j \in Y}
    <3>1. ASSUME NEW x \in XX, NEW y \in YY
          PROVE  From(x, y) \in {To(i, j) : i \in X, j \in Y}
      <4>1. PICK i \in X : x = <<i, update.x + i>>
        BY <2>3
      <4>2. PICK j \in Y : y = <<j, update.y + j>>
        BY <2>3
      <4>3. From(x, y) = To(i, j)
        BY <2>2, <4>1, <4>2
      <4>. QED
        BY <4>3
    <3>2. ASSUME NEW i \in X, NEW j \in Y
          PROVE  To(i, j) \in {From(x, y) : x \in XX, y \in YY}
      <4>1. To(i, j) = From(<<i, update.x + i>>, <<j, update.y + j>>)
        BY <2>2
      <4>. QED
        BY <2>3, <4>1
    <3>. QED
      BY <3>1, <3>2
  <2>. QED
    BY <2>1, <2>4 DEF XX, YY, From
<1>4. {q \in (0..(update.length_x - 1)) \X (0..(update.length_y - 1)) :
         /\ update.x + q[1] \in 0..(GlobalX - 1)
         /\ update.y + q[2] \in 0..(GlobalY - 1)} = X \X Y
  <2>. DEFINE P == {q \in (0..(update.length_x - 1)) \X (0..(update.length_y - 1)) :
                      /\ update.x + q[1] \in 0..(GlobalX - 1)
                      /\ update.y + q[2] \in 0..(GlobalY - 1)}
  <2>1. ASSUME NEW q \in P PROVE q \in X \X Y
    OBVIOUS
  <2>2. ASSUME NEW q \in X \X Y PROVE q \in P
    <3>1. q = <<q[1], q[2]>> /\ q[1] \in X /\ q[2] \in Y
      BY <2>2
    <3>. QED
      BY <3>1
  <2>. HIDE DEF P
  <2>3. P = X \X Y
    BY <2>1, <2>2, Zenon
  <2>. QED
    BY <2>3 DEF P
<1>. HIDE DEF X, Y
<1>5. {<<p[2] * update.length_x + p[1], GlobalCell(update.x + p[1], update.y + p[2])>> :
         p \in X \X Y} = {To(i, j) : i \in X, j \in Y}
  <2>. DEFINE Both(p) == To(p[1], p[2])
  <2>1. \A i \in X, j \in Y : <<i, j>> \in X \X Y /\ Both(<<i, j>>) = To(i, j)
    OBVIOUS
  <2>2. \A p \in X \X Y : p[1] \in X /\ p[2] \in Y /\ Both(p) = To(p[1], p[2])
    OBVIOUS
  <2>. DEFINE XY == X \X Y
  <2>. HIDE DEF Both, To, XY
  <2>3. {Both(p) : p \in XY} = {To(i, j) : i \in X, j \in Y}
    <3>1. ASSUME NEW p \in XY PROVE Both(p) \in {To(i, j) : i \in X, j \in Y}
      BY <2>2 DEF XY
    <3>2. ASSUME NEW i \in X, NEW j \in Y PROVE To(i, j) \in {Both(p) : p \in XY}
      BY <2>1 DEF XY
    <3>. QED
      BY <3>1, <3>2
  <2>. QED
    BY <2>3 DEF Both, To, XY
<1>. QED
  BY <1>3, <1>4, <1>5
=============================================================================
