------------------------------ MODULE Costmaps ------------------------------
(***************************************************************************)
(* The global costmap (igvc_navigation/src/mapper).  Sensor callbacks mark *)
(* cells in the grid map of their layer and extend its dirty window; the   *)
(* update thread of move_base_flex brings the dirty cells into the layer's *)
(* costmap, and the costmaps of all layers into the master costmap.        *)
(*                                                                         *)
(* Steps: an iteration of a callback's loop is two steps (it touches a     *)
(* cell, then writes its log odds); a layer's updateBounds is one, and its *)
(* updateCosts is two, the copy of the dirty cells and the reset of their  *)
(* window.  The two threads interleave without a lock.                     *)
(***************************************************************************)
EXTENDS Integers, Sequences, CostValues

CONSTANTS
  Plugins,                     \* the layers, in the order of the configuration
  SizeX, SizeY,                \* cells of the grid maps and of the costmaps
  MinOccupancy, MaxOccupancy,  \* the limits of the log odds, in marks
  SlopeMaps,                   \* what /slope/gridmap may carry: position -> steep
  Images,                      \* what a camera may see: camera, lines and freespace
  BufferSize,                  \* rows and columns of the projection's buffers
  ClosingSize,                 \* the kernel sizes of the projection
  MaxSquaredDistance,          \* cells that are farther are touched but not marked
  Uninitialised,               \* bound: the windows that uninitialised positions may span
  MaxScans                     \* bound: sensor messages

Layers == {Plugins[i] : i \in DOMAIN Plugins}
Index  == (0..(SizeX - 1)) \X (0..(SizeY - 1))   \* grid_map::Index
NumCells == SizeX * SizeY

ASSUME CostmapsAssumption ==
  /\ SizeX \in Nat \ {0} /\ SizeY \in Nat \ {0}
  /\ Plugins \in Seq(STRING) /\ Layers \subseteq {"traversability", "line"}
  /\ \A i, j \in DOMAIN Plugins : Plugins[i] = Plugins[j] => i = j
  /\ Uninitialised \subseteq [min : Int \X Int, max : Int \X Int]
  /\ MinOccupancy \in Int /\ MaxOccupancy \in Int
  /\ MinOccupancy <= 0 /\ 0 <= MaxOccupancy

VARIABLES
  logodds,                     \* the grid map of each layer
  dirty,                       \* its dirty_min_idx_ and dirty_max_idx_
  costmap_2d_,                 \* its costmap, by linear index
  callback,                    \* the layer whose callback runs, the cells it has left,
                               \* whether it has touched the next of them, and (history)
                               \* whether an update has reset the window since
  scans,                       \* sensor messages so far
  cycle,                       \* what the update thread does next, and for which layer
  window,                      \* the bounds that the layers have asked for
  master,                      \* the master costmap, by linear index
  bounded,                     \* the cells dirty when the bounds of a layer were read
  late,                        \* master cells that were touched after that
  lost                         \* cells written inside of updateCosts, or not dirty any more

mapVars     == <<logodds, dirty, callback, scans, lost>>
updateVars  == <<costmap_2d_, cycle, window, master, bounded, late>>
costmapVars == <<mapVars, updateVars>>

-----------------------------------------------------------------------------
(* The grid: indices grow down and to the left, positions and costmap cells *)
(* up and to the right.                                                     *)

isInside(pos) == pos[1] \in 0..(SizeX - 1) /\ pos[2] \in 0..(SizeY - 1)
getIndex(pos) == <<SizeX - 1 - pos[1], SizeY - 1 - pos[2]>>
getPosition(index) == <<SizeX - 1 - index[1], SizeY - 1 - index[2]>>
getLinearIndexFromIndex(index) == index[2] * SizeX + index[1]
CharIndex(index) == NumCells - getLinearIndexFromIndex(index) - 1
MasterIndex(pos) == pos[2] * SizeX + pos[1]

\* Variant: the third of the four comparisons takes the wrong coordinate.
touch_WrongCoordinate(d, index) ==
  [min |-> <<Lower(d.min[1], index[1]), Lower(d.min[2], index[2])>>,
   max |-> <<Higher(d.max[1], index[2]), Higher(d.max[2], index[2])>>]
touch(d, index) ==
  [min |-> <<Lower(d.min[1], index[1]), Lower(d.min[2], index[2])>>,
   max |-> <<Higher(d.max[1], index[1]), Higher(d.max[2], index[2])>>]

IntMax == 2147483647
Untouched == [min |-> <<IntMax, IntMax>>, max |-> <<-IntMax - 1, -IntMax - 1>>]

\* The cells of getDirtyIterator.
DirtyCells(l) ==
  {index \in Index : \A i \in 1..2 : dirty[l].min[i] <= index[i] /\ index[i] <= dirty[l].max[i]}

\* A probability above occupied_threshold, which is 0.5, is a positive log odds.
Cost(level) == IF level > 0 THEN LETHAL_OBSTACLE ELSE FREE_SPACE

-----------------------------------------------------------------------------
(* The sensor callbacks.  Every message becomes a set of cells with what is *)
(* added to each: 1 for a hit, -1 for a miss, 0 for a cell only touched.    *)

markHit(level)   == Lower(level + 1, MaxOccupancy)
markEmpty(level) == Higher(level - 1, MinOccupancy)

Marked(level, step) ==
  IF step = 1 THEN markHit(level) ELSE IF step = -1 THEN markEmpty(level) ELSE level

Working(l, cells) == [layer |-> l, left |-> cells, touched |-> FALSE, undone |-> FALSE]
NoCallback == Working("none", {})
CallbackStarts(l, cells) ==
  /\ l \in Layers /\ scans < MaxScans /\ callback.left = {}
  /\ callback' = IF cells = {} THEN NoCallback ELSE Working(l, cells)
  /\ scans' = scans + 1
  /\ UNCHANGED <<logodds, dirty, lost, updateVars>>

\* Positions of the slope map that are outside of the layer's map are skipped.
slopeMapCallback ==
  \E slope \in SlopeMaps :
    CallbackStarts("traversability",
      {<<getIndex(pos), IF slope[pos] THEN 1 ELSE -1>> : pos \in {p \in DOMAIN slope : isInside(p)}})

(* The projection: what the camera sees goes into buffers around it, where  *)
(* gaps are closed and lines taken out of the free space, and from there    *)
(* into the map.                                                            *)
Buffer2 == (0..(BufferSize - 1)) \X (0..(BufferSize - 1))
Center == BufferSize \div 2
calculateBufferIndex(index, camera) ==
  <<index[1] - camera[1] + Center - 1, index[2] - camera[2] + Center - 1>>
MapIndex(cell, camera) ==
  <<camera[1] - Center + 1 + cell[1], camera[2] - Center + 1 + cell[2]>>
projectImage(indices, camera) == {calculateBufferIndex(i, camera) : i \in indices} \cap Buffer2

\* The camera is never so near to the border of the map that the buffer reaches
\* over it: insertProjectionsIntoMap does not check.
ASSUME ImagesAssumption ==
  \A image \in Images : \A cell \in Buffer2 : MapIndex(cell, image.camera) \in Index

Around2(cell) ==
  {c \in Buffer2 : \A i \in 1..2 : c[i] - cell[i] \in -ClosingSize..ClosingSize}
Closed(cells) ==
  LET dilated == {c \in Buffer2 : Around2(c) \cap cells # {}}
  IN  {c \in Buffer2 : Around2(c) \subseteq dilated}

Near(index, camera) ==
  LET dx == index[1] - camera[1]  dy == index[2] - camera[2]
  IN  dx * dx + dy * dy < MaxSquaredDistance

imageSyncedCallback ==
  \E image \in Images :
    LET camera    == image.camera
        lines     == Closed(projectImage(image.lines, camera))
        freespace == Closed(projectImage(image.freespace, camera)) \ lines
        Marks(cells, step) ==
          {<<index, IF Near(index, camera) THEN step ELSE 0>> :
             index \in {MapIndex(c, camera) : c \in cells}}
    IN  CallbackStarts("line", Marks(lines, 1) \cup Marks(freespace, -1))

\* One iteration of the loop in the callback: touch, then the write.  The loop
\* has an order, which makes no difference: the cells are distinct.
Todo == CHOOSE todo \in callback.left : TRUE
TouchCell ==
  /\ callback.left # {} /\ ~callback.touched
  /\ dirty' = [dirty EXCEPT ![callback.layer] = touch(@, Todo[1])]
  /\ callback' = [callback EXCEPT !.touched = TRUE]
  /\ UNCHANGED <<logodds, scans, lost, updateVars>>

\* A cell is lost that is written after the copy and before the reset of the
\* window, or that an update has taken out of the window since it was touched.
MarkCell ==
  /\ callback.touched
  /\ LET l == callback.layer  index == Todo[1]  step == Todo[2]
         inUpdate == cycle.phase = "combine" /\ Plugins[cycle.next] = l
     IN  /\ logodds' = [logodds EXCEPT ![l][index] = Marked(@, step)]
         /\ callback' = IF callback.left = {Todo} THEN NoCallback
                        ELSE Working(l, callback.left \ {Todo})
         /\ lost' = IF step # 0 /\ (inUpdate \/ callback.undone)
                    THEN [lost EXCEPT ![l] = @ \cup {index}] ELSE lost
  /\ UNCHANGED <<dirty, scans, updateVars>>

-----------------------------------------------------------------------------
(* The update thread: LayeredCostmap::updateMap calls updateBounds of every *)
(* layer, resets the window they ask for, and calls updateCosts of each.    *)

NoWindow == [min |-> <<SizeX, SizeY>>, max |-> <<-1, -1>>]
\* Variant: the corners are taken as if positions grew with indices.
Corners_AsIndices(d) == [min |-> getPosition(d.min), max |-> getPosition(d.max)]
\* The minimum has the position of dirty_max_idx_: indices grow down and to the left.
Corners(d) == [min |-> getPosition(d.max), max |-> getPosition(d.min)]

Grown(w, v) ==
  [min |-> <<Lower(w.min[1], v.min[1]), Lower(w.min[2], v.min[2])>>,
   max |-> <<Higher(w.max[1], v.max[1]), Higher(w.max[2], v.max[2])>>]
WindowCells(w) ==
  {MasterIndex(pos) : pos \in {p \in Index : \A i \in 1..2 : w.min[i] <= p[i] /\ p[i] <= w.max[i]}}

StartUpdate ==
  /\ cycle.phase = "idle"
  /\ cycle' = [phase |-> "bounds", next |-> 1]
  /\ UNCHANGED <<mapVars, costmap_2d_, window, master, bounded, late>>

\* If the layer has not been touched, getPosition fails, min_pos and max_pos
\* stay uninitialised, and the window grows to anything.
updateBounds ==
  /\ cycle.phase = "bounds" /\ cycle.next <= Len(Plugins)
  /\ LET l == Plugins[cycle.next]
     IN  /\ IF dirty[l] = Untouched THEN \E w \in Uninitialised : window' = Grown(window, w)
                                    ELSE window' = Grown(window, Corners(dirty[l]))
         /\ bounded' = [bounded EXCEPT ![l] = DirtyCells(l)]
  /\ cycle' = [cycle EXCEPT !.next = @ + 1]
  /\ UNCHANGED <<mapVars, costmap_2d_, master, late>>

ResetWindow ==
  /\ cycle.phase = "bounds" /\ cycle.next > Len(Plugins)
  /\ master' = [k \in DOMAIN master |-> IF k \in WindowCells(window) THEN FREE_SPACE ELSE master[k]]
  /\ late' = late \ WindowCells(window)
  /\ cycle' = IF Plugins = <<>> \/ \E i \in 1..2 : window.max[i] < window.min[i]
              THEN [phase |-> "idle", next |-> 1] ELSE [phase |-> "transfer", next |-> 1]
  /\ window' = IF cycle'.phase = "idle" THEN NoWindow ELSE window
  /\ bounded' = IF cycle'.phase = "idle" THEN [l \in Layers |-> {}] ELSE bounded
  /\ UNCHANGED <<mapVars, costmap_2d_>>

\* The first half of updateCosts: transferToCostmap, that is updateStaticWindow.
TransferToCostmap ==
  /\ cycle.phase = "transfer"
  /\ LET l == Plugins[cycle.next]
         cells == DirtyCells(l)
     IN  costmap_2d_' = [costmap_2d_ EXCEPT ![l] =
           [k \in DOMAIN @ |-> IF k \in {CharIndex(c) : c \in cells}
                               THEN Cost(logodds[l][CHOOSE c \in cells : CharIndex(c) = k])
                               ELSE @[k]]]
         /\ lost' = [lost EXCEPT ![l] = @ \ cells]
  /\ cycle' = [cycle EXCEPT !.phase = "combine"]
  /\ UNCHANGED <<logodds, dirty, callback, scans, window, master, bounded, late>>

\* The second half: resetDirty, and the larger cost goes into the master.
UpdateCosts ==
  /\ cycle.phase = "combine"
  /\ LET l == Plugins[cycle.next]
     IN  /\ dirty' = [dirty EXCEPT ![l] = Untouched]
         /\ callback' = IF callback.touched /\ callback.layer = l
                        THEN [callback EXCEPT !.undone = TRUE] ELSE callback
         /\ late' = late \cup ({MasterIndex(getPosition(c)) : c \in DirtyCells(l) \ bounded[l]}
                                  \ WindowCells(window))
         /\ bounded' = [bounded EXCEPT ![l] = {}]
         /\ master' = [k \in DOMAIN master |->
              IF k \in WindowCells(window) /\ (master[k] = NO_INFORMATION \/ master[k] < costmap_2d_[l][k])
              THEN costmap_2d_[l][k] ELSE master[k]]
  /\ cycle' = IF cycle.next = Len(Plugins) THEN [phase |-> "idle", next |-> 1]
              ELSE [phase |-> "transfer", next |-> cycle.next + 1]
  /\ window' = IF cycle'.phase = "idle" THEN NoWindow ELSE window
  /\ UNCHANGED <<logodds, scans, lost, costmap_2d_>>

-----------------------------------------------------------------------------
CostmapInit ==
  /\ logodds = [l \in Layers |-> [index \in Index |-> 0]]
  /\ dirty = [l \in Layers |-> Untouched]
  /\ costmap_2d_ = [l \in Layers |-> [k \in 0..(NumCells - 1) |-> FREE_SPACE]]
  /\ callback = NoCallback
  /\ scans = 0
  /\ cycle = [phase |-> "idle", next |-> 1]
  /\ window = NoWindow
  /\ master = [k \in 0..(NumCells - 1) |-> FREE_SPACE]
  /\ bounded = [l \in Layers |-> {}]
  /\ late = {} /\ lost = [l \in Layers |-> {}]

CostmapNext ==
  \/ slopeMapCallback \/ imageSyncedCallback \/ TouchCell \/ MarkCell
  \/ StartUpdate \/ updateBounds \/ ResetWindow \/ TransferToCostmap \/ UpdateCosts

CostmapSpec == CostmapInit /\ [][CostmapNext]_costmapVars

-----------------------------------------------------------------------------
\* "We can only update dirty cells" (lidar_layer.cpp:187): a cell outside of a
\* layer's dirty window costs in its costmap what its log odds say, although the
\* window is extended by one thread and reset by the other.  The exceptions are
\* the cells whose write fell between the copy and the reset of the window, or
\* whose window was reset between their touch and their write, and that have not
\* been copied since then.
LagsOnlyWhereDirty ==
  \A l \in Layers : \A index \in Index \ lost[l] :
    index \notin DirtyCells(l) => costmap_2d_[l][CharIndex(index)] = Cost(logodds[l][index])

\* Between updates the master costmap shows an obstacle where one of the layers
\* has one and nowhere else, at the position of its cell, unless the cell has
\* been touched since that layer's bounds were read.
MasterShowsMaps ==
  cycle.phase = "idle" =>
    \A index \in Index :
      LET k == MasterIndex(getPosition(index))
      IN  k \notin late /\ (\A l \in Layers : index \notin DirtyCells(l) \cup lost[l]) =>
            master[k] = Cost(IF \E l \in Layers : logodds[l][index] > 0 THEN 1 ELSE 0)
=============================================================================
