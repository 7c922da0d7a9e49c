---------------------------- MODULE LocalCostmap ----------------------------
(***************************************************************************)
(* The layers that copy a published map (igvc_navigation/src/mapper): the  *)
(* RollingLayer, whose window moves with the robot and which fills the     *)
(* local costmap from the published global one, and the index arithmetic   *)
(* of the UnrollingLayer, which does the same for a window that stays.     *)
(*                                                                         *)
(* Lengths are in cells.  A message carries its resolution as a float,     *)
(* which for 0.1 m is a little larger than the double of the costmaps:     *)
(* Excess says by how many thousandths.                                    *)
(***************************************************************************)
EXTENDS Integers, Sequences, CostValues

CONSTANTS
  GlobalX, GlobalY,            \* cells of the published map
  LocalX, LocalY,              \* cells of the rolling window
  Origins,                     \* where the window may begin, in cells of the map
  GlobalMaps,                  \* bound: the data of maps that are published
  Excess,                      \* of the float resolution over the double
  Offsets, Lengths             \* bound: where an unrolled map begins, how large it is

GlobalCell(x, y) == y * GlobalX + x

\* The window stays inside of the map and does not touch its lower border,
\* where the rolling layer's index is off by one.  Nowhere in the map does the
\* excess of the float add up to more than a cell.
ASSUME RollingAssumption ==
  /\ LocalX \in Nat \ {0} /\ LocalY \in Nat \ {0} /\ Excess \in Nat
  /\ Origins \subseteq Nat \X Nat
  /\ \A o \in Origins : /\ 1 <= o[1] /\ o[1] + LocalX <= GlobalX
                        /\ 1 <= o[2] /\ o[2] + LocalY <= GlobalY
                        /\ o[1] * Excess \in 1..1000 /\ o[2] * Excess \in 1..1000

VARIABLES
  phase,                       \* of the update thread: "idle", or between bounds and costs
  reading,                     \* the map that the callback copies, and the origin it has read
  origin,                      \* of the layer's window and of the local costmap
  rolling,                     \* the layer's costmap, by linear index
  local,                       \* the local master costmap
  received,                    \* the map that came last
  kept,                        \* cells of the map in the window ever since
  copied,                      \* the local costmap was updated since
  misplaced                    \* the window has moved between that read and the copy

rollingVars == <<phase, reading, origin, rolling, local, received, kept, copied, misplaced>>

LocalCell(x, y) == y * LocalX + x
LocalIndex == 0..(LocalX * LocalY - 1)
LocalPos(k) == <<k % LocalX, k \div LocalX>>
MapPos(o, k) == <<o[1] + LocalPos(k)[1], o[2] + LocalPos(k)[2]>>
Window(o) == {MapPos(o, k) : k \in LocalIndex}
Fresh == [k \in LocalIndex |-> FREE_SPACE]

\* A double cast to an integer loses its fraction.
Truncated(thousandths) ==
  IF thousandths >= 0 THEN thousandths \div 1000 ELSE -((-thousandths) \div 1000)
\* A distance of n cells divided by the resolution of the message.
Quotient(n, excess) == n * (1000 - excess)

\* The message's values are those of an occupancy grid; all but two are free.
FromMessage(data) ==
  CASE data = -1  -> NO_INFORMATION
    [] data = 100 -> LETHAL_OBSTACLE
    [] OTHER      -> FREE_SPACE

\* Variant: the quotient is taken as it is.
global_start_index_Truncated(n) == Truncated(Quotient(n, Excess))
global_start_index(n) == Truncated(Quotient(n, Excess) + 1000)

\* The callback takes the origin of the layer's window before it copies, and the
\* update thread, which moves the window, may come between: nothing locks them.
costmapCallback ==
  /\ reading = <<>>
  /\ \E map \in GlobalMaps : reading' = <<[data |-> map, at |-> origin]>>
  /\ UNCHANGED <<phase, origin, rolling, local, received, kept, copied, misplaced>>

CopyMap ==
  /\ reading # <<>>
  /\ LET map == reading[1].data
         start == <<global_start_index(reading[1].at[1]), global_start_index(reading[1].at[2])>>
     IN  /\ rolling' = [k \in LocalIndex |->
              FromMessage(map[GlobalCell(start[1] + LocalPos(k)[1], start[2] + LocalPos(k)[2])])]
         /\ received' = map
         /\ misplaced' = (reading[1].at # origin)
  /\ reading' = <<>>
  /\ kept' = Window(origin)
  /\ copied' = FALSE
  /\ UNCHANGED <<phase, origin, local>>

\* The window follows the robot: Costmap2D::updateOrigin keeps the cells that
\* stay inside, in their place on the ground.  LayeredCostmap has moved and
\* reset the local costmap in the same way.
RollingBounds ==
  /\ phase = "idle"
  /\ \E o \in Origins :
       /\ origin' = o
       /\ rolling' = [k \in LocalIndex |->
            LET pos == MapPos(o, k)
            IN  IF pos \in Window(origin)
                THEN rolling[LocalCell(pos[1] - origin[1], pos[2] - origin[2])] ELSE FREE_SPACE]
       /\ kept' = kept \cap Window(o)
  /\ local' = Fresh
  /\ phase' = "bounds"
  /\ UNCHANGED <<reading, received, copied, misplaced>>

RollingCosts ==
  /\ phase = "bounds"
  /\ local' = rolling
  /\ phase' = "idle"
  /\ copied' = TRUE
  /\ UNCHANGED <<reading, origin, rolling, received, kept, misplaced>>

RollingInit ==
  /\ phase = "idle" /\ origin \in Origins
  /\ rolling = Fresh /\ local = Fresh
  /\ received \in GlobalMaps /\ kept = {} /\ copied = TRUE
  /\ reading = <<>> /\ misplaced = FALSE
RollingNext == costmapCallback \/ CopyMap \/ RollingBounds \/ RollingCosts
RollingSpec == RollingInit /\ [][RollingNext]_rollingVars

-----------------------------------------------------------------------------
(* calculateMapMetadata and updateMap, for one axis: the update has length *)
(* cells and begins offset cells from the origin of our map, which has     *)
(* ours.  Indices are of type size_t, 2^64, but the number of cells is an  *)
(* unsigned int, 2^32, which the difference is computed in: 2^10 and 2^8.  *)

\* No map and update have more cells in a row, taken together, than an unsigned
\* int counts.
ASSUME UnrollingAssumption ==
  /\ GlobalX \in Nat /\ GlobalY \in Nat /\ Offsets \subseteq Int /\ Lengths \subseteq Nat
  /\ \A n \in Lengths : n + GlobalX < 256 /\ n + GlobalY < 256

SizeT(n) == n % 1024
UnsignedInt(n) == n % 256

map_idx(offset) == Truncated(Quotient(offset, 0))
start_idx(offset) == IF map_idx(offset) < 0 THEN -map_idx(offset) ELSE 0
\* Variant: the update's own end is its last index.
end_idx_Length(offset, length, ours) == length
end_idx(offset, length, ours) ==
  IF SizeT(map_idx(offset) + length) > ours THEN UnsignedInt(ours - map_idx(offset)) ELSE length

\* The cells of the update that are copied, and where to.
updateMap(offset, length, ours) ==
  {<<i, SizeT(map_idx(offset) + i)>> : i \in start_idx(offset)..(end_idx(offset, length, ours) - 1)}

VARIABLE update                \* the offset and the size of an update
UnrollingInit == update \in [x : Offsets, y : Offsets, length_x : Lengths, length_y : Lengths]

Copied ==
  {<<y[1] * update.length_x + x[1], y[2] * GlobalX + x[2]>> :
     x \in updateMap(update.x, update.length_x, GlobalX),
     y \in updateMap(update.y, update.length_y, GlobalY)}

-----------------------------------------------------------------------------
\* The local costmap, once it has been updated after a map came, shows that map
\* at the robot's place: in every cell that has stayed in the window since then,
\* however the window has moved; and what came into it later is free.  The
\* exception is a map that was copied while the window moved.
LocalShowsGlobal ==
  (phase = "idle" /\ copied /\ ~misplaced) =>
    \A k \in LocalIndex :
      LET pos == MapPos(origin, k)
      IN  local[k] = IF pos \in kept THEN FromMessage(received[GlobalCell(pos[1], pos[2])])
                                     ELSE FREE_SPACE

\* An update of any size that overlaps our map, or ends where it begins, is
\* copied cell by cell to the same place on the ground, all of it that lies in
\* our map and nothing outside of either, if the float is exact.
UnrollsInPlace ==
  (/\ update.x \in -update.length_x..GlobalX
   /\ update.y \in -update.length_y..GlobalY) =>
    Copied = {<<p[2] * update.length_x + p[1],
                GlobalCell(update.x + p[1], update.y + p[2])>> :
                p \in {q \in (0..(update.length_x - 1)) \X (0..(update.length_y - 1)) :
                         /\ update.x + q[1] \in 0..(GlobalX - 1)
                         /\ update.y + q[2] \in 0..(GlobalY - 1)}}
=============================================================================
