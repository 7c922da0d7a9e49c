----------------------------- MODULE CostValues -----------------------------
\* costmap_2d/cost_values.h, as the layers of igvc_navigation/src/mapper use it.
EXTENDS Integers

FREE_SPACE      == 0
LETHAL_OBSTACLE == 254
NO_INFORMATION  == 255

Lower(a, b)  == IF a <= b THEN a ELSE b
Higher(a, b) == IF a <= b THEN b ELSE a
=============================================================================
