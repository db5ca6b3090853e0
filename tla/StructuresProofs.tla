---------------------------- MODULE StructuresProofs ---------------------------
(***************************************************************************)
(* For every grid, mask and resolution (Structures): the opening keeps the *)
(* squares that fit, the forest that the scan builds has a tree for each   *)
(* blob, and the verdict is that of the largest compact blob.  A tree is   *)
(* told by the sets of pixels that the parent links never leave, a blob by *)
(* those that touching never leaves, so that no path has to be followed.   *)
(***************************************************************************)
EXTENDS Structures, FiniteSetTheorems, TLAPS

Working == {"scan", "find_a", "find_b", "label", "find", "pick"}
Labelling == {"label", "find", "pick"}

\* Types of what the union-find uses.
Types ==
    /\ built \subseteq Grid
    /\ pc \in {"cover", "erode", "dilate", "judge", "done"} \cup Working
    /\ pc \in Working => parent \in [built -> built]
    /\ pc \in {"find_a", "find_b", "find"} => node \in built
    /\ pc = "find_b" => root \in built
    /\ pc \in Working => at \in Nat

\* A link stays within a blob.
LinksStay ==
    pc \in Working => \A S \in SUBSET built : TouchClosed(S) => ParentClosed(S)

\* Pixels united so far are in one tree.
UnitedSoFar ==
    pc \in Working =>
        \A S \in SUBSET built : ParentClosed(S) =>
            \A e \in 0 .. Edges - 1 :
                IsEdge(e) /\ (pc \in Labelling \/ e < at) => (Pixel(e) \in S <=> Beside(e) \in S)

\* find stays in the tree it was called in, and its first result stays a root.
FindStays ==
    /\ pc \in {"find_a", "find_b"} => at \in 0 .. Edges - 1 /\ IsEdge(at)
    /\ pc = "find_a" =>
           \A S \in SUBSET built : ParentClosed(S) => (Pixel(at) \in S <=> node \in S)
    /\ pc = "find_b" =>
           /\ parent[root] = root
           /\ \A S \in SUBSET built : ParentClosed(S) =>
                  (Pixel(at) \in S <=> root \in S) /\ (Beside(at) \in S <=> node \in S)

SInv == Types /\ LinksStay /\ UnitedSoFar /\ FindStays

--------------------------------------------------------------------------------
(* Geometry: two pixels that touch are the two ends of an edge.            *)

LEMMA PixelCoordinates ==
    ASSUME NEW p \in Grid
    PROVE  /\ Row(p) \in 0 .. Height - 1 /\ Col(p) \in 0 .. Width - 1
           /\ p = Row(p) * Width + Col(p)
<1>1. p \in Nat /\ p < Height * Width
  BY GridAssumption DEF Grid
<1>2. p = Row(p) * Width + Col(p) /\ Col(p) \in 0 .. Width - 1 /\ Row(p) \in Nat
  BY <1>1, GridAssumption DEF Row, Col
<1>3. Row(p) < Height
  BY <1>1, <1>2, GridAssumption
<1> QED BY <1>2, <1>3, GridAssumption

LEMMA NeighbourIsEdge ==
    ASSUME NEW p \in Grid, NEW side \in 0 .. 3
    PROVE  /\ 4 * p + side \in 0 .. Edges - 1
           /\ Pixel(4 * p + side) = p
           /\ Beside(4 * p + side) = Neighbour(p, side)
<1>1. p \in 0 .. Height * Width - 1 /\ Height * Width \in Nat
  BY GridAssumption DEF Grid
<1>2. (4 * p + side) \div 4 = p /\ (4 * p + side) % 4 = side
  BY <1>1
<1>3. 4 * p + side \in 0 .. 4 * (Height * Width) - 1
  BY <1>1
<1>4. Edges = 4 * (Height * Width)
  BY GridAssumption DEF Edges
<1> QED BY <1>2, <1>3, <1>4 DEF Pixel, Beside

LEMMA TouchIsEdge ==
    ASSUME NEW p \in Grid, NEW q \in Grid, Touch(p, q), p # q
    PROVE  \E e \in 0 .. Edges - 1 : (Pixel(e) = p /\ Beside(e) = q) \/ (Pixel(e) = q /\ Beside(e) = p)
<1>1. /\ Row(p) \in 0 .. Height - 1 /\ Col(p) \in 0 .. Width - 1
      /\ p = Row(p) * Width + Col(p)
      /\ Row(q) \in 0 .. Height - 1 /\ Col(q) \in 0 .. Width - 1
      /\ q = Row(q) * Width + Col(q)
  BY PixelCoordinates
<1>2. Row(p) - Row(q) \in -1 .. 1 /\ Col(p) - Col(q) \in -1 .. 1
  BY DEF Touch, Around, Block, Within
<1>3. \A x \in Grid, y \in Grid, side \in 0 .. 3 :
          Neighbour(x, side) = y => \E e \in 0 .. Edges - 1 : Pixel(e) = x /\ Beside(e) = y
  BY NeighbourIsEdge
<1>4. ~(Row(p) = Row(q) /\ Col(p) = Col(q))
  BY <1>1
<1> DEFINE Above(x, y) ==
        \E side \in 0 .. 3 : Neighbour(x, side) = y
<1>5. Above(p, q) \/ Above(q, p)
  <2>1. CASE Row(q) = Row(p) - 1 /\ Col(q) = Col(p) - 1
    BY <1>1, <2>1, GridAssumption DEF Neighbour, Cell
  <2>2. CASE Row(q) = Row(p) - 1 /\ Col(q) = Col(p)
    BY <1>1, <2>2, GridAssumption DEF Neighbour, Cell
  <2>3. CASE Row(q) = Row(p) - 1 /\ Col(q) = Col(p) + 1
    BY <1>1, <2>3, GridAssumption DEF Neighbour, Cell
  <2>4. CASE Row(q) = Row(p) /\ Col(q) = Col(p) - 1
    BY <1>1, <2>4, GridAssumption DEF Neighbour, Cell
  <2>5. CASE Row(p) = Row(q) - 1 /\ Col(p) = Col(q) - 1
    BY <1>1, <2>5, GridAssumption DEF Neighbour, Cell
  <2>6. CASE Row(p) = Row(q) - 1 /\ Col(p) = Col(q)
    BY <1>1, <2>6, GridAssumption DEF Neighbour, Cell
  <2>7. CASE Row(p) = Row(q) - 1 /\ Col(p) = Col(q) + 1
    BY <1>1, <2>7, GridAssumption DEF Neighbour, Cell
  <2>8. CASE Row(p) = Row(q) /\ Col(p) = Col(q) - 1
    BY <1>1, <2>8, GridAssumption DEF Neighbour, Cell
  <2>9. \/ Row(q) = Row(p) - 1 \/ Row(q) = Row(p) \/ Row(p) = Row(q) - 1
    BY <1>1, <1>2, GridAssumption
  <2>10. \/ Col(q) = Col(p) - 1 \/ Col(q) = Col(p) \/ Col(q) = Col(p) + 1
    BY <1>1, <1>2, GridAssumption
  <2>11. Col(p) \in Int /\ Col(q) \in Int
    BY <1>1, GridAssumption
  <2>12. (Col(q) = Col(p) + 1 => Col(p) = Col(q) - 1) /\ (Col(q) = Col(p) - 1 => Col(p) = Col(q) + 1)
    BY <2>11
  <2> HIDE DEF Above
  <2> QED BY <1>4, <2>1, <2>2, <2>3, <2>4, <2>5, <2>6, <2>7, <2>8, <2>9, <2>10, <2>12, Zenon
<1> QED BY <1>3, <1>5

LEMMA CellCoordinates ==
    ASSUME NEW r \in 0 .. Height - 1, NEW c \in 0 .. Width - 1
    PROVE  Row(r * Width + c) = r /\ Col(r * Width + c) = c
<1>1. r \in Nat /\ c \in Nat /\ c < Width /\ Width \in Nat /\ Width > 0
  BY GridAssumption
<1>2. r * Width + c \in Nat
  BY <1>1
<1>3. (r * Width + c) \div Width = r
  BY <1>1, <1>2
<1>4. (r * Width + c) % Width = c
  BY <1>1, <1>2, <1>3
<1> QED BY <1>3, <1>4 DEF Row, Col

\* The two ends of an edge touch.
LEMMA EdgeTouches ==
    ASSUME NEW e \in 0 .. Edges - 1, IsEdge(e), built \subseteq Grid
    PROVE  Touch(Pixel(e), Beside(e))
<1> DEFINE p == Pixel(e)
           q == Beside(e)
<1>1. p \in Grid /\ q \in Grid
  BY DEF IsEdge
<1>2. q # Unset
  BY <1>1, GridAssumption DEF Grid, Unset
<1>3. e % 4 \in 0 .. 3
  BY GridAssumption DEF Edges
<1>4. /\ Row(p) \in 0 .. Height - 1 /\ Col(p) \in 0 .. Width - 1
  BY <1>1, PixelCoordinates
<1>5. \E r \in 0 .. Height - 1, c \in 0 .. Width - 1 :
          /\ q = r * Width + c
          /\ Row(p) - r \in -1 .. 1 /\ Col(p) - c \in -1 .. 1
  <2> DEFINE s == e % 4
  <2>1. q = Neighbour(p, s)
    BY DEF Pixel, Beside
  <2>2. \A r, c \in Int : Cell(r, c) # Unset =>
            r \in 0 .. Height - 1 /\ c \in 0 .. Width - 1 /\ Cell(r, c) = r * Width + c
    BY DEF Cell
  <2>3. Row(p) \in Int /\ Col(p) \in Int
    BY <1>4, GridAssumption
  <2> HIDE DEF p, q, s
  <2>4. s \in 0 .. 3
    BY <1>3 DEF s
  <2>5. CASE s = 0
    BY <1>2, <2>1, <2>2, <2>3, <2>5 DEF Neighbour
  <2>6. CASE s = 1
    BY <1>2, <2>1, <2>2, <2>3, <2>6 DEF Neighbour
  <2>7. CASE s = 2
    BY <1>2, <2>1, <2>2, <2>3, <2>7 DEF Neighbour
  <2>8. CASE s = 3
    BY <1>2, <2>1, <2>2, <2>3, <2>8 DEF Neighbour
  <2> QED BY <2>4, <2>5, <2>6, <2>7, <2>8
<1>6. Row(p) - Row(q) \in -1 .. 1 /\ Col(p) - Col(q) \in -1 .. 1
  BY <1>5, CellCoordinates
<1> QED BY <1>1, <1>6 DEF Touch, Around, Block, Within

--------------------------------------------------------------------------------
(* The forest.                                                             *)

\* Path halving changes no tree: a set is closed under the links before it exactly if it
\* is closed under those after it.
LEMMA HalvingKeepsTrees ==
    ASSUME Types, pc \in {"find_a", "find_b", "find"}, parent[node] # node,
           built' = built, parent' = Halved(node), NEW S \in SUBSET built
    PROVE  ParentClosed(S)' <=> ParentClosed(S)
<1>1. node \in built /\ parent \in [built -> built]
  BY DEF Types, Working
<1>2. parent[node] \in built /\ parent[parent[node]] \in built
  BY <1>1
<1>3. parent'[node] = parent[parent[node]]
  BY <1>1 DEF Halved
<1>4. \A p \in built : p # node => parent'[p] = parent[p]
  BY <1>1 DEF Halved
<1>5. ASSUME ParentClosed(S) PROVE ParentClosed(S)'
  BY <1>1, <1>2, <1>3, <1>4, <1>5 DEF ParentClosed
<1>6. ASSUME ParentClosed(S)' PROVE ParentClosed(S)
  <2>1. \A p \in built : p \in S <=> parent'[p] \in S
    BY <1>6 DEF ParentClosed
  <2>2. parent[node] \in S <=> parent[parent[node]] \in S
    BY <1>2, <1>4, <2>1
  <2>3. node \in S <=> parent[node] \in S
    BY <1>1, <1>3, <2>1, <2>2
  <2> QED BY <1>4, <2>1, <2>3 DEF ParentClosed
<1> QED BY <1>5, <1>6

\* Linking two roots joins their trees: a set is closed under the new links if it was
\* under the old ones and holds both roots or none, and only then.
LEMMA LinkingJoinsTrees ==
    ASSUME Types, pc = "find_b", parent[root] = root, parent[node] = node,
           built' = built, parent' = Linked(root, node), NEW S \in SUBSET built
    PROVE  ParentClosed(S)' <=> (ParentClosed(S) /\ (root \in S <=> node \in S))
<1>1. root \in built /\ node \in built /\ parent \in [built -> built]
  BY DEF Types, Working
<1>2. CASE root = node
  BY <1>2 DEF Linked, ParentClosed
<1>3. CASE root # node /\ root < node
  <2>1. parent'[node] = root /\ \A p \in built : p # node => parent'[p] = parent[p]
    BY <1>1, <1>3 DEF Linked
  <2> QED BY <1>1, <2>1 DEF ParentClosed
<1>4. CASE root # node /\ ~(root < node)
  <2>1. parent'[root] = node /\ \A p \in built : p # root => parent'[p] = parent[p]
    BY <1>1, <1>4 DEF Linked
  <2> QED BY <1>1, <2>1 DEF ParentClosed
<1> QED BY <1>2, <1>3, <1>4

LEMMA SInit == Init => SInv
BY DEF Init, SInv, Types, LinksStay, UnitedSoFar, FindStays, Working, Labelling

LEMMA SStep == SInv /\ [Next]_vars => SInv'
<1> SUFFICES ASSUME SInv, [Next]_vars PROVE SInv'
  OBVIOUS
<1> USE DEF SInv
<1>1. CASE Refuse
  BY <1>1 DEF Refuse, Types, LinksStay, UnitedSoFar, FindStays, Working, Labelling
<1>2. CASE Measure
  BY <1>2 DEF Measure, NewBuiltUp, Types, LinksStay, UnitedSoFar, FindStays, Working, Labelling
<1>3. CASE ErodeOnce
  BY <1>3 DEF ErodeOnce, Erode, Types, LinksStay, UnitedSoFar, FindStays, Working, Labelling
<1>4. CASE BeginDilate
  BY <1>4 DEF BeginDilate, Types, LinksStay, UnitedSoFar, FindStays, Working, Labelling
<1>5. CASE DilateOnce
  BY <1>5 DEF DilateOnce, Dilate, Types, LinksStay, UnitedSoFar, FindStays, Working, Labelling
<1>6. CASE BeginScan
  <2>1. Types'
    BY <1>6 DEF BeginScan, Types, Working
  <2>2. LinksStay'
    BY <1>6 DEF BeginScan, Types, LinksStay, ParentClosed, Working
  <2>3. UnitedSoFar'
    BY <1>6 DEF BeginScan, UnitedSoFar, Labelling, Working
  <2>4. FindStays'
    BY <1>6 DEF BeginScan, FindStays
  <2> QED BY <2>1, <2>2, <2>3, <2>4
<1>7. CASE Skip
  <2>1. Types'
    BY <1>7 DEF Skip, Types, Working
  <2>2. LinksStay'
    BY <1>7 DEF Skip, LinksStay, ParentClosed, TouchClosed, Working
  <2>3. UnitedSoFar'
    <3> SUFFICES ASSUME NEW S \in SUBSET built, ParentClosed(S),
                        NEW e \in 0 .. Edges - 1, IsEdge(e), e < at + 1
                 PROVE  Pixel(e) \in S <=> Beside(e) \in S
      BY <1>7 DEF Skip, UnitedSoFar, ParentClosed, IsEdge, Pixel, Beside, Labelling
    <3>1. at \in Nat /\ e \in Int /\ e # at
      BY <1>7 DEF Skip, Types, Working
    <3>2. e < at
      BY <3>1
    <3> QED BY <1>7, <3>2 DEF Skip, UnitedSoFar, Working
  <2>4. FindStays'
    BY <1>7 DEF Skip, FindStays
  <2> QED BY <2>1, <2>2, <2>3, <2>4
<1>8. CASE Unite
  <2>1. Types'
    BY <1>8 DEF Unite, Types, Working, IsEdge
  <2>2. LinksStay'
    BY <1>8 DEF Unite, LinksStay, ParentClosed, TouchClosed, Working
  <2>3. UnitedSoFar'
    BY <1>8 DEF Unite, UnitedSoFar, ParentClosed, IsEdge, Pixel, Beside, Labelling, Working
  <2>4. at \in 0 .. Edges - 1
    BY <1>8, GridAssumption DEF Unite, Types, Working, Edges
  <2>5. FindStays'
    BY <1>8, <2>4 DEF Unite, FindStays, IsEdge, Pixel, Beside
  <2> QED BY <2>1, <2>2, <2>3, <2>5
<1>9. CASE Climb
  <2>1. \A S \in SUBSET built : ParentClosed(S)' <=> ParentClosed(S)
    BY <1>9, HalvingKeepsTrees DEF Climb
  <2>2. node' = parent[parent[node]] /\ node \in built /\ parent[node] \in built
    BY <1>9 DEF Climb, Halved, Types, Working
  <2>3. Types'
    BY <1>9, <2>2 DEF Climb, Halved, Types, Working
  <2>4. LinksStay'
    BY <1>9, <2>1 DEF Climb, LinksStay, TouchClosed, Working
  <2>5. UnitedSoFar'
    BY <1>9, <2>1 DEF Climb, UnitedSoFar, IsEdge, Pixel, Beside, Labelling, Working
  <2>6. \A S \in SUBSET built : ParentClosed(S) => (node' \in S <=> node \in S)
    BY <2>2 DEF ParentClosed
  <2>7. pc = "find_b" => parent'[root] = root
    BY <1>9, <2>2 DEF Climb, Halved, FindStays, Types, Working
  <2>8. FindStays'
    BY <1>9, <2>1, <2>6, <2>7 DEF Climb, FindStays, IsEdge, Pixel, Beside
  <2> QED BY <2>3, <2>4, <2>5, <2>8
<1>10. CASE FoundA
  <2>1. Types'
    BY <1>10 DEF FoundA, Types, Working, FindStays, IsEdge
  <2>2. LinksStay'
    BY <1>10 DEF FoundA, LinksStay, ParentClosed, TouchClosed, Working
  <2>3. UnitedSoFar'
    BY <1>10 DEF FoundA, UnitedSoFar, ParentClosed, IsEdge, Pixel, Beside, Labelling, Working
  <2>4. FindStays'
    BY <1>10 DEF FoundA, FindStays, ParentClosed, IsEdge, Pixel, Beside
  <2> QED BY <2>1, <2>2, <2>3, <2>4
<1>11. CASE FoundB
  <2>1. \A S \in SUBSET built :
            ParentClosed(S)' <=> (ParentClosed(S) /\ (root \in S <=> node \in S))
    BY <1>11, LinkingJoinsTrees DEF FoundB, FindStays
  <2>2. Types'
    BY <1>11 DEF FoundB, Linked, Types, Working
  <2>3. LinksStay'
    <3> SUFFICES ASSUME NEW S \in SUBSET built, TouchClosed(S)
                 PROVE  root \in S <=> node \in S
      BY <1>11, <2>1 DEF FoundB, LinksStay, TouchClosed, Working
    <3>1. ParentClosed(S)
      BY <1>11 DEF FoundB, LinksStay, Working
    <3>2. Pixel(at) \in S <=> Beside(at) \in S
      BY <1>11, EdgeTouches DEF FoundB, FindStays, Types, TouchClosed, IsEdge
    <3> QED BY <1>11, <3>1, <3>2 DEF FoundB, FindStays
  <2>4. UnitedSoFar'
    <3> SUFFICES ASSUME NEW S \in SUBSET built, ParentClosed(S)',
                        NEW e \in 0 .. Edges - 1, IsEdge(e), e < at + 1
                 PROVE  Pixel(e) \in S <=> Beside(e) \in S
      BY <1>11 DEF FoundB, UnitedSoFar, IsEdge, Pixel, Beside, Labelling
    <3>1. ParentClosed(S) /\ (root \in S <=> node \in S)
      BY <2>1
    <3>2. CASE e = at
      BY <1>11, <3>1, <3>2 DEF FoundB, FindStays
    <3>3. CASE e # at
      <4>1. e < at
        BY <1>11, <3>3 DEF FoundB, Types, Working
      <4> QED BY <1>11, <3>1, <4>1 DEF FoundB, UnitedSoFar, Working
    <3> QED BY <3>2, <3>3
  <2>5. FindStays'
    BY <1>11 DEF FoundB, FindStays
  <2> QED BY <2>2, <2>3, <2>4, <2>5
<1>12. CASE BeginLabels
  <2>1. Types' /\ FindStays'
    BY <1>12 DEF BeginLabels, Types, FindStays, Working
  <2>2. LinksStay'
    BY <1>12 DEF BeginLabels, LinksStay, ParentClosed, TouchClosed, Working
  <2>3. UnitedSoFar'
    <3>1. \A e \in 0 .. Edges - 1 : e < Edges
      BY GridAssumption DEF Edges
    <3> QED BY <1>12, <3>1 DEF BeginLabels, UnitedSoFar, ParentClosed, IsEdge, Pixel, Beside, Labelling, Working
  <2> QED BY <2>1, <2>2, <2>3
<1>13. CASE FindLabel
  <2>1. Types' /\ FindStays'
    BY <1>13 DEF FindLabel, Types, FindStays, Working
  <2>2. LinksStay'
    BY <1>13 DEF FindLabel, LinksStay, ParentClosed, TouchClosed, Working
  <2>3. UnitedSoFar'
    BY <1>13 DEF FindLabel, UnitedSoFar, ParentClosed, IsEdge, Pixel, Beside, Labelling, Working
  <2> QED BY <2>1, <2>2, <2>3
<1>14. CASE FoundLabel
  <2>1. Types' /\ FindStays'
    BY <1>14 DEF FoundLabel, Types, FindStays, Working
  <2>2. LinksStay'
    BY <1>14 DEF FoundLabel, LinksStay, ParentClosed, TouchClosed, Working
  <2>3. UnitedSoFar'
    BY <1>14 DEF FoundLabel, UnitedSoFar, ParentClosed, IsEdge, Pixel, Beside, Labelling, Working
  <2> QED BY <2>1, <2>2, <2>3
<1>15. CASE BeginPick
  <2>1. Types' /\ FindStays'
    BY <1>15 DEF BeginPick, Types, FindStays, Working
  <2>2. LinksStay'
    BY <1>15 DEF BeginPick, LinksStay, ParentClosed, TouchClosed, Working
  <2>3. UnitedSoFar'
    BY <1>15 DEF BeginPick, UnitedSoFar, ParentClosed, IsEdge, Pixel, Beside, Labelling, Working
  <2> QED BY <2>1, <2>2, <2>3
<1>16. CASE Pick
  <2>1. Types' /\ FindStays'
    BY <1>16 DEF Pick, Types, FindStays, Working
  <2>2. LinksStay'
    BY <1>16 DEF Pick, LinksStay, ParentClosed, TouchClosed, Working
  <2>3. UnitedSoFar'
    BY <1>16 DEF Pick, UnitedSoFar, ParentClosed, IsEdge, Pixel, Beside, Labelling, Working
  <2> QED BY <2>1, <2>2, <2>3
<1>17. CASE EndPick
  BY <1>17 DEF EndPick, Types, LinksStay, UnitedSoFar, FindStays, Working, Labelling
<1>18. CASE Judge
  BY <1>18 DEF Judge, Types, LinksStay, UnitedSoFar, FindStays, Working, Labelling
<1>19. CASE UNCHANGED vars
  BY <1>19 DEF vars, Types, LinksStay, UnitedSoFar, FindStays, ParentClosed, TouchClosed,
               IsEdge, Pixel, Beside, Working, Labelling
<1> QED
  BY <1>1, <1>2, <1>3, <1>4, <1>5, <1>6, <1>7, <1>8, <1>9, <1>10, <1>11, <1>12, <1>13,
     <1>14, <1>15, <1>16, <1>17, <1>18, <1>19 DEF Next

--------------------------------------------------------------------------------
LEMMA SInvAlways == Spec => []SInv
BY SInit, SStep, PTL DEF Spec

\* Once every edge was united, a set the links never leave is one that touching never leaves.
LEMMA TreesAreClosed ==
    ASSUME SInv, pc \in Labelling
    PROVE  \A S \in SUBSET built : ParentClosed(S) <=> TouchClosed(S)
<1> SUFFICES ASSUME NEW S \in SUBSET built, ParentClosed(S),
                    NEW p \in built, NEW q \in built, Touch(p, q)
             PROVE  p \in S <=> q \in S
  BY DEF SInv, LinksStay, Working, Labelling, TouchClosed
<1>1. CASE p = q
  BY <1>1
<1>2. CASE p # q
  <2>1. p \in Grid /\ q \in Grid
    BY DEF SInv, Types
  <2>2. PICK e \in 0 .. Edges - 1 : (Pixel(e) = p /\ Beside(e) = q) \/ (Pixel(e) = q /\ Beside(e) = p)
    BY <1>2, <2>1, TouchIsEdge
  <2>3. IsEdge(e)
    BY <2>2 DEF IsEdge
  <2> QED BY <2>2, <2>3 DEF SInv, UnitedSoFar, Working, Labelling
<1> QED BY <1>1, <1>2

\* When the blobs are measured the forest has exactly a tree for each blob, whatever the
\* grid and the mask (TreesAreBlobs; find, union).
THEOREM ForestIsBlobs == Spec => []TreesAreBlobs
<1>1. SInv => TreesAreBlobs
  BY TreesAreClosed DEF TreesAreBlobs, Labelling
<1> QED BY <1>1, SInvAlways, PTL

--------------------------------------------------------------------------------
(* The opening.                                                            *)

LEMMA TurnsType ==
    ASSUME res \in Resolutions
    PROVE  Turns \in Nat /\ Turns = Span(res) \div 2
<1>1. res \in Nat \ {0} /\ MIN_STRUCTURE \in Nat
  BY ResolutionAssumption
<1>2. Round(MIN_STRUCTURE, res) \in Int
  BY <1>1 DEF Round
<1>3. Span(res) \in Int /\ Span(res) >= 1
  BY <1>2 DEF Span
<1> QED BY <1>3 DEF Turns

\* A step of one pixel and then k more reach as far as k + 1, and stay in the grid.
LEMMA OneStepFurther ==
    ASSUME NEW k \in Nat, NEW p \in Grid, NEW q \in Grid
    PROVE  Within(p, q, k + 1) <=> \E r \in Grid : Within(p, r, 1) /\ Within(r, q, k)
<1> DEFINE Toward(x, y) == IF x < y THEN x + 1 ELSE IF y < x THEN x - 1 ELSE x
           row == Toward(Row(p), Row(q))
           col == Toward(Col(p), Col(q))
           r0 == row * Width + col
<1>1. \A x \in Grid : /\ Row(x) \in 0 .. Height - 1 /\ Col(x) \in 0 .. Width - 1
                      /\ Row(x) \in Int /\ Col(x) \in Int
  BY PixelCoordinates, GridAssumption
<1>2. ASSUME Within(p, q, k + 1)
      PROVE  \E r \in Grid : Within(p, r, 1) /\ Within(r, q, k)
  <2>1. row \in 0 .. Height - 1 /\ col \in 0 .. Width - 1
    BY <1>1, GridAssumption
  <2>2. Row(r0) = row /\ Col(r0) = col
    BY <2>1, CellCoordinates
  <2>3. r0 \in Grid
    <3>1. row * Width + col <= (Height - 1) * Width + (Width - 1)
      BY <2>1, GridAssumption
    <3>2. (Height - 1) * Width + (Width - 1) = Height * Width - 1
      BY GridAssumption
    <3>3. row * Width + col >= 0 /\ r0 \in Int
      BY <2>1, GridAssumption
    <3> QED BY <3>1, <3>2, <3>3, GridAssumption DEF Grid
  <2>4. Within(p, r0, 1)
    <3>1. Row(p) - row \in -1 .. 1 /\ Col(p) - col \in -1 .. 1
      BY <1>1
    <3> HIDE DEF row, col, r0
    <3> QED BY <2>2, <3>1 DEF Within
  <2>5. Within(r0, q, k)
    <3>1. Row(p) - Row(q) \in -(k + 1) .. k + 1 /\ Col(p) - Col(q) \in -(k + 1) .. k + 1
      BY <1>2 DEF Within
    <3>2. row - Row(q) \in -k .. k /\ col - Col(q) \in -k .. k
      BY <1>1, <3>1
    <3> HIDE DEF row, col, r0
    <3> QED BY <2>2, <3>2 DEF Within
  <2> QED BY <2>3, <2>4, <2>5
<1>3. ASSUME NEW r \in Grid, Within(p, r, 1), Within(r, q, k)
      PROVE  Within(p, q, k + 1)
  BY <1>1, <1>3 DEF Within
<1> QED BY <1>2, <1>3

LEMMA WithinSymmetric ==
    ASSUME NEW k \in Nat, NEW p \in Grid, NEW q \in Grid
    PROVE  Within(p, q, k) <=> Within(q, p, k)
<1>1. Row(p) \in Int /\ Col(p) \in Int /\ Row(q) \in Int /\ Col(q) \in Int
  BY PixelCoordinates, GridAssumption
<1> QED BY <1>1 DEF Within

\* The centres of the squares that fit, and the pixels within k of one.
Centres(m, k) == {p \in Grid : Block(p, k) \subseteq m}
Covered(m, k) == {q \in Grid : \E p \in Centres(m, Turns) : Within(p, q, k)}

LEMMA ErodeCentres ==
    ASSUME NEW k \in Nat, NEW m \in SUBSET Grid
    PROVE  Erode(Centres(m, k)) = Centres(m, k + 1)
<1>1. ASSUME NEW p \in Grid
      PROVE  p \in Erode(Centres(m, k)) <=> p \in Centres(m, k + 1)
  <2>1. p \in Erode(Centres(m, k)) <=>
            \A r \in Grid : Within(p, r, 1) =>
                \A q \in Grid : Within(r, q, k) => q \in m
    <3>1. Within(p, p, 1)
      BY PixelCoordinates, GridAssumption DEF Within
    <3> QED BY <3>1 DEF Erode, Centres, Around, Block
  <2>2. p \in Centres(m, k + 1) <=> \A q \in Grid : Within(p, q, k + 1) => q \in m
    BY DEF Centres, Block
  <2> QED BY <2>1, <2>2, OneStepFurther
<1> QED BY <1>1 DEF Erode, Centres

LEMMA DilateCovered ==
    ASSUME NEW k \in Nat, NEW m \in SUBSET Grid
    PROVE  Dilate(Covered(m, k)) = Covered(m, k + 1)
<1>1. ASSUME NEW q \in Grid
      PROVE  q \in Dilate(Covered(m, k)) <=> q \in Covered(m, k + 1)
  <2>1. q \in Dilate(Covered(m, k)) <=> \E r \in Grid : Within(q, r, 1) /\ r \in Covered(m, k)
    <3>1. Within(q, q, 1)
      BY PixelCoordinates, GridAssumption DEF Within
    <3>2. Around[q] = {r \in Grid : Within(q, r, 1)}
      BY DEF Around, Block
    <3> QED BY <3>1, <3>2 DEF Dilate, Erode
  <2>2. \A r \in Grid : r \in Covered(m, k) <=>
            \E p \in Centres(m, Turns) : Within(r, p, k)
    BY WithinSymmetric DEF Covered, Centres
  <2>3. q \in Covered(m, k + 1) <=> \E p \in Centres(m, Turns) : Within(q, p, k + 1)
    <3>1. k + 1 \in Nat
      OBVIOUS
    <3> QED BY <3>1, WithinSymmetric DEF Covered, Centres
  <2>4. \A p \in Centres(m, Turns) :
            Within(q, p, k + 1) <=> \E r \in Grid : Within(q, r, 1) /\ Within(r, p, k)
    BY OneStepFurther DEF Centres
  <2> QED BY <2>1, <2>2, <2>3, <2>4
<1> QED BY <1>1 DEF Dilate, Covered

\* The loops of _open: after so many turns the centres are left, then what is around them.
OpenInv ==
    /\ res \in Resolutions
    /\ seen \subseteq Valid /\ Valid \subseteq Grid
    /\ pc = "cover" => at = 0
    /\ pc = "erode" => at \in 0 .. Turns /\ built = Centres(seen, at)
    /\ pc = "dilate" => at \in 0 .. Turns /\ built = Covered(seen, at)

LEMMA SmallestBlock ==
    ASSUME NEW p \in Grid, NEW q \in Grid
    PROVE  Within(p, q, 0) <=> p = q
<1>1. /\ p = Row(p) * Width + Col(p) /\ q = Row(q) * Width + Col(q)
      /\ Row(p) \in Int /\ Col(p) \in Int /\ Row(q) \in Int /\ Col(q) \in Int
  BY PixelCoordinates, GridAssumption
<1>2. Within(p, q, 0) <=> Row(p) = Row(q) /\ Col(p) = Col(q)
  BY <1>1 DEF Within
<1> QED BY <1>1, <1>2

LEMMA OpenStep == OpenInv /\ [Next]_vars => OpenInv'
<1> SUFFICES ASSUME OpenInv, [Next]_vars PROVE OpenInv'
  OBVIOUS
<1>1. sight' = sight /\ res' = res
  BY DEF Next, vars, Refuse, Measure, ErodeOnce, BeginDilate, DilateOnce, BeginScan, Skip, Unite,
         Climb, FoundA, FoundB, BeginLabels, FindLabel, FoundLabel, BeginPick, Pick, EndPick, Judge
<1>2. Valid' = Valid /\ Turns' = Turns /\ Turns \in Nat
  BY <1>1, TurnsType DEF Valid, Turns, OpenInv
<1>3. CASE Measure
  <2>1. seen' \subseteq Valid /\ seen' \subseteq Grid /\ built' = seen'
    BY <1>3 DEF Measure, NewBuiltUp, OpenInv
  <2>2. Centres(seen', 0) = seen'
    BY <2>1, SmallestBlock DEF Centres, Block
  <2> QED BY <1>1, <1>2, <1>3, <2>1, <2>2 DEF Measure, OpenInv
<1>4. CASE ErodeOnce
  <2>1. at \in Nat /\ at + 1 \in 0 .. Turns /\ seen \in SUBSET Grid
    BY <1>2, <1>4 DEF ErodeOnce, OpenInv
  <2>2. built' = Centres(seen, at + 1)
    BY <1>4, <2>1, ErodeCentres DEF ErodeOnce, OpenInv
  <2> QED BY <1>1, <1>2, <1>4, <2>1, <2>2 DEF ErodeOnce, OpenInv
<1>5. CASE BeginDilate
  <2>1. at = Turns
    BY <1>2, <1>5 DEF BeginDilate, OpenInv
  <2>2. Centres(seen, Turns) = Covered(seen, 0)
    BY SmallestBlock DEF Covered, Centres
  <2>3. Covered(seen, 0)' = Covered(seen, 0)
    BY <1>2, <1>5 DEF BeginDilate, Covered
  <2>4. built' = Covered(seen, 0)' /\ at' = 0 /\ pc' = "dilate" /\ seen' = seen
    BY <1>5, <2>1, <2>2, <2>3 DEF BeginDilate, OpenInv
  <2> QED BY <1>1, <1>2, <2>4 DEF OpenInv
<1>6. CASE DilateOnce
  <2>1. at \in Nat /\ at + 1 \in 0 .. Turns /\ seen \in SUBSET Grid
    BY <1>2, <1>6 DEF DilateOnce, OpenInv
  <2>2. built' = Covered(seen, at + 1)
    BY <1>6, <2>1, DilateCovered DEF DilateOnce, OpenInv
  <2>3. Covered(seen, at + 1) = Covered(seen, at)'
    BY <1>2, <1>6 DEF DilateOnce, Covered
  <2> QED BY <1>1, <1>2, <1>6, <2>1, <2>2, <2>3 DEF DilateOnce, OpenInv
<1>7. CASE BeginScan
  BY <1>1, <1>2, <1>7 DEF BeginScan, OpenInv
<1>8. CASE UNCHANGED vars
  BY <1>1, <1>2, <1>8 DEF vars, OpenInv, Covered
<1>9. CASE \/ Refuse \/ Skip \/ Unite \/ Climb \/ FoundA \/ FoundB \/ BeginLabels
           \/ FindLabel \/ FoundLabel \/ BeginPick \/ Pick \/ EndPick \/ Judge
  <2>1. pc' \notin {"cover", "erode", "dilate"} /\ seen' = seen
    BY <1>9 DEF Refuse, Skip, Unite, Climb, FoundA, FoundB, BeginLabels, FindLabel,
                FoundLabel, BeginPick, Pick, EndPick, Judge
  <2> QED BY <1>1, <1>2, <2>1 DEF OpenInv
<1> QED
  BY <1>3, <1>4, <1>5, <1>6, <1>7, <1>8, <1>9 DEF Next

LEMMA OpenInvAlways == Spec => []OpenInv
<1>1. Init => OpenInv
  BY SightsAssumption DEF Init, OpenInv, Valid
<1> QED BY <1>1, OpenStep, PTL DEF Spec

\* Whatever the grid and the span, the opening keeps exactly the squares that fit
\* (OpenedIsBlocks; _open, _erode, _dilate).
THEOREM OpeningKeepsSquares == Spec => OpenedIsBlocks
<1> DEFINE Kept == pc = "dilate" /\ pc' # "dilate" =>
                      LET d == Span(res) \div 2
                      IN  built' = UNION {b \in {Block(p, d) : p \in Grid} : b \subseteq seen}
<1>1. OpenInv /\ [Next]_vars => [Kept]_vars
  <2> SUFFICES ASSUME OpenInv, Next, pc = "dilate", pc' # "dilate"
               PROVE  built' = UNION {b \in {Block(p, Span(res) \div 2) : p \in Grid} : b \subseteq seen}
    OBVIOUS
  <2>1. BeginScan
    BY DEF Next, Refuse, Measure, ErodeOnce, BeginDilate, DilateOnce, Skip, Unite, Climb, FoundA,
           FoundB, BeginLabels, FindLabel, FoundLabel, BeginPick, Pick, EndPick, Judge
  <2>2. Turns \in Nat /\ Turns = Span(res) \div 2
    BY TurnsType DEF OpenInv
  <2>3. built' = Covered(seen, Turns)
    BY <2>1, <2>2 DEF BeginScan, OpenInv
  <2>4. Covered(seen, Turns) = UNION {b \in {Block(p, Turns) : p \in Grid} : b \subseteq seen}
    <3> DEFINE Fits == {b \in {Block(p, Turns) : p \in Grid} : b \subseteq seen}
    <3>1. \A q : q \in Covered(seen, Turns) <=>
               \E p \in Grid : Block(p, Turns) \subseteq seen /\ q \in Block(p, Turns)
      BY DEF Covered, Centres, Block
    <3>2. \A q : q \in UNION Fits <=>
               \E p \in Grid : Block(p, Turns) \subseteq seen /\ q \in Block(p, Turns)
      OBVIOUS
    <3> QED BY <3>1, <3>2
  <2> QED BY <2>2, <2>3, <2>4
<1> QED BY <1>1, OpenInvAlways, PTL DEF Spec, OpenedIsBlocks

\* What the opening returns, and what is picked from it, both years show.
SeenInv ==
    /\ pc \in Working \cup {"judge"} => built \subseteq Valid
    /\ best = {} \/ (pc \notin {"cover", "erode", "dilate"} /\ best \subseteq Valid)

LEMMA SeenStep == OpenInv /\ SeenInv /\ [Next]_vars => SeenInv'
<1> SUFFICES ASSUME OpenInv, SeenInv, [Next]_vars PROVE SeenInv'
  OBVIOUS
<1>1. CASE BeginScan
  <2>1. Turns \in Nat /\ at = Turns
    BY <1>1, TurnsType DEF BeginScan, OpenInv
  <2>2. Covered(seen, Turns) \subseteq seen
    BY DEF Covered, Centres, Block
  <2>3. built \subseteq Valid
    BY <1>1, <2>1, <2>2 DEF BeginScan, OpenInv
  <2> QED BY <1>1, <2>3 DEF BeginScan, SeenInv, Valid
<1>2. CASE Pick
  BY <1>2 DEF Pick, SeenInv, Working, Valid
<1>3. CASE \/ Refuse \/ Measure \/ ErodeOnce \/ BeginDilate \/ DilateOnce \/ Skip \/ Unite \/ Climb
           \/ FoundA \/ FoundB \/ BeginLabels \/ FindLabel \/ FoundLabel \/ BeginPick \/ EndPick
           \/ Judge \/ UNCHANGED vars
  BY <1>3 DEF Refuse, Measure, ErodeOnce, BeginDilate, DilateOnce, Skip, Unite, Climb, FoundA,
              FoundB, BeginLabels, FindLabel, FoundLabel, BeginPick, EndPick, Judge, vars,
              SeenInv, Working, Valid
<1> QED BY <1>1, <1>2, <1>3 DEF Next

\* Nothing outside the ground both years show decides about a parcel (OnlySeenGround).
THEOREM StructureIsSeen == Spec => []OnlySeenGround
<1>1. Init => SeenInv
  BY DEF Init, SeenInv, Working
<1>2. SeenInv => OnlySeenGround
  BY DEF SeenInv, OnlySeenGround
<1> QED BY <1>1, <1>2, SeenStep, OpenInvAlways, PTL DEF Spec

--------------------------------------------------------------------------------
(* A blob, as Component spreads it from a pixel.                           *)

\* Induction, for sets.
LEMMA SetInduction ==
    ASSUME NEW S, 0 \in S, \A n \in Nat : n \in S => n + 1 \in S
    PROVE  Nat \subseteq S
<1> DEFINE R == OpToRel(<, Nat)
           T == Nat \ S
<1>1. IsWellFoundedOn(R, Nat)
  BY NatLessThanWellFounded
<1>2. \A m, n \in Nat : m < n => <<m, n>> \in R
  BY DEF OpToRel
<1> HIDE DEF R
<1>3. ASSUME T # {} PROVE FALSE
  <2>1. PICK x \in T : \A y \in T : <<y, x>> \notin R
    BY <1>1, <1>3, WFMin
  <2>2. x \in Nat /\ x # 0 /\ x - 1 \in Nat /\ x - 1 < x
    BY <2>1
  <2>3. x - 1 \in S
    BY <1>2, <2>1, <2>2
  <2> QED BY <2>1, <2>2, <2>3
<1> QED BY <1>3

\* The pixels of m that near touches.
Spread(m, near) == {q \in m : Around[q] \cap near # {}}

\* r is what n rounds reach, n up to N.
IsReach(m, p, r, N) == r = [i \in 0 .. N |-> IF i = 0 THEN {p} ELSE Spread(m, r[i - 1])]

LEMMA ReachExists ==
    ASSUME NEW m, NEW p
    PROVE  \A N \in Nat : \E r : IsReach(m, p, r, N)
<1> DEFINE S == {N \in Nat : \E r : IsReach(m, p, r, N)}
<1>1. 0 \in S
  <2>1. IsReach(m, p, [i \in 0 .. 0 |-> {p}], 0)
    BY DEF IsReach
  <2> QED BY <2>1
<1>2. ASSUME NEW N \in Nat, N \in S PROVE N + 1 \in S
  <2>1. PICK r : IsReach(m, p, r, N)
    BY <1>2
  <2> DEFINE t == [i \in 0 .. (N + 1) |-> IF i = N + 1 THEN Spread(m, r[N]) ELSE r[i]]
  <2>2. \A i \in 0 .. N : t[i] = r[i]
    OBVIOUS
  <2>3. \A i \in 0 .. N : r[i] = IF i = 0 THEN {p} ELSE Spread(m, r[i - 1])
    BY <2>1 DEF IsReach
  <2>4. ASSUME NEW i \in 0 .. (N + 1)
        PROVE  t[i] = IF i = 0 THEN {p} ELSE Spread(m, t[i - 1])
    <3>1. CASE i = N + 1
      <4>1. t[i] = Spread(m, r[N]) /\ i - 1 = N /\ N \in 0 .. N /\ i # 0
        BY <3>1
      <4> HIDE DEF t
      <4> QED BY <4>1, <2>2
    <3>2. CASE i = 0
      BY <3>2, <2>2, <2>3
    <3>3. CASE i # 0 /\ i # N + 1
      <4>1. i \in 0 .. N /\ i - 1 \in 0 .. N
        BY <3>3
      <4> HIDE DEF t
      <4> QED BY <4>1, <2>2, <2>3, <3>3
    <3> QED BY <3>1, <3>2, <3>3
  <2>5. IsReach(m, p, t, N + 1)
    BY <2>4 DEF IsReach
  <2> QED BY <2>5
<1> HIDE DEF S
<1>3. Nat \subseteq S
  BY <1>1, <1>2, SetInduction
<1> QED BY <1>3 DEF S

LEMMA ComponentIsReach ==
    ASSUME NEW m, NEW p, IsFiniteSet(m)
    PROVE  \E r : IsReach(m, p, r, Cardinality(m)) /\ Component(m, p) = r[Cardinality(m)]
<1> DEFINE N == Cardinality(m)
           Q(g) == g = [i \in 0 .. N |->
                          IF i = 0 THEN {p}
                          ELSE LET near == g[i - 1] IN {q \in m : Around[q] \cap near # {}}]
           reach == CHOOSE g : Q(g)
<1>1. N \in Nat
  BY FS_CardinalityType
<1>2. PICK r : IsReach(m, p, r, N)
  BY <1>1, ReachExists
<1>3. Q(r)
  BY <1>2 DEF IsReach, Spread
<1>4. Component(m, p) = reach[N]
  BY DEF Component
<1> HIDE DEF Q
<1>5. Q(reach)
  BY <1>3, Zenon
<1>6. IsReach(m, p, reach, N)
  BY <1>5 DEF Q, IsReach, Spread
<1> QED BY <1>4, <1>6

LEMMA TouchFacts ==
    ASSUME NEW p \in Grid, NEW q \in Grid
    PROVE  Touch(p, p) /\ (Touch(p, q) <=> Touch(q, p)) /\ (Touch(p, q) <=> q \in Around[p])
<1>1. Row(p) \in Int /\ Col(p) \in Int
  BY PixelCoordinates, GridAssumption
<1>2. Within(p, p, 1)
  BY <1>1 DEF Within
<1>3. Within(p, q, 1) <=> Within(q, p, 1)
  BY WithinSymmetric
<1> QED BY <1>2, <1>3 DEF Touch, Around, Block

LEMMA GridIsFinite == IsFiniteSet(Grid)
<1>1. Height * Width \in Int /\ Height * Width - 1 \in Int /\ 0 \in Int
  BY GridAssumption
<1> QED BY <1>1, FS_Interval DEF Grid

\* The blob of a pixel holds it, is closed under touching, and is the least such set.
LEMMA ComponentIsBlob ==
    ASSUME built \subseteq Grid, NEW p \in built
    PROVE  /\ Component(built, p) \subseteq built /\ p \in Component(built, p)
           /\ TouchClosed(Component(built, p))
           /\ \A S \in SUBSET built : TouchClosed(S) /\ p \in S => Component(built, p) \subseteq S
<1> DEFINE N == Cardinality(built)
<1>1. IsFiniteSet(built) /\ N \in Nat
  BY GridIsFinite, FS_Subset, FS_CardinalityType
<1>2. PICK r : IsReach(built, p, r, N) /\ Component(built, p) = r[N]
  BY <1>1, ComponentIsReach
<1> HIDE DEF N
<1>3. r[0] = {p} /\ \A i \in 0 .. N : i # 0 => r[i] = Spread(built, r[i - 1])
  <2>1. \A i \in 0 .. N : r[i] = IF i = 0 THEN {p} ELSE Spread(built, r[i - 1])
    BY <1>2, Zenon DEF IsReach
  <2>2. 0 \in 0 .. N
    BY <1>1
  <2> QED BY <2>1, <2>2
<1>4. \A i \in Nat : i + 1 <= N => r[i + 1] = Spread(built, r[i])
  <2> TAKE i \in Nat
  <2>1. i + 1 <= N => i + 1 \in 0 .. N /\ i + 1 # 0 /\ (i + 1) - 1 = i
    BY <1>1
  <2> QED BY <1>3, <2>1
<1>5. \A near \in SUBSET built : near \subseteq Spread(built, near) /\ Spread(built, near) \subseteq built
  BY TouchFacts DEF Spread
\* Every round stays in the closed sets that hold p, and adds a pixel until it is closed.
<1> DEFINE Grown(i) == Cardinality(r[i]) >= i + 1
           Stable(i) == Spread(built, r[i]) = r[i]
           A == {i \in Nat : i <= N => /\ r[i] \subseteq built /\ p \in r[i]
                                       /\ Grown(i) \/ Stable(i)
                                       /\ \A S \in SUBSET built : TouchClosed(S) /\ p \in S => r[i] \subseteq S}
<1>6. 0 \in A
  BY <1>3, FS_Singleton
<1>7. ASSUME NEW i \in Nat, i \in A PROVE i + 1 \in A
  <2> SUFFICES ASSUME i + 1 <= N
               PROVE  /\ r[i + 1] \subseteq built /\ p \in r[i + 1]
                      /\ Grown(i + 1) \/ Stable(i + 1)
                      /\ \A S \in SUBSET built : TouchClosed(S) /\ p \in S => r[i + 1] \subseteq S
    OBVIOUS
  <2>1. i <= N /\ r[i + 1] = Spread(built, r[i])
    BY <1>1, <1>4
  <2>2. /\ r[i] \subseteq built /\ p \in r[i]
        /\ Grown(i) \/ Stable(i)
        /\ \A S \in SUBSET built : TouchClosed(S) /\ p \in S => r[i] \subseteq S
    BY <1>7, <2>1
  <2>3. r[i] \subseteq r[i + 1] /\ r[i + 1] \subseteq built
    BY <1>5, <2>1, <2>2
  <2>4. Grown(i + 1) \/ Stable(i + 1)
    <3>1. CASE r[i + 1] = r[i]
      BY <2>1, <3>1
    <3>2. CASE r[i + 1] # r[i]
      <4>1. ~Stable(i)
        BY <2>1, <3>2
      <4>2. PICK x \in r[i + 1] : x \notin r[i]
        BY <2>3, <3>2
      <4>3. IsFiniteSet(r[i]) /\ IsFiniteSet(r[i + 1])
        BY <1>1, <2>3, <2>2, FS_Subset
      <4>4. Cardinality(r[i]) \in Nat /\ Cardinality(r[i + 1]) \in Nat
        BY <4>3, FS_CardinalityType
      <4>5. Cardinality(r[i] \cup {x}) = Cardinality(r[i]) + 1
        BY <4>2, <4>3, FS_AddElement
      <4>6. Cardinality(r[i] \cup {x}) <= Cardinality(r[i + 1])
        BY <2>3, <4>2, <4>3, FS_Subset
      <4> QED BY <2>2, <4>1, <4>4, <4>5, <4>6
    <3> QED BY <3>1, <3>2
  <2>5. ASSUME NEW S \in SUBSET built, TouchClosed(S), p \in S
        PROVE  r[i + 1] \subseteq S
    <3>1. r[i] \subseteq S
      BY <2>2, <2>5
    <3>2. ASSUME NEW q \in r[i + 1] PROVE q \in S
      <4>1. PICK x : x \in Around[q] /\ x \in r[i]
        BY <2>1 DEF Spread
      <4>2. q \in built /\ x \in built /\ x \in S
        BY <2>2, <2>3, <3>1, <4>1
      <4>3. Touch(q, x)
        BY <4>1 DEF Touch
      <4> QED BY <2>5, <4>2, <4>3 DEF TouchClosed
    <3> QED BY <3>2
  <2> QED BY <2>2, <2>3, <2>4, <2>5
<1> HIDE DEF A
<1>8. N \in A
  BY <1>1, <1>6, <1>7, SetInduction
<1>9. /\ r[N] \subseteq built /\ p \in r[N]
      /\ Grown(N) \/ Stable(N)
      /\ \A S \in SUBSET built : TouchClosed(S) /\ p \in S => r[N] \subseteq S
  BY <1>1, <1>8 DEF A
<1>10. Spread(built, r[N]) = r[N]
  <2>1. Cardinality(r[N]) <= N /\ Cardinality(r[N]) \in Nat
    BY <1>1, <1>9, FS_Subset, FS_CardinalityType DEF N
  <2> QED BY <1>1, <1>9, <2>1
<1>11. TouchClosed(r[N])
  <2> SUFFICES ASSUME NEW x \in built, NEW y \in built, Touch(x, y)
               PROVE  x \in r[N] <=> y \in r[N]
    BY DEF TouchClosed
  <2>1. y \in Around[x] /\ x \in Around[y]
    BY TouchFacts
  <2> QED BY <1>10, <2>1 DEF Spread
<1> QED BY <1>2, <1>9, <1>11

--------------------------------------------------------------------------------
(* Labels, and the blob that is picked.                                    *)

\* x is in every tree that q is in, and only there.
SameTree(q, x) == \A S \in SUBSET built : ParentClosed(S) => (q \in S <=> x \in S)

\* q's label is the root of its tree.
Labelled(q) == label[q] \in built /\ parent[label[q]] = label[q] /\ SameTree(q, label[q])

\* roots holds the root of every pixel that find was called with.
LabelsAreRoots ==
    /\ pc \in Working => label \in [built -> built \cup {Unset}]
    /\ pc = "find" => at \in built /\ SameTree(at, node)
    /\ pc \in {"label", "find"} => \A q \in built : q < at => Labelled(q)
    /\ pc = "pick" => \A q \in built : Labelled(q)

Member(i) == {q \in built : label[q] = i}

\* top is one of the largest compact ones of the family Fam, or nothing when there is none.
LargestCompact(top, Fam) ==
    /\ top = {} \/ (top \in Fam /\ IsCompact(top))
    /\ \A b \in Fam : b # {} /\ IsCompact(b) => Cardinality(top) >= Cardinality(b)

BestSoFar ==
    /\ pc \notin {"pick", "judge", "done"} => best = {}
    /\ pc = "pick" => LargestCompact(best, {Member(i) : i \in 0 .. at - 1})
    /\ pc = "judge" => LargestCompact(best, Blobs(built))

LInv == LabelsAreRoots /\ BestSoFar /\ CandidateIfSomeBlob

\* Two roots are in different trees: what hangs under one, and nothing else, is closed.
LEMMA RootsAreApart ==
    ASSUME NEW a \in built, NEW b \in built, parent \in [built -> built],
           parent[a] = a, parent[b] = b, a # b
    PROVE  \E S \in SUBSET built : ParentClosed(S) /\ a \in S /\ b \notin S
<1> DEFINE Hung(C) == a \in C /\ \A x \in built : parent[x] \in C => x \in C
           D == {x \in built : \A C \in SUBSET built : Hung(C) => x \in C}
<1>1. Hung(built) /\ Hung(D) /\ D \in SUBSET built
  OBVIOUS
<1>2. ASSUME NEW y \in built, y # a, parent[y] \notin D \/ parent[y] = y
      PROVE  y \notin D
  <2>1. Hung(D \ {y})
    BY <1>1, <1>2
  <2> QED BY <2>1
<1>3. b \notin D
  BY <1>2
<1>4. \A x \in built : x \in D => parent[x] \in D
  BY <1>1, <1>2
<1>5. ParentClosed(D)
  BY <1>1, <1>4 DEF ParentClosed
<1> QED BY <1>1, <1>3, <1>5

\* Pixels with one label are a blob, and every blob is one.
LEMMA MembersAreBlobs ==
    ASSUME SInv, LabelsAreRoots, pc = "pick", NEW p \in built
    PROVE  Member(label[p]) = Component(built, p)
<1>1. built \subseteq Grid /\ parent \in [built -> built]
  BY DEF SInv, Types, Working
<1>2. \A q \in built : Labelled(q)
  BY DEF LabelsAreRoots
<1>3. \A S \in SUBSET built : ParentClosed(S) <=> TouchClosed(S)
  BY TreesAreClosed DEF Labelling
<1> DEFINE C == Component(built, p)
           M == Member(label[p])
<1>4. /\ C \subseteq built /\ p \in C /\ TouchClosed(C)
      /\ \A S \in SUBSET built : TouchClosed(S) /\ p \in S => C \subseteq S
  BY <1>1, ComponentIsBlob
<1>5. M \subseteq C
  <2> SUFFICES ASSUME NEW q \in built, label[q] = label[p]
               PROVE  q \in C
    BY DEF Member
  <2>1. SameTree(q, label[p]) /\ SameTree(p, label[p])
    BY <1>2 DEF Labelled
  <2> QED BY <1>3, <1>4, <2>1 DEF SameTree
<1>6. C \subseteq M
  <2> SUFFICES ASSUME NEW q \in C, label[q] # label[p]
               PROVE  FALSE
    BY <1>4 DEF Member
  <2>1. q \in built /\ Labelled(q) /\ Labelled(p)
    BY <1>2, <1>4
  <2>2. PICK S \in SUBSET built : ParentClosed(S) /\ label[p] \in S /\ label[q] \notin S
    BY <1>1, <2>1, RootsAreApart DEF Labelled
  <2>3. p \in S /\ q \notin S
    BY <2>1, <2>2 DEF Labelled, SameTree
  <2>4. C \subseteq S
    BY <1>3, <1>4, <2>2, <2>3
  <2> QED BY <2>3, <2>4
<1> QED BY <1>5, <1>6

LEMMA LabelsStay ==
    ASSUME LabelsAreRoots, built' = built, parent' = parent
    PROVE  /\ \A S \in SUBSET built : ParentClosed(S)' <=> ParentClosed(S)
           /\ \A q, x : SameTree(q, x)' <=> SameTree(q, x)
           /\ label' = label => \A q : Labelled(q)' <=> Labelled(q)
<1>1. \A S \in SUBSET built : ParentClosed(S)' <=> ParentClosed(S)
  BY DEF ParentClosed
<1>2. \A q, x : SameTree(q, x)' <=> SameTree(q, x)
  BY <1>1 DEF SameTree
<1> QED BY <1>1, <1>2 DEF Labelled

LEMMA LabelsStep ==
    ASSUME SInv, LabelsAreRoots, Next
    PROVE  LabelsAreRoots'
<1> USE DEF LabelsAreRoots
<1>1. CASE \/ Refuse \/ Measure \/ ErodeOnce \/ BeginDilate \/ DilateOnce \/ Judge \/ EndPick
  BY <1>1 DEF Refuse, Measure, ErodeOnce, BeginDilate, DilateOnce, Judge, EndPick, Working
<1>2. CASE BeginScan
  <2>1. label' \in [built' -> built' \cup {Unset}] /\ pc' \in {"judge", "scan"}
    BY <1>2 DEF BeginScan
  <2> QED BY <2>1
<1>3. CASE Skip \/ Unite \/ FoundA \/ FoundB
  BY <1>3 DEF Skip, Unite, FoundA, FoundB, Working
<1>4. CASE Climb
  <2>1. \A S \in SUBSET built : ParentClosed(S)' <=> ParentClosed(S)
    BY <1>4, HalvingKeepsTrees DEF Climb, SInv
  <2>2. /\ node' = parent[parent[node]] /\ node \in built /\ parent[node] \in built
        /\ parent \in [built -> built]
    BY <1>4 DEF Climb, Halved, SInv, Types, Working
  <2>3. SameTree(node, node')
    BY <2>2 DEF SameTree, ParentClosed
  <2>4. \A q, x : SameTree(q, x)' <=> SameTree(q, x)
    BY <1>4, <2>1 DEF Climb, SameTree
  <2>5. \A q \in built : Labelled(q) => Labelled(q)'
    <3> SUFFICES ASSUME NEW q \in built, Labelled(q) PROVE Labelled(q)'
      OBVIOUS
    <3>1. label[q] # node
      BY <1>4 DEF Climb, Labelled
    <3>2. parent'[label[q]] = label[q]
      BY <1>4, <2>2, <3>1 DEF Climb, Halved, Labelled
    <3> QED BY <1>4, <2>4, <3>2 DEF Climb, Labelled
  <2>6. /\ pc \in {"find_a", "find_b", "find"} /\ UNCHANGED <<pc, built, at, label>>
    BY <1>4 DEF Climb
  <2>7. pc = "find" => SameTree(at, node)'
    <3>1. ASSUME pc = "find" PROVE SameTree(at, node')
      BY <2>3, <3>1 DEF SameTree
    <3>2. SameTree(at, node)' <=> SameTree(at, node')
      BY <2>1, <2>6 DEF SameTree
    <3> QED BY <3>1, <3>2
  <2> QED BY <2>5, <2>6, <2>7 DEF Working
<1>5. CASE BeginLabels
  <2>1. \A q \in built : ~(q < 0)
    BY GridAssumption DEF SInv, Types, Grid
  <2> QED BY <1>5, <2>1 DEF BeginLabels, Working
<1>6. CASE FindLabel
  <2>1. /\ pc = "label" /\ UNCHANGED <<built, parent, label>>
    BY <1>6 DEF FindLabel
  <2>2. \A q : Labelled(q)' <=> Labelled(q)
    BY <2>1, LabelsStay
  <2>3. CASE at \in built
    <3>1. pc' = "find" /\ at' = at /\ node' = at
      BY <1>6, <2>3 DEF FindLabel
    <3>2. SameTree(at, node)'
      BY <3>1 DEF SameTree
    <3> QED BY <2>1, <2>2, <2>3, <3>1, <3>2 DEF Working
  <2>4. CASE at \notin built
    <3>1. pc' = "label" /\ at' = at + 1 /\ at \in Nat
      BY <1>6, <2>4 DEF FindLabel, SInv, Types, Working
    <3>2. \A q \in built : q < at + 1 => q < at
      BY <2>4, <3>1, GridAssumption DEF SInv, Types, Grid
    <3> QED BY <2>1, <2>2, <3>1, <3>2 DEF Working
  <2> QED BY <2>3, <2>4
<1>7. CASE FoundLabel
  <2>1. /\ pc = "find" /\ pc' = "label" /\ at' = at + 1 /\ UNCHANGED <<built, parent>>
        /\ label' = [label EXCEPT ![at] = node] /\ parent[node] = node
        /\ at \in built /\ node \in built /\ SameTree(at, node)
        /\ label \in [built -> built \cup {Unset}]
    BY <1>7 DEF FoundLabel, SInv, Types, Working
  <2>2. \A q, x : SameTree(q, x)' <=> SameTree(q, x)
    BY <2>1, LabelsStay
  <2>3. label'[at] = node /\ \A q \in built : q # at => label'[q] = label[q]
    BY <2>1
  <2>4. ASSUME NEW q \in built, NEW x \in built, q = at, x = node PROVE Labelled(q)'
    <3>1. label'[q] = x /\ built' = built /\ parent'[x] = x
      BY <2>1, <2>3, <2>4
    <3>2. SameTree(q, x)'
      BY <2>1, <2>2, <2>4
    <3> QED BY <3>1, <3>2 DEF Labelled, SameTree
  <2>5. \A q \in built : q # at /\ Labelled(q) => Labelled(q)'
    BY <2>1, <2>2, <2>3 DEF Labelled
  <2>6. \A q \in built : q < at + 1 => q < at \/ q = at
    BY <2>1, GridAssumption DEF SInv, Types, Grid
  <2>7. label' \in [built' -> built' \cup {Unset}]
    BY <2>1
  <2> QED BY <2>1, <2>4, <2>5, <2>6, <2>7
<1>8. CASE BeginPick
  <2>1. \A q \in built : q < at
    BY <1>8, GridAssumption DEF BeginPick, SInv, Types, Grid
  <2>2. \A q : Labelled(q)' <=> Labelled(q)
    BY <1>8, LabelsStay DEF BeginPick
  <2> QED BY <1>8, <2>1, <2>2 DEF BeginPick, Working
<1>9. CASE Pick
  <2>1. \A q : Labelled(q)' <=> Labelled(q)
    BY <1>9, LabelsStay DEF Pick
  <2> QED BY <1>9, <2>1 DEF Pick, Working
<1> QED BY <1>1, <1>2, <1>3, <1>4, <1>5, <1>6, <1>7, <1>8, <1>9 DEF Next

\* A pixel's blob lies in the grid, so that its size is a number.
LEMMA SizesAreNumbers ==
    ASSUME built \subseteq Grid, NEW S \in SUBSET built
    PROVE  IsFiniteSet(S) /\ Cardinality(S) \in Nat /\ (Cardinality(S) = 0 <=> S = {})
<1>1. IsFiniteSet(S)
  BY GridIsFinite, FS_Subset
<1> QED BY <1>1, FS_CardinalityType, FS_EmptySet

\* One turn of the loop over the roots.
LEMMA PickKeepsLargest ==
    ASSUME built \subseteq Grid, NEW top \in SUBSET built, NEW Fam \in SUBSET SUBSET built,
           NEW m \in SUBSET built, LargestCompact(top, Fam)
    PROVE  LargestCompact(IF m # {} /\ Better(m, top) THEN m ELSE top, Fam \cup {m})
<1>1. \A S \in SUBSET built : Cardinality(S) \in Nat
  BY SizesAreNumbers
<1>2. CASE m # {} /\ Better(m, top)
  <2>1. IsCompact(m) /\ Cardinality(m) > Cardinality(top)
    BY <1>2 DEF Better
  <2>2. \A b \in Fam \cup {m} : b # {} /\ IsCompact(b) => Cardinality(m) >= Cardinality(b)
    BY <1>1, <2>1 DEF LargestCompact
  <2> QED BY <1>2, <2>1, <2>2 DEF LargestCompact
<1>3. CASE ~(m # {} /\ Better(m, top))
  <2>1. m # {} /\ IsCompact(m) => Cardinality(top) >= Cardinality(m)
    BY <1>1, <1>3 DEF Better
  <2> QED BY <1>3, <2>1 DEF LargestCompact
<1> QED BY <1>2, <1>3

LEMMA BlobFamily ==
    ASSUME built \subseteq Grid
    PROVE  /\ Blobs(built) \subseteq SUBSET built /\ {} \notin Blobs(built)
           /\ Blobs(built) = {} <=> built = {}
BY ComponentIsBlob DEF Blobs

\* The run's two conditions on the score and the area, as conditions on the area alone:
\* they hold of nothing, and of every larger area.
LEMMA ThresholdInverted ==
    ASSUME NEW m2 \in Nat
    PROVE  IsCandidate(m2) <=>
               m2 >= MIN_AREA /\ m2 * (THR_DEN - THR_NUM) >= HALF_STRUCTURE * THR_NUM
<1>1. /\ THR_NUM \in Nat /\ THR_DEN \in Nat /\ HALF_STRUCTURE \in Nat
  BY RunAssumption
<1>2. m2 * (THR_DEN - THR_NUM) = m2 * THR_DEN - m2 * THR_NUM
  BY <1>1
<1>3. THR_NUM * (m2 + HALF_STRUCTURE) = m2 * THR_NUM + HALF_STRUCTURE * THR_NUM
  BY <1>1
<1>4. m2 * THR_DEN \in Int /\ m2 * THR_NUM \in Int /\ HALF_STRUCTURE * THR_NUM \in Int
  BY <1>1
<1> HIDE <1>1
<1>5. m2 * (THR_DEN - THR_NUM) >= HALF_STRUCTURE * THR_NUM
        <=> m2 * THR_DEN >= THR_NUM * (m2 + HALF_STRUCTURE)
  BY <1>2, <1>3, <1>4
<1> QED BY <1>5 DEF IsCandidate

LEMMA NothingIsNoCandidate == ~IsCandidate(0)
<1>1. /\ THR_NUM \in Nat /\ THR_DEN \in Nat /\ HALF_STRUCTURE \in Nat \ {0}
      /\ MIN_AREA \in Nat /\ (MIN_AREA > 0 \/ THR_NUM > 0)
  BY RunAssumption
<1>2. 0 * THR_DEN = 0 /\ 0 + HALF_STRUCTURE = HALF_STRUCTURE
  BY <1>1
<1>3. THR_NUM > 0 => THR_NUM * HALF_STRUCTURE > 0
  BY <1>1
<1> QED BY <1>1, <1>2, <1>3 DEF IsCandidate

LEMMA CandidateIsMonotone ==
    ASSUME NEW a \in Nat, NEW b \in Nat, a <= b, IsCandidate(a)
    PROVE  IsCandidate(b)
<1>1. /\ THR_NUM \in Nat /\ THR_DEN \in Nat /\ THR_NUM =< THR_DEN /\ HALF_STRUCTURE \in Nat
      /\ MIN_AREA \in Nat
  BY RunAssumption
<1> DEFINE k == THR_DEN - THR_NUM
<1>2. k \in Nat
  BY <1>1
<1>3. a >= MIN_AREA /\ a * k >= HALF_STRUCTURE * THR_NUM
  BY ThresholdInverted
<1> HIDE DEF k
<1>4. b * k >= a * k
  BY <1>2
<1>5. b * k >= HALF_STRUCTURE * THR_NUM
  BY <1>1, <1>2, <1>3, <1>4
<1> QED BY <1>1, <1>3, <1>5, ThresholdInverted DEF k

LEMMA JudgeIsRight ==
    ASSUME built \subseteq Grid, best \subseteq built, res \in Nat \ {0},
           LargestCompact(best, Blobs(built)), Judge
    PROVE  CandidateIfSomeBlob'
<1> DEFINE Counts(b) == IsCompact(b) /\ IsCandidate(Area(b))
<1>1. \A S \in SUBSET built : Cardinality(S) \in Nat /\ (Cardinality(S) = 0 <=> S = {})
  BY SizesAreNumbers
<1>2. \A S \in SUBSET built : Area(S) \in Nat
  BY <1>1 DEF Area
<1>3. \A S, T \in SUBSET built : Cardinality(S) <= Cardinality(T) => Area(S) <= Area(T)
  <2> SUFFICES ASSUME NEW S \in SUBSET built, NEW T \in SUBSET built,
                      Cardinality(S) <= Cardinality(T)
               PROVE  Area(S) <= Area(T)
    OBVIOUS
  <2>1. \A a, b, c \in Nat : a <= b => a * c <= b * c
    OBVIOUS
  <2>2. Cardinality(S) * res <= Cardinality(T) * res
    BY <1>1, <2>1
  <2>3. Cardinality(S) * res \in Nat /\ Cardinality(T) * res \in Nat
    BY <1>1
  <2> QED BY <2>1, <2>2, <2>3 DEF Area
<1>4. IsCandidate(Area(best)) <=> \E b \in Blobs(built) : Counts(b)
  <2>1. ASSUME IsCandidate(Area(best)) PROVE \E b \in Blobs(built) : Counts(b)
    <3>1. Area({}) = 0
      BY FS_EmptySet DEF Area
    <3>2. best # {}
      BY <2>1, <3>1, NothingIsNoCandidate
    <3> QED BY <2>1, <3>2 DEF LargestCompact
  <2>2. ASSUME NEW b \in Blobs(built), Counts(b) PROVE IsCandidate(Area(best))
    <3>1. b \in SUBSET built /\ b # {}
      BY BlobFamily
    <3>2. Cardinality(best) >= Cardinality(b)
      BY <2>2, <3>1 DEF LargestCompact
    <3>3. Area(b) <= Area(best)
      BY <1>1, <1>3, <3>1, <3>2
    <3> QED BY <1>2, <2>2, <3>1, <3>3, CandidateIsMonotone
  <2> QED BY <2>1, <2>2
<1>5. \A b \in Blobs(built) : Counts(b) <=>
          /\ IsCompact(b) /\ Area(b) >= MIN_AREA
          /\ Area(b) * (THR_DEN - THR_NUM) >= HALF_STRUCTURE * THR_NUM
  BY <1>2, BlobFamily, ThresholdInverted
<1> HIDE DEF Counts
<1>6. /\ built' = built /\ res' = res
      /\ verdict' = IF IsCandidate(Area(best)) THEN "candidate" ELSE "unchanged"
  BY DEF Judge
<1>7. \A b : Area(b)' = Area(b)
  BY <1>6 DEF Area
<1>8. verdict' = "candidate" <=>
          \E b \in Blobs(built) : /\ IsCompact(b) /\ Area(b) >= MIN_AREA
                                  /\ Area(b) * (THR_DEN - THR_NUM) >= HALF_STRUCTURE * THR_NUM
  BY <1>4, <1>5, <1>6
<1> QED BY <1>6, <1>7, <1>8 DEF CandidateIfSomeBlob, IsCompact

LEMMA BestStep ==
    ASSUME SInv, OpenInv, LInv, best \subseteq built \/ best = {}, Next
    PROVE  BestSoFar' /\ CandidateIfSomeBlob'
<1>1. built \subseteq Grid
  BY DEF SInv, Types
<1>2. res \in Nat \ {0}
  BY ResolutionAssumption DEF OpenInv
<1>3. pc' = "done" /\ verdict' \in {"candidate", "unchanged"} => Judge
  BY DEF Next, Refuse, Measure, ErodeOnce, BeginDilate, DilateOnce, BeginScan, Skip, Unite, Climb,
         FoundA, FoundB, BeginLabels, FindLabel, FoundLabel, BeginPick, Pick, EndPick, Reason
<1>4. CASE Judge
  BY <1>1, <1>2, <1>4, JudgeIsRight DEF Judge, LInv, BestSoFar
<1>5. ASSUME ~Judge PROVE CandidateIfSomeBlob'
  BY <1>3, <1>5 DEF CandidateIfSomeBlob
<1>6. CASE BeginScan
  <2>1. best' = {} /\ built' = built /\ pc' \in {"judge", "scan"}
    BY <1>6 DEF BeginScan, LInv, BestSoFar
  <2>2. pc' = "judge" => Blobs(built) = {}
    BY <1>1, <1>6, BlobFamily DEF BeginScan
  <2>3. pc' = "judge" => LargestCompact(best, Blobs(built))'
    BY <2>1, <2>2 DEF LargestCompact
  <2> QED BY <1>5, <1>6, <2>1, <2>3 DEF BestSoFar, BeginScan, Judge
<1>7. CASE BeginPick
  <2>1. pc' = "pick" /\ at' = 0 /\ best' = {}
    BY <1>7 DEF BeginPick, LInv, BestSoFar
  <2>2. 0 .. at' - 1 = {}
    BY <2>1
  <2>3. LargestCompact(best, {Member(i) : i \in 0 .. at - 1})'
    BY <2>1, <2>2 DEF LargestCompact
  <2> QED BY <1>5, <1>7, <2>1, <2>3 DEF BestSoFar, BeginPick, Judge
<1>8. CASE Pick
  <2> DEFINE Fam == {Member(i) : i \in 0 .. at - 1}
  <2>1. /\ pc = "pick" /\ pc' = "pick" /\ at \in Nat /\ at' = at + 1
        /\ UNCHANGED <<built, label>>
        /\ best' = IF Member(at) # {} /\ Better(Member(at), best) THEN Member(at) ELSE best
    BY <1>8 DEF Pick, SInv, Types, Working, Member
  <2>2. \A i : Member(i) \subseteq built /\ Member(i)' = Member(i)
    BY <2>1 DEF Member
  <2>3. LargestCompact(best, Fam)
    BY <2>1 DEF LInv, BestSoFar
  <2>4. 0 .. at' - 1 = (0 .. at - 1) \cup {at}
    BY <2>1
  <2>5. {Member(i) : i \in 0 .. at - 1}' = Fam \cup {Member(at)}
    BY <2>2, <2>4
  <2>6. Fam \subseteq SUBSET built /\ best \subseteq built /\ Member(at) \in SUBSET built
    BY <2>2
  <2>7. LargestCompact(best', Fam \cup {Member(at)})
    BY <1>1, <2>1, <2>3, <2>6, PickKeepsLargest
  <2>8. LargestCompact(best, {Member(i) : i \in 0 .. at - 1})'
    BY <2>5, <2>7
  <2> QED BY <1>5, <1>8, <2>1, <2>8 DEF BestSoFar, Judge
<1>9. CASE EndPick
  <2> DEFINE Fam == {Member(i) : i \in 0 .. at - 1}
  <2>1. /\ pc = "pick" /\ pc' = "judge" /\ at = Height * Width /\ UNCHANGED <<built, best>>
    BY <1>9 DEF EndPick
  <2>2. LargestCompact(best, Fam) /\ LabelsAreRoots
    BY <2>1 DEF LInv, BestSoFar
  <2>3. Blobs(built) = {Member(label[p]) : p \in built}
    BY <2>1, <2>2, MembersAreBlobs DEF Blobs
  <2>4. \A p \in built : label[p] \in 0 .. at - 1
    <3> TAKE p \in built
    <3>1. label[p] \in Grid
      BY <1>1, <2>1, <2>2 DEF LabelsAreRoots, Labelled
    <3>2. Height * Width \in Nat
      BY GridAssumption
    <3> QED BY <2>1, <3>1, <3>2 DEF Grid
  <2>5. Blobs(built) \subseteq Fam
    BY <2>3, <2>4
  <2>6. \A b \in Fam : b # {} => b \in Blobs(built)
    <3> SUFFICES ASSUME NEW i \in Nat, Member(i) # {} PROVE Member(i) \in Blobs(built)
      OBVIOUS
    <3>1. PICK p \in built : label[p] = i
      BY DEF Member
    <3> QED BY <2>3, <3>1
  <2>7. LargestCompact(best, Blobs(built))'
    <3> HIDE DEF Fam
    <3> QED BY <2>1, <2>2, <2>5, <2>6 DEF LargestCompact
  <2> QED BY <1>5, <1>9, <2>1, <2>7 DEF BestSoFar, Judge
<1>10. CASE \/ Refuse \/ Measure \/ ErodeOnce \/ BeginDilate \/ DilateOnce \/ Skip \/ Unite \/ Climb
            \/ FoundA \/ FoundB \/ BeginLabels \/ FindLabel \/ FoundLabel
  <2>1. best' = {} \/ (pc' = "done")
    BY <1>10 DEF Refuse, Measure, ErodeOnce, BeginDilate, DilateOnce, Skip, Unite, Climb,
                 FoundA, FoundB, BeginLabels, FindLabel, FoundLabel, LInv, BestSoFar
  <2>2. pc' \notin {"pick", "judge"} /\ ~Judge
    BY <1>10 DEF Refuse, Measure, ErodeOnce, BeginDilate, DilateOnce, Skip, Unite, Climb,
                 FoundA, FoundB, BeginLabels, FindLabel, FoundLabel, Judge
  <2> QED BY <1>5, <2>1, <2>2 DEF BestSoFar
<1>11. Judge => BestSoFar'
  BY DEF Judge, BestSoFar
<1> QED BY <1>4, <1>5, <1>6, <1>7, <1>8, <1>9, <1>10, <1>11 DEF Next

LEMMA LInvAlways == Spec => [](LInv /\ (best \subseteq built \/ best = {}))
<1> DEFINE I == LInv /\ (best \subseteq built \/ best = {})
<1>1. Init => I
  BY DEF Init, LInv, LabelsAreRoots, BestSoFar, CandidateIfSomeBlob, Working
<1>2. SInv /\ OpenInv /\ I /\ [Next]_vars => I'
  <2> SUFFICES ASSUME SInv, OpenInv, I, [Next]_vars PROVE I'
    OBVIOUS
  <2>1. CASE Next
    <3>1. LabelsAreRoots' /\ BestSoFar' /\ CandidateIfSomeBlob'
      BY <2>1, LabelsStep, BestStep DEF LInv
    <3>2. (best \subseteq built \/ best = {})'
      <4>1. CASE Pick
        BY <4>1 DEF Pick
      <4>2. CASE EndPick \/ Judge
        BY <4>2 DEF EndPick, Judge
      <4>3. CASE ~(Pick \/ EndPick \/ Judge)
        <5>1. best' = best
          BY <2>1, <4>3 DEF Next, Refuse, Measure, ErodeOnce, BeginDilate, DilateOnce, BeginScan,
             Skip, Unite, Climb, FoundA, FoundB, BeginLabels, FindLabel, FoundLabel, BeginPick
        <5>2. pc \notin {"pick", "judge", "done"}
          BY <2>1, <4>3 DEF Next, Refuse, Measure, ErodeOnce, BeginDilate, DilateOnce, BeginScan,
             Skip, Unite, Climb, FoundA, FoundB, BeginLabels, FindLabel, FoundLabel, BeginPick
        <5> QED BY <5>1, <5>2 DEF LInv, BestSoFar
      <4> QED BY <4>1, <4>2, <4>3
    <3> QED BY <3>1, <3>2 DEF LInv
  <2>2. CASE UNCHANGED vars
    BY <2>2 DEF vars, LInv, LabelsAreRoots, Labelled, SameTree, ParentClosed, BestSoFar,
                LargestCompact, Member, CandidateIfSomeBlob, Area
  <2> QED BY <2>1, <2>2
<1> QED BY <1>1, <1>2, SInvAlways, OpenInvAlways, PTL DEF Spec

\* A parcel is a candidate exactly if some compact blob of it is large enough, whatever the
\* grid, the mask, the resolution and the run's thresholds: labelling by union-find and
\* picking the largest compact blob loses none (CandidateIfSomeBlob; compare,
\* _largest_structure).
THEOREM LargestBlobDecides == Spec => []CandidateIfSomeBlob
<1>1. LInv => CandidateIfSomeBlob
  BY DEF LInv
<1> QED BY <1>1, LInvAlways, PTL

--------------------------------------------------------------------------------
(* Every comparison advances.                                              *)

\* A link never leads up.
LinksDescend == pc \in Working => \A p \in built : parent[p] =< p

AInv == TypeOK /\ LinksDescend

LEMMA AInit == Init => AInv
BY GridAssumption DEF Init, AInv, TypeOK, LinksDescend, Working, Limit, Stage

Stands ==
    /\ pc = "cover" => Stage = 0 /\ Limit = 0 /\ Search = 0
    /\ pc = "erode" => Stage = 1 /\ Limit = Turns /\ Search = 0
    /\ pc = "dilate" => Stage = 2 /\ Limit = Turns /\ Search = 0
    /\ pc = "scan" => Stage = 3 /\ Limit = Edges /\ Search = 0
    /\ pc = "find_a" => Stage = 3 /\ Limit = Edges /\ Search = 1
    /\ pc = "find_b" => Stage = 3 /\ Limit = Edges /\ Search = 2
    /\ pc = "label" => Stage = 4 /\ Limit = Height * Width /\ Search = 0
    /\ pc = "find" => Stage = 4 /\ Limit = Height * Width /\ Search = 1
    /\ pc = "pick" => Stage = 5 /\ Limit = Height * Width /\ Search = 0
    /\ pc = "judge" => Stage = 6 /\ Limit = 0 /\ Search = 0
    /\ pc = "done" => Stage = 7 /\ Limit = 0 /\ Search = 0

Advances ==
    \/ Stage' > Stage
    \/ Stage' = Stage /\ at' > at
    \/ Stage' = Stage /\ at' = at /\ Search' > Search
    \/ Stage' = Stage /\ at' = at /\ Search' = Search /\ node' < node

\* The turns that touch neither the forest nor the pixels it is made of.
LEMMA ForestRests ==
    ASSUME AInv, UNCHANGED <<built, parent, label>>,
           pc \in Working, pc' \in Working
    PROVE  LinksDescend' /\ (parent \in [built -> built] /\ label \in [built -> built \cup {Unset}])'
BY DEF AInv, TypeOK, LinksDescend, Working

LEMMA AStep ==
    ASSUME SInv, OpenInv, LInv, AInv, Next
    PROVE  AInv' /\ Advances
<1>0. /\ Stands /\ Stands'
      /\ Turns \in Nat /\ Edges \in Nat /\ Height * Width \in Nat
      /\ Turns' = Turns /\ Valid' = Valid /\ sight' = sight /\ res' = res
      /\ built \subseteq Grid /\ \A p \in built : p \in Int
  <2>1. sight' = sight /\ res' = res
    BY DEF Next, Refuse, Measure, ErodeOnce, BeginDilate, DilateOnce, BeginScan, Skip, Unite, Climb,
           FoundA, FoundB, BeginLabels, FindLabel, FoundLabel, BeginPick, Pick, EndPick, Judge
  <2>2. Stands /\ Stands'
    BY DEF Stands, Stage, Limit, Search
  <2>3. Turns \in Nat /\ Edges \in Nat /\ Height * Width \in Nat
    BY TurnsType, GridAssumption DEF OpenInv, Edges
  <2>4. built \subseteq Grid /\ \A p \in built : p \in Int
    BY GridAssumption DEF SInv, Types, Grid
  <2> QED BY <2>1, <2>2, <2>3, <2>4 DEF Turns, Valid
<1>s. seen' \subseteq Valid
  <2>1. OpenInv'
    BY OpenStep
  <2> QED BY <1>0, <2>1 DEF OpenInv
<1> USE <1>0, <1>s
<1>1. CASE Refuse
  <2>1. pc = "cover" /\ pc' = "done"
    BY <1>1 DEF Refuse
  <2> QED BY <1>1, <2>1 DEF Refuse, AInv, TypeOK, LinksDescend, Working, Stands, Advances
<1>2. CASE Measure
  <2>1. pc = "cover" /\ pc' = "erode" /\ best = {}
    BY <1>2 DEF Measure, LInv, BestSoFar
  <2>2. built' \subseteq Grid
    BY <1>2 DEF Measure, NewBuiltUp
  <2> QED BY <1>2, <2>1, <2>2 DEF Measure, AInv, TypeOK, LinksDescend, Working, Stands, Advances
<1>3. CASE ErodeOnce
  <2>1. /\ pc = "erode" /\ pc' = "erode" /\ at' = at + 1 /\ at < Turns /\ best' = {}
        /\ UNCHANGED <<node, root>> /\ built' \subseteq Grid
    BY <1>3 DEF ErodeOnce, Erode, LInv, BestSoFar
  <2> QED BY <2>1 DEF AInv, TypeOK, LinksDescend, Working, Stands, Advances
<1>4. CASE BeginDilate
  <2>1. /\ pc = "erode" /\ pc' = "dilate" /\ at' = 0 /\ best' = {}
        /\ UNCHANGED <<built, node, root>>
    BY <1>4 DEF BeginDilate, LInv, BestSoFar
  <2> QED BY <2>1 DEF AInv, TypeOK, LinksDescend, Working, Stands, Advances
<1>5. CASE DilateOnce
  <2>1. /\ pc = "dilate" /\ pc' = "dilate" /\ at' = at + 1 /\ at < Turns /\ best' = {}
        /\ UNCHANGED <<node, root>> /\ built' \subseteq Grid
    BY <1>5 DEF DilateOnce, Dilate, LInv, BestSoFar
  <2> QED BY <2>1 DEF AInv, TypeOK, LinksDescend, Working, Stands, Advances
<1>6. CASE BeginScan
  <2>1. /\ pc = "dilate" /\ pc' \in {"scan", "judge"} /\ at' = 0 /\ best' = {}
        /\ UNCHANGED <<built, node, root>>
        /\ parent' = [p \in built |-> p] /\ label' = [p \in built |-> Unset]
    BY <1>6 DEF BeginScan, LInv, BestSoFar
  <2>2. parent' \in [built -> built] /\ label' \in [built -> built \cup {Unset}]
    BY <2>1
  <2>3. \A p \in built : parent'[p] =< p
    BY <2>1
  <2> QED BY <2>1, <2>2, <2>3 DEF AInv, TypeOK, LinksDescend, Working, Stands, Advances
<1>7. CASE Skip
  <2>1. /\ pc = "scan" /\ pc' = "scan" /\ at' = at + 1 /\ at < Edges
        /\ UNCHANGED <<built, parent, label, node, root, best>>
    BY <1>7 DEF Skip
  <2> QED BY <2>1, ForestRests DEF AInv, TypeOK, Working, Stands, Advances
<1>8. CASE Unite
  <2>1. /\ pc = "scan" /\ pc' = "find_a" /\ node' \in built
        /\ UNCHANGED <<built, parent, label, root, best, at>>
    BY <1>8 DEF Unite, IsEdge
  <2> QED BY <2>1, ForestRests DEF AInv, TypeOK, Working, Stands, Advances
<1>9. CASE Climb
  <2>1. /\ pc \in {"find_a", "find_b", "find"} /\ pc' = pc /\ parent[node] # node
        /\ parent' = Halved(node) /\ node' = parent'[node]
        /\ UNCHANGED <<built, label, root, best, at>>
        /\ node \in built /\ parent \in [built -> built] /\ \A p \in built : parent[p] =< p
    BY <1>9 DEF Climb, SInv, Types, Working, AInv, LinksDescend
  <2> DEFINE up == parent[node]
             top == parent[up]
  <2>2. up \in built /\ top \in built /\ up =< node /\ top =< up /\ up # node
    BY <2>1
  <2>3. parent' = [parent EXCEPT ![node] = top]
    BY <2>1 DEF Halved
  <2> HIDE DEF up, top
  <2>4. node' = top /\ top < node
    BY <2>1, <2>2, <2>3
  <2>5. parent' \in [built -> built] /\ \A p \in built : parent'[p] =< p
    BY <2>1, <2>2, <2>3, <2>4
  <2> QED BY <2>1, <2>2, <2>4, <2>5 DEF AInv, TypeOK, LinksDescend, Working, Stands, Advances
<1>10. CASE FoundA
  <2>1. /\ pc = "find_a" /\ pc' = "find_b" /\ root' = node /\ node' = Beside(at)
        /\ UNCHANGED <<built, parent, label, best, at>>
        /\ node \in built /\ Beside(at) \in built
    BY <1>10 DEF FoundA, SInv, FindStays, IsEdge, Types
  <2> QED BY <2>1, ForestRests DEF AInv, TypeOK, Working, Stands, Advances
<1>11. CASE FoundB
  <2>1. /\ pc = "find_b" /\ pc' = "scan" /\ node' = Unset /\ root' = Unset /\ at' = at + 1
        /\ parent' = Linked(root, node)
        /\ UNCHANGED <<built, label, best>>
        /\ node \in built /\ root \in built /\ at \in 0 .. Edges - 1
        /\ parent \in [built -> built] /\ \A p \in built : parent[p] =< p
    BY <1>11 DEF FoundB, SInv, Types, FindStays, Working, AInv, LinksDescend
  <2>2. parent' \in [built -> built] /\ \A p \in built : parent'[p] =< p
    BY <2>1 DEF Linked
  <2> QED BY <2>1, <2>2 DEF AInv, TypeOK, LinksDescend, Working, Stands, Advances
<1>12. CASE BeginLabels
  <2>1. /\ pc = "scan" /\ pc' = "label" /\ at' = 0
        /\ UNCHANGED <<built, parent, label, node, root, best>>
    BY <1>12 DEF BeginLabels
  <2> QED BY <2>1, ForestRests DEF AInv, TypeOK, Working, Stands, Advances
<1>13. CASE FindLabel
  <2>1. /\ pc = "label" /\ at < Height * Width
        /\ \/ pc' = "find" /\ at' = at /\ node' = at /\ at \in built
           \/ pc' = "label" /\ at' = at + 1 /\ node' = node
        /\ UNCHANGED <<built, parent, label, root, best>>
    BY <1>13 DEF FindLabel
  <2> QED BY <2>1, ForestRests DEF AInv, TypeOK, Working, Stands, Advances
<1>14. CASE FoundLabel
  <2>1. /\ pc = "find" /\ pc' = "label" /\ at' = at + 1 /\ node' = Unset
        /\ label' = [label EXCEPT ![at] = node] /\ node \in built
        /\ UNCHANGED <<built, parent, root, best>>
        /\ parent \in [built -> built] /\ label \in [built -> built \cup {Unset}]
    BY <1>14 DEF FoundLabel, SInv, Types, Working, AInv, TypeOK
  <2>2. at \in built /\ at + 1 \in 0 .. Height * Width
    <3>1. at \in built /\ at \in 0 .. Height * Width - 1
      BY <2>1 DEF LInv, LabelsAreRoots, Grid
    <3> DEFINE n == Height * Width
    <3>2. n \in Nat
      OBVIOUS
    <3> HIDE DEF n
    <3>3. at \in 0 .. n - 1 => at + 1 \in 0 .. n
      BY <3>2
    <3> QED BY <3>1, <3>3 DEF n
  <2>3. label' \in [built -> built \cup {Unset}]
    BY <2>1
  <2> QED BY <2>1, <2>2, <2>3 DEF AInv, TypeOK, LinksDescend, Working, Stands, Advances
<1>15. CASE BeginPick
  <2>1. /\ pc = "label" /\ pc' = "pick" /\ at' = 0
        /\ UNCHANGED <<built, parent, label, node, root, best>>
    BY <1>15 DEF BeginPick
  <2> QED BY <2>1, ForestRests DEF AInv, TypeOK, Working, Stands, Advances
<1>16. CASE Pick
  <2>1. /\ pc = "pick" /\ pc' = "pick" /\ at' = at + 1 /\ at < Height * Width
        /\ best' \subseteq built \/ best' = best
        /\ UNCHANGED <<built, parent, label, node, root>>
    BY <1>16 DEF Pick
  <2> QED BY <2>1, ForestRests DEF AInv, TypeOK, Working, Stands, Advances
<1>17. CASE EndPick
  <2>1. /\ pc = "pick" /\ pc' = "judge" /\ at' = 0
        /\ UNCHANGED <<built, node, root, best>>
    BY <1>17 DEF EndPick
  <2> QED BY <2>1 DEF AInv, TypeOK, LinksDescend, Working, Stands, Advances
<1>18. CASE Judge
  <2>1. pc = "judge" /\ pc' = "done" /\ UNCHANGED <<at, built, node, root, best>>
    BY <1>18 DEF Judge
  <2> QED BY <2>1 DEF AInv, TypeOK, LinksDescend, Working, Stands, Advances
<1> QED
  BY <1>1, <1>2, <1>3, <1>4, <1>5, <1>6, <1>7, <1>8, <1>9, <1>10, <1>11, <1>12, <1>13, <1>14,
     <1>15, <1>16, <1>17, <1>18 DEF Next

LEMMA ARests == AInv /\ UNCHANGED vars => AInv'
BY DEF AInv, TypeOK, LinksDescend, Working, vars, Valid, Limit, Stage, Turns, Edges

LEMMA AInvAlways == Spec => []AInv
<1>1. SInv /\ OpenInv /\ LInv /\ AInv /\ [Next]_vars => AInv'
  BY AStep, ARests
<1> QED BY <1>1, AInit, SInvAlways, OpenInvAlways, LInvAlways, PTL DEF Spec

\* Every variable of a comparison keeps its type, and a counter the bound of its loop
\* (TypeOK; compare).
THEOREM ComparisonTyped == Spec => []TypeOK
<1>1. AInv => TypeOK
  BY DEF AInv
<1> QED BY <1>1, AInvAlways, PTL

\* Every turn of every loop brings a comparison nearer its end, because a link never leads
\* up; by ComparisonTyped no counter passes its bound, so no comparison goes on for ever
\* (EveryTurnAdvances; find, union, _open).
THEOREM ComparisonAdvances == Spec => EveryTurnAdvances
<1>1. SInv /\ OpenInv /\ LInv /\ AInv /\ [Next]_vars => [Advances]_vars
  BY AStep
<1>2. EveryTurnAdvances <=> [][Advances]_vars
  BY DEF EveryTurnAdvances, Advances
<1> QED BY <1>1, <1>2, SInvAlways, OpenInvAlways, LInvAlways, AInvAlways, PTL DEF Spec
================================================================================
