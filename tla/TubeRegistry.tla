---------------------------- MODULE TubeRegistry ----------------------------
(***************************************************************************)
(* The identity of the tubes (DetectorConstruction).                       *)
(*                                                                         *)
(* Construct builds the volumes, then TraverseReplicas visits the geometry *)
(* tree twice, depth first: once with DescribeAndRegisterPMT, which gives  *)
(* each PMT glass the next tube ID and files it under its tag, once with   *)
(* GetWCGeom.  FillGeometryTuple writes one pmtInfos row per ID.  During   *)
(* the run WCSD names a hit by asking for the tag of the touchable, which  *)
(* it builds from the copy numbers of the volume and its ancestors.        *)
(*                                                                         *)
(* The geometry may be remade between runs (/MEMPHYS/WCgeom) with another  *)
(* number of tubes, and the maps are not cleared then.                     *)
(***************************************************************************)
EXTENDS Integers, Sequences, FiniteSets

CONSTANTS
  Literals8inch,   \* the numbers in Set8inchPMTGeometry: `barrel' is its 12.3 m
                   \* and `edge' its 0.4 m, both used in an expression
  Literals12inch,  \* those in Set12inchPMTGeometry; `cell' is the side that
                   \* follows from the coverage asked for
  Initial,         \* the configuration of the constructor
  Selectable,      \* those that /MEMPHYS/WCgeom offers
  MaxBuilds        \* bound: calls of Construct

Geometry == {"12inch", "8inch"}

Names8inch == {"WCCapLength", "barrel", "back", "front", "WCRadius", "edge", "nphi", "nrings",
               "ncell", "cell", "limit", "WCPMTRadius", "sheet"}
Names12inch == {"WCLength", "WCCapLength", "WCVetoShieldLength", "WCRadius", "WCPMTRadius",
                "cell", "sheet", "extra"}

\* Lengths are integers, in a unit in which the halves that are taken along z
\* are whole; the outer parts leave room for the tank.
ASSUME TubeRegistryAssumption ==
  /\ Literals8inch \in [Names8inch -> Nat]
  /\ Literals12inch \in [Names12inch -> Nat] /\ Literals12inch.cell > 0
  /\ LET n == Literals8inch
     IN n.WCCapLength % 2 = 0 /\ n.barrel % 2 = 0 /\ (n.back - n.front) % 2 = 0
  /\ LET n == Literals12inch
     IN /\ n.WCLength % 2 = 0 /\ n.WCCapLength % 2 = 0
        /\ 2 * n.WCVetoShieldLength <= n.WCLength
  /\ Initial \in Geometry /\ Selectable \subseteq Geometry
  /\ MaxBuilds \in Nat

VARIABLES
  builds,           \* number of calls of Construct
  geometry,         \* the configuration
  phase,            \* where Construct is
  pending,          \* the visits that the recursion of the traversal still owes
  replicaNoString,  \* the static array of DescribeAndRegisterPMT
  totalNumPMTs,
  tubeLocationMap,  \* tube ID by tag
  tubeIDMap,        \* place (it stands for the transform) by tube ID
  tubeCylLocation,  \* location by tube ID
  zmin, zmax,       \* the static extremities of GetWCGeom
  wc,               \* WCCylInfo (radius, length), WCOffset (its z) and WCPMTSize
  entry,            \* the last entry of the Geometry tree
  tubeID            \* what GetTubeID answered last, with the place asked for

mapVars  == <<totalNumPMTs, tubeLocationMap, tubeIDMap, tubeCylLocation>>
geomVars == <<zmin, zmax, wc>>
vars == <<builds, geometry, phase, pending, replicaNoString, mapVars, geomVars,
          entry, tubeID>>

(***************************************************************************)
(* The two sets of dimensions; 22/7 stands for pi.                         *)
(***************************************************************************)
Set8inchPMTGeometry ==
  LET n == Literals8inch IN
  [WCLength |-> n.barrel + n.WCCapLength + n.back + n.front,
   WCCapLength |-> n.WCCapLength,
   WCBackODLength |-> n.back, WCFrontODLength |-> n.front,
   WCBarrelLength |-> n.barrel - n.WCCapLength,
   WCBarrelPMTRadius |-> n.WCRadius - n.edge,
   WCBarrelRingNPhi |-> n.nphi, WCBarrelNRings |-> n.nrings,
   WCCapNCell |-> n.ncell, WCCapCellSize |-> n.cell, WCCapEdgeLimit |-> n.limit,
   WCPMTRadius |-> n.WCPMTRadius, WCBlackSheetThickness |-> n.sheet]

Set12inchPMTGeometry ==
  LET n      == Literals12inch
      od     == n.WCVetoShieldLength - n.WCCapLength \div 2
      barrel == n.WCLength - 2 * n.WCCapLength - 2 * od
      radius == n.WCRadius - n.WCVetoShieldLength
  IN [WCLength |-> n.WCLength, WCCapLength |-> n.WCCapLength,
      WCBackODLength |-> od, WCFrontODLength |-> od, WCBarrelLength |-> barrel,
      WCBarrelPMTRadius |-> radius,
      WCBarrelRingNPhi |-> (2 * 22 * radius) \div (7 * n.cell),
      WCBarrelNRings |-> barrel \div n.cell,
      WCCapNCell |-> (2 * radius) \div n.cell, WCCapCellSize |-> n.cell,
      WCCapEdgeLimit |-> radius + n.sheet + n.extra,
      WCPMTRadius |-> n.WCPMTRadius, WCBlackSheetThickness |-> n.sheet]

dim == IF geometry = "8inch" THEN Set8inchPMTGeometry ELSE Set12inchPMTGeometry

\* Where ConstructWC stacks the parts along z, from the front outwards, and
\* where Construct puts the box.
WCPosition == (dim.WCBackODLength - dim.WCFrontODLength) \div 2

WCFrontCapPosition == -(dim.WCLength \div 2) + dim.WCFrontODLength
                        + dim.WCCapLength \div 2
WCBarrelPosition   == WCFrontCapPosition
                        + (dim.WCCapLength + dim.WCBarrelLength) \div 2
WCBackCapPosition  == WCBarrelPosition
                        + (dim.WCBarrelLength + dim.WCCapLength) \div 2

\* A cell of the cap gets a tube if its four corners lie within the edge
\* limit and if the tube does not touch the circle of the barrel's tubes.
Square(x) == x * x
Centre(k) == k * dim.WCCapCellSize + dim.WCCapCellSize \div 2
Corner(k) == (IF Centre(k) < 0 THEN -Centre(k) ELSE Centre(k))
               + dim.WCCapCellSize \div 2
ValidCell(i, j) ==
  LET rho2 == Square(Centre(i)) + Square(Centre(j))
  IN /\ Square(Corner(i)) + Square(Corner(j)) < Square(dim.WCCapEdgeLimit)
     /\ \/ rho2 > Square(dim.WCBarrelPMTRadius + dim.WCPMTRadius)
        \/ rho2 < Square(dim.WCBarrelPMTRadius - dim.WCPMTRadius)

CapCells ==
  LET half == dim.WCCapNCell \div 2
  IN {cell \in (-half .. half - 1) \X (-half .. half - 1) : ValidCell(cell[1], cell[2])}

(***************************************************************************)
(* The geometry tree, as ConstructWC places it: the daughters of a volume, *)
(* in the order of their construction.  A replicated daughter is visited   *)
(* with the numbers 0 .. n - 1, a placed one with its copy number.         *)
(***************************************************************************)
Volume == {"WCBox", "WC", "WCFrontCap", "WCBackCap", "WCBarrel", "WCBackOD", "WCFrontOD",
           "WCCapPolygon", "WCCapPMT", "WCCapPMTGlass", "WCCapBlackSheet",
           "WCCapBarrelBlackSheet", "WCBarrelAnnulus", "WCBarrelRing", "WCBarrelCell",
           "WCBarrelCellBlackSheet", "WCBarrelPMT", "WCBarrelPMTGlass"}

Placed(name, copyNo)   == <<[name |-> name, number |-> copyNo]>>
Replicated(name, n)    == [k \in 1 .. n |-> [name |-> name, number |-> k - 1]]
PlacedIf(test, name)   == IF test THEN Placed(name, 0) ELSE <<>>

WCDaughters ==
  Placed("WCFrontCap", 0) \o Placed("WCBackCap", 1) \o Placed("WCBarrel", 0)
    \o PlacedIf(dim.WCBackODLength # 0, "WCBackOD")
    \o PlacedIf(dim.WCFrontODLength # 0, "WCFrontOD")

\* Each tube of a cap is two volumes with the same copy number, one behind
\* the other, then come the black sheets.
CapDaughters ==
  [k \in 1 .. 2 * Cardinality(CapCells) |->
      [name |-> IF k % 2 = 1 THEN "WCCapPMT" ELSE "WCCapPMTGlass",
       number |-> (k - 1) \div 2]]
    \o Placed("WCCapBlackSheet", 0) \o Placed("WCCapBarrelBlackSheet", 0)

CellDaughters ==
  Placed("WCBarrelCellBlackSheet", 0) \o Placed("WCBarrelPMT", 0)
    \o Placed("WCBarrelPMTGlass", 0)

Daughters(name) ==
  CASE name = "WCBox"           -> Placed("WC", 0)
    [] name = "WC"              -> WCDaughters
    [] name \in {"WCFrontCap", "WCBackCap"} -> Placed("WCCapPolygon", 0)
    [] name = "WCCapPolygon"    -> CapDaughters
    [] name = "WCBarrel"        -> Placed("WCBarrelAnnulus", 0)
    [] name = "WCBarrelAnnulus" -> Replicated("WCBarrelRing", dim.WCBarrelNRings)
    [] name = "WCBarrelRing"    -> Replicated("WCBarrelCell", dim.WCBarrelRingNPhi)
    [] name = "WCBarrelCell"    -> CellDaughters
    [] OTHER                    -> <<>>

PMTGlass == {"WCCapPMTGlass", "WCBarrelPMTGlass"}

\* A visit is a volume and the numbers on the way to it.  The visits below
\* one volume: TraverseReplicas on each daughter.
Below(visit) ==
  LET daughters == Daughters(visit.name)
  IN [d \in DOMAIN daughters |->
        [name |-> daughters[d].name, path |-> Append(visit.path, daughters[d].number)]]

\* Depth first: the visits below come before those that were pending.
Traverse == pending' = Below(Head(pending)) \o Tail(pending)
Root == <<[name |-> "WCBox", path |-> <<0>>]>>

(***************************************************************************)
(* The volume codes of the event table, which EventAction makes from the   *)
(* names by looking for parts of them.                                     *)
(***************************************************************************)
WithPMT  == {"WCCapPMT", "WCBarrelPMT"} \cup PMTGlass
WithCap  == {"WCFrontCap", "WCBackCap", "WCCapPolygon", "WCCapPMT",
             "WCCapPMTGlass", "WCCapBlackSheet", "WCCapBarrelBlackSheet"}
WithCell == {"WCBarrelCell", "WCBarrelCellBlackSheet"}

\* Mutant: the test for "Cell" is left out.
NameHasPMTCapOrCellMutant == WithPMT \cup WithCap
NameHasPMTCapOrCell == WithPMT \cup WithCap \cup WithCell

EventFindStartingVolume(name) ==
  CASE name = "WCBarrel"                  -> 10
    [] name = "WCBox"                     -> -2
    [] name \in NameHasPMTCapOrCell       -> 11
    [] name \in {"WCBackOD", "WCFrontOD"} -> 12
    [] OTHER                              -> -3

EventFindStoppingVolume(name) ==
  IF name = "WCBox" THEN 0 ELSE EventFindStartingVolume(name)

NoTube == [id |-> 0, place |-> <<>>]
-----------------------------------------------------------------------------
Init ==
  /\ builds = 0 /\ geometry = Initial /\ phase = "idle" /\ pending = <<>>
  /\ replicaNoString = [d \in 0 .. 9 |-> 0]
  /\ totalNumPMTs = 0
  /\ tubeLocationMap = <<>> /\ tubeIDMap = <<>> /\ tubeCylLocation = <<>>
  /\ zmin = 100000 /\ zmax = -100000
  /\ wc = [radius |-> 0, length |-> 0, offset |-> 0, pmtSize |-> 0]
  /\ entry = <<>>
  /\ tubeID = NoTube

\* A std::map: assign, and operator[] that inserts 0 for an unknown key.
Assign(map, key, value) ==
  [k \in DOMAIN map \cup {key} |-> IF k = key THEN value ELSE map[k]]
Lookup(map, key) == IF key \in DOMAIN map THEN map[key] ELSE 0

\* Mutant: the tubes are counted on from the last geometry.
FirstTubeMutant == totalNumPMTs
FirstTube == 0

\* Construct, up to the first traversal.  The first geometry is the
\* constructor's, unless the messenger selects another one before the run
\* manager is initialized; it selects the later ones and remakes them.
Construct ==
  /\ phase \in {"idle", "ready"}
  /\ builds < MaxBuilds
  /\ builds' = builds + 1
  /\ geometry' \in Selectable \cup IF builds = 0 THEN {Initial} ELSE {}
  /\ totalNumPMTs' = FirstTube
  /\ pending' = Root
  /\ phase' = "DescribeAndRegisterPMT"
  /\ tubeID' = NoTube   \* the hits of an earlier run are written
  /\ UNCHANGED <<replicaNoString, tubeLocationMap, tubeIDMap, tubeCylLocation,
                 geomVars, entry>>

\* A visit of the first traversal: the copy number is filed at its depth; a
\* PMT glass gets the next ID, under the tag made of the numbers so far.
Depth(visit) == Len(visit.path) - 1

\* Mutant: the depth of the cap is taken to be one more.
CylLocationMutant(name, numbers) ==
  IF name = "WCBarrelPMTGlass" THEN "wall"
  ELSE IF numbers[3] # 0 THEN "endcap1" ELSE "endcap2"

CylLocation(name, numbers) ==
  IF name = "WCBarrelPMTGlass" THEN "wall"
  ELSE IF numbers[2] # 0 THEN "endcap1" ELSE "endcap2"

\* The tag of a volume.
Tag(name, depth, numbers) == <<name, [k \in 1 .. depth + 1 |-> numbers[k - 1]]>>

DescribeAndRegisterPMT ==
  /\ phase = "DescribeAndRegisterPMT" /\ pending # <<>>
  /\ LET visit   == Head(pending)
         depth   == Depth(visit)
         numbers == replicaNoString'
         tag     == Tag(visit.name, depth, numbers)
     IN /\ replicaNoString' =
             [replicaNoString EXCEPT ![depth] = visit.path[depth + 1]]
        /\ IF visit.name \in PMTGlass
           THEN /\ totalNumPMTs' = totalNumPMTs + 1
                /\ tubeLocationMap' = Assign(tubeLocationMap, tag, totalNumPMTs')
                /\ tubeCylLocation' = Assign(tubeCylLocation, totalNumPMTs',
                                             CylLocation(visit.name, numbers))
                /\ tubeIDMap' = Assign(tubeIDMap, totalNumPMTs',
                                       <<visit.name, visit.path>>)
           ELSE UNCHANGED mapVars
  /\ Traverse
  /\ UNCHANGED <<builds, geometry, phase, geomVars, entry, tubeID>>

SecondTraversal ==
  /\ phase = "DescribeAndRegisterPMT" /\ pending = <<>>
  /\ pending' = Root
  /\ phase' = "GetWCGeom"
  /\ UNCHANGED <<builds, geometry, replicaNoString, mapVars, geomVars, entry, tubeID>>

\* The z of a volume of a cap and of the barrel.
CapZ(visit) == WCPosition + IF visit.path[3] = 0 THEN WCFrontCapPosition
                            ELSE WCBackCapPosition

\* The extremities are static and are reset at the root of the tree.  The
\* mutant trusts their initial values.
ResetAtRootMutant == UNCHANGED <<zmin, zmax>>
ResetAtRoot == zmin' = 100000 /\ zmax' = -100000

\* The length is updated at each black sheet of a cap, from two extremities
\* of which a visit moves only one.
MeasureLength(z) ==
  /\ zmin' = IF z < zmin THEN z ELSE zmin
  /\ zmax' = IF z >= zmin /\ z > zmax THEN z ELSE zmax
  /\ wc' = [wc EXCEPT !.length = zmax' - zmin']

\* A visit of the second traversal; a barrel cell's sheet lies half its
\* thickness outside the tubes.
GetWCGeom ==
  /\ phase = "GetWCGeom" /\ pending # <<>>
  /\ LET visit == Head(pending) IN
       \/ Depth(visit) = 0 /\ ResetAtRoot /\ UNCHANGED wc
       \/ visit.name = "WCCapBlackSheet" /\ MeasureLength(CapZ(visit))
       \/ /\ Depth(visit) # 0 /\ visit.name # "WCCapBlackSheet"
          /\ wc' =
               CASE visit.name = "WCBarrel" ->
                      [wc EXCEPT !.offset = WCPosition + WCBarrelPosition]
                 [] visit.name \in PMTGlass -> [wc EXCEPT !.pmtSize = dim.WCPMTRadius]
                 [] visit.name = "WCBarrelCellBlackSheet" ->
                      [wc EXCEPT !.radius = dim.WCBarrelPMTRadius
                                              + dim.WCBlackSheetThickness \div 2]
                 [] OTHER -> wc
          /\ UNCHANGED <<zmin, zmax>>
  /\ Traverse
  /\ UNCHANGED <<builds, geometry, phase, replicaNoString, mapVars, entry, tubeID>>

\* The entry is made of what the traversals left, in centimetres, but the
\* offset is divided by cm a second time; its sub-tree is reset and gets a row
\* per tube ID, read from the maps.
cm == 10
FillGeometryTuple ==
  /\ phase = "GetWCGeom" /\ pending = <<>>
  /\ entry' = [wc |-> [wc EXCEPT !.offset = @ \div cm], nPMTs |-> totalNumPMTs,
               pmtInfos |-> [id \in 1 .. totalNumPMTs |->
                 [pmtId |-> id, location |-> tubeCylLocation[id],
                  place |-> tubeIDMap[id]]]]
  /\ phase' = "ready"
  /\ UNCHANGED <<builds, geometry, pending, replicaNoString, mapVars, geomVars, tubeID>>

\* The PMT glasses of the tree that the geometry has now, by their touchable.
CapPath(cap, n)    == <<0, 0, cap, 0, n>>
CellPath(ring, n)  == <<0, 0, 0, 0, ring, n, 0>>
Touchables ==
  {<<"WCCapPMTGlass", CapPath(cap, n)>> :
      cap \in {0, 1}, n \in 0 .. Cardinality(CapCells) - 1}
  \cup {<<"WCBarrelPMTGlass", CellPath(ring, n)>> :
      ring \in 0 .. dim.WCBarrelNRings - 1, n \in 0 .. dim.WCBarrelRingNPhi - 1}

\* ProcessHits asks for the tube of the touchable of the step's start.
GetTubeID ==
  /\ phase = "ready"
  /\ \E tag \in Touchables :
       /\ tubeID' = [id |-> Lookup(tubeLocationMap, tag), place |-> tag]
       /\ tubeLocationMap' = Assign(tubeLocationMap, tag, tubeID'.id)
  /\ UNCHANGED <<builds, geometry, phase, pending, replicaNoString, totalNumPMTs,
                 tubeIDMap, tubeCylLocation, geomVars, entry>>

Next == \/ Construct \/ DescribeAndRegisterPMT \/ SecondTraversal \/ GetWCGeom
        \/ FillGeometryTuple \/ GetTubeID

Spec == Init /\ [][Next]_vars
-----------------------------------------------------------------------------
Location == {"endcap1", "wall", "endcap2"}

TypeOK ==
  /\ builds \in Nat /\ geometry \in Geometry
  /\ phase \in {"idle", "DescribeAndRegisterPMT", "GetWCGeom", "ready"}
  /\ pending \in Seq([name : Volume, path : Seq(Nat)])
  /\ replicaNoString \in [0 .. 9 -> Nat]
  /\ totalNumPMTs \in Nat
  /\ \A tag \in DOMAIN tubeLocationMap : tubeLocationMap[tag] \in Nat \ {0}
  /\ \A id \in DOMAIN tubeCylLocation : tubeCylLocation[id] \in Location
  /\ {zmin, zmax} \subseteq Int
  /\ wc \in [{"radius", "length", "offset", "pmtSize"} -> Int]
  /\ tubeID.id \in Nat

\* Whatever geometry was built before, each PMT of the present one has an ID
\* of its own in 1 .. totalNumPMTs, and there is no other ID: the array that
\* the tags are made of and the maps keep entries of earlier visits and of
\* earlier geometries.
TubesNumbered ==
  phase = "ready" =>
    /\ \A tag \in Touchables :
         tag \in DOMAIN tubeLocationMap /\ tubeLocationMap[tag] \in 1 .. totalNumPMTs
    /\ \A id \in 1 .. totalNumPMTs :
         \E tag \in Touchables : tubeLocationMap[tag] = id
    /\ \A s, t \in Touchables : tubeLocationMap[s] = tubeLocationMap[t] => s = t

\* The tube ID of a hit leads, in the rows of the entry, to the place where
\* the photon was detected and to its part of the cylinder (endcap1 is copy 1).
HitLeadsToItsTube ==
  tubeID # NoTube =>
    /\ tubeID.id \in DOMAIN entry.pmtInfos
    /\ LET row == entry.pmtInfos[tubeID.id] IN
         /\ row.place = tubeID.place
         /\ row.location = CASE tubeID.place[1] = "WCBarrelPMTGlass" -> "wall"
                             [] tubeID.place[2][3] = 1 -> "endcap1"
                             [] OTHER -> "endcap2"

\* The entry describes the tank that stands: it is centred at the origin
\* (DetectorConstruction.cpp:188), its length is the distance of the two
\* black sheets, although a visit of one moves only one extremity, and it
\* lists all the tubes.
EntryDescribesTank ==
  phase = "ready" =>
    /\ entry.wc.offset = 0 /\ zmin = -zmax
    /\ entry.wc.length = dim.WCBarrelLength + dim.WCCapLength
    /\ entry.nPMTs = Cardinality(Touchables)

\* No track starts or stops in a volume that EventAction does not know (-3):
\* a volume of the tree has a code, unless its daughters fill it.  Rings and
\* cells divide the whole of their mothers; the parts of the tank fill it if
\* their lengths add up to its length.
Filled(name) ==
  \/ name \in {"WCBarrelAnnulus", "WCBarrelRing"}
  \/ /\ name = "WC"
     /\ dim.WCLength = dim.WCFrontODLength + dim.WCBackODLength
                         + 2 * dim.WCCapLength + dim.WCBarrelLength
VolumesKnown ==
  pending # <<>> =>
    LET name == Head(pending).name
    IN ~Filled(name) => -3 \notin {EventFindStartingVolume(name),
                                   EventFindStoppingVolume(name)}
=============================================================================
