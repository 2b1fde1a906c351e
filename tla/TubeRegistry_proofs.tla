------------------------- MODULE TubeRegistry_proofs -------------------------
(***************************************************************************)
(* What TubeRegistry promises, for every choice of the dimensions: any     *)
(* number of rings, cells and caps' tubes, also none, and any number of    *)
(* calls of Construct with any of the configurations.                      *)
(*                                                                         *)
(* The argument: the visits that the recursion still owes come in order,   *)
(* none deeper than those before it, and lead each to tubes of its own     *)
(* (Orderly).  A tube that none of them leads to is filed under its ID, and*)
(* the IDs given so far are those of such tubes (Numbered).  The static    *)
(* array holds the numbers on the way to every visit that is owed, since   *)
(* what comes before it lies at least as deep and writes only deeper       *)
(* entries (OnTheWay).  In the second traversal the sheets of the caps     *)
(* come in order, so that each moves one extremity (Measured).             *)
(***************************************************************************)
EXTENDS TubeRegistry, FiniteSetTheorems, SequenceTheorems, TLAPS

(***************************************************************************)
(* Visits.                                                                 *)
(***************************************************************************)
Visit == [name : Volume, path : Seq(Nat)]
NCap == Cardinality(CapCells)

\* The numbers on the way to the volumes of each name.
Cap(v)    == v.path[3] \in {0, 1}
Ring(v)   == v.path[3] = 0 /\ v.path[4] = 0 /\ v.path[5] \in 0 .. dim.WCBarrelNRings - 1
Cell(v)   == Ring(v) /\ v.path[6] \in 0 .. dim.WCBarrelRingNPhi - 1
InTree(v) ==
  /\ v \in Visit
  /\ 1 <= Len(v.path) /\ v.path[1] = 0 /\ (2 <= Len(v.path) => v.path[2] = 0)
  /\ \/ v.name = "WCBox" /\ Len(v.path) = 1
     \/ v.name = "WC" /\ Len(v.path) = 2
     \/ v.name \in {"WCFrontCap", "WCBarrel", "WCBackOD", "WCFrontOD"}
          /\ Len(v.path) = 3 /\ v.path[3] = 0
     \/ v.name = "WCBackCap" /\ Len(v.path) = 3 /\ v.path[3] = 1
     \/ v.name = "WCCapPolygon" /\ Len(v.path) = 4 /\ Cap(v) /\ v.path[4] = 0
     \/ v.name = "WCBarrelAnnulus" /\ Len(v.path) = 4 /\ v.path[3] = 0 /\ v.path[4] = 0
     \/ v.name \in {"WCCapPMT", "WCCapPMTGlass"}
          /\ Len(v.path) = 5 /\ Cap(v) /\ v.path[4] = 0 /\ v.path[5] \in 0 .. NCap - 1
     \/ v.name \in {"WCCapBlackSheet", "WCCapBarrelBlackSheet"} /\ Len(v.path) = 5 /\ Cap(v)
     \/ v.name = "WCBarrelRing" /\ Len(v.path) = 5 /\ Ring(v)
     \/ v.name = "WCBarrelCell" /\ Len(v.path) = 6 /\ Cell(v)
     \/ v.name \in {"WCBarrelCellBlackSheet", "WCBarrelPMT", "WCBarrelPMTGlass"}
          /\ Len(v.path) = 7 /\ Cell(v) /\ v.path[7] = 0

\* The tubes that a visit leads to.
Leads(v, t) ==
  \/ v.name \in {"WCBox", "WC"}
  \/ /\ t[1] = "WCCapPMTGlass"
     /\ \/ v.name \in {"WCFrontCap", "WCBackCap", "WCCapPolygon"} /\ t[2][3] = v.path[3]
        \/ v.name = "WCCapPMTGlass" /\ t[2][3] = v.path[3] /\ t[2][5] = v.path[5]
  \/ /\ t[1] = "WCBarrelPMTGlass"
     /\ \/ v.name \in {"WCBarrel", "WCBarrelAnnulus"}
        \/ v.name = "WCBarrelRing" /\ t[2][5] = v.path[5]
        \/ v.name \in {"WCBarrelCell", "WCBarrelPMTGlass"}
             /\ t[2][5] = v.path[5] /\ t[2][6] = v.path[6]

\* The caps whose black sheet it leads to.
LeadsToSheet(v, c) ==
  \/ v.name \in {"WCBox", "WC"}
  \/ v.name \in {"WCFrontCap", "WCBackCap", "WCCapPolygon", "WCCapBlackSheet"}
       /\ v.path[3] = c

(***************************************************************************)
(* The invariant.                                                          *)
(***************************************************************************)
\* The visits lie in the tree, none deeper than the ones before it; no two of
\* them lead to the same tube, and the sheets come in the order of the caps.
Orderly(P) ==
  /\ \A m \in DOMAIN P : InTree(P[m])
  /\ \A m, n \in DOMAIN P : m < n =>
       /\ Len(P[n].path) <= Len(P[m].path)
       /\ \A t \in Touchables : ~(Leads(P[m], t) /\ Leads(P[n], t))
       /\ \A c, d \in {0, 1} : LeadsToSheet(P[m], c) /\ LeadsToSheet(P[n], d) => c < d
PendingOK ==
  /\ Orderly(pending)
  /\ phase \in {"idle", "ready"} => pending = <<>>

\* The static array has the numbers on the way to every visit.
OnTheWay ==
  phase = "DescribeAndRegisterPMT" =>
    \A m \in DOMAIN pending : \A k \in 1 .. Len(pending[m].path) - 1 :
      replicaNoString[k - 1] = pending[m].path[k]

\* The tubes to come, and what is known of the others.
LeadsOn(P, t) == \E m \in DOMAIN P : Leads(P[m], t)
Awaited(t) == phase = "DescribeAndRegisterPMT" /\ LeadsOn(pending, t)

LocationOf(t) ==
  CASE t[1] = "WCBarrelPMTGlass" -> "wall"
    [] t[2][3] = 1 -> "endcap1"
    [] OTHER -> "endcap2"

Filed(t) ==
  /\ t \in DOMAIN tubeLocationMap /\ tubeLocationMap[t] \in 1 .. totalNumPMTs
  /\ tubeIDMap[tubeLocationMap[t]] = t
  /\ tubeCylLocation[tubeLocationMap[t]] = LocationOf(t)

Numbered ==
  phase # "idle" =>
    /\ \A t \in Touchables : ~Awaited(t) => Filed(t)
    /\ \A id \in 1 .. totalNumPMTs :
         /\ id \in DOMAIN tubeIDMap /\ id \in DOMAIN tubeCylLocation
         /\ tubeIDMap[id] \in Touchables /\ ~Awaited(tubeIDMap[id])
         /\ tubeLocationMap[tubeIDMap[id]] = id

\* What the second traversal has found so far.
HalfLength == (dim.WCBarrelLength + dim.WCCapLength) \div 2
SheetIn(P, c) == \E m \in DOMAIN P : LeadsToSheet(P[m], c)
RootIn(P)     == \E m \in DOMAIN P : P[m].name = "WCBox"
BarrelIn(P)   == \E m \in DOMAIN P : P[m].name \in {"WCBox", "WC", "WCBarrel"}
Measured ==
  phase \in {"GetWCGeom", "ready"} =>
    /\ ~RootIn(pending) =>
         /\ zmin = IF SheetIn(pending, 0) THEN 100000 ELSE -HalfLength
         /\ zmax = IF SheetIn(pending, 1) THEN -100000 ELSE HalfLength
         /\ SheetIn(pending, 0) => SheetIn(pending, 1)
         /\ ~SheetIn(pending, 1) => wc.length = dim.WCBarrelLength + dim.WCCapLength
    /\ ~BarrelIn(pending) => wc.offset = 0

EntryWritten ==
  phase = "ready" =>
    entry = [wc |-> [wc EXCEPT !.offset = @ \div cm], nPMTs |-> totalNumPMTs,
             pmtInfos |-> [id \in 1 .. totalNumPMTs |->
               [pmtId |-> id, location |-> tubeCylLocation[id], place |-> tubeIDMap[id]]]]

Asked ==
  \/ tubeID = NoTube
  \/ phase = "ready" /\ \E t \in Touchables : tubeID = [id |-> tubeLocationMap[t], place |-> t]

IInv ==
  /\ TypeOK
  /\ PendingOK
  /\ OnTheWay
  /\ Numbered
  /\ Measured
  /\ EntryWritten
  /\ Asked

(***************************************************************************)
(* The tank.                                                               *)
(***************************************************************************)
\* The parts along z, as ConstructWC stacks them: c is the length of a cap, l of
\* the barrel, b and f of the outer parts.
LEMMA Stacked ==
  ASSUME NEW c \in Int, NEW l \in Int, NEW b \in Int, NEW f \in Int, NEW w \in Int,
         c % 2 = 0, l % 2 = 0, (b - f) % 2 = 0, l + c >= 0, w = f + b + 2 * c + l
  PROVE  LET box    == (b - f) \div 2
             front  == -(w \div 2) + f + c \div 2
             barrel == front + (c + l) \div 2
             back   == barrel + (l + c) \div 2
             half   == (l + c) \div 2
         IN  /\ half \in Nat /\ 2 * half = l + c
             /\ box + barrel = 0 /\ box + front = -half /\ box + back = half
<1>1. PICK x \in Int, y \in Int, z \in Int : c = 2 * x /\ l = 2 * y /\ b = f + 2 * z
  <2>1. /\ c = 2 * (c \div 2) /\ l = 2 * (l \div 2) /\ b = f + 2 * ((b - f) \div 2)
        /\ c \div 2 \in Int /\ l \div 2 \in Int /\ (b - f) \div 2 \in Int
    OBVIOUS
  <2> QED  BY <2>1
<1>2. w = 2 * (f + z + 2 * x + y)
  BY <1>1
<1>3. /\ (b - f) \div 2 = z /\ c \div 2 = x /\ (c + l) \div 2 = x + y
      /\ (l + c) \div 2 = x + y /\ w \div 2 = f + z + 2 * x + y
  BY <1>1, <1>2
<1> QED  BY <1>1, <1>3

\* So the parts of the tank are centred on it.
LEMMA Centred ==
  ASSUME /\ dim.WCLength \in Int /\ dim.WCBackODLength \in Int /\ dim.WCFrontODLength \in Int
         /\ dim.WCBarrelLength \in Int /\ dim.WCCapLength \in Int,
         dim.WCCapLength % 2 = 0, dim.WCBarrelLength % 2 = 0,
         (dim.WCBackODLength - dim.WCFrontODLength) % 2 = 0,
         dim.WCBarrelLength + dim.WCCapLength >= 0,
         dim.WCLength = dim.WCFrontODLength + dim.WCBackODLength
                          + 2 * dim.WCCapLength + dim.WCBarrelLength
  PROVE  /\ HalfLength \in Nat /\ 2 * HalfLength = dim.WCBarrelLength + dim.WCCapLength
         /\ WCPosition + WCBarrelPosition = 0
         /\ WCPosition + WCFrontCapPosition = -HalfLength
         /\ WCPosition + WCBackCapPosition = HalfLength
<1> DEFINE c == dim.WCCapLength
           l == dim.WCBarrelLength
           b == dim.WCBackODLength
           f == dim.WCFrontODLength
           w == dim.WCLength
<1>1. /\ HalfLength = (l + c) \div 2 /\ WCPosition = (b - f) \div 2
      /\ WCFrontCapPosition = -(w \div 2) + f + c \div 2
      /\ WCBarrelPosition = WCFrontCapPosition + (c + l) \div 2
      /\ WCBackCapPosition = WCBarrelPosition + (l + c) \div 2
  BY DEF HalfLength, WCPosition, WCFrontCapPosition, WCBarrelPosition, WCBackCapPosition
<1>2. /\ c \in Int /\ l \in Int /\ b \in Int /\ f \in Int /\ w \in Int
      /\ c % 2 = 0 /\ l % 2 = 0 /\ (b - f) % 2 = 0 /\ l + c >= 0 /\ w = f + b + 2 * c + l
  OBVIOUS
<1> HIDE DEF c, l, b, f, w
<1>3. /\ (l + c) \div 2 \in Nat /\ 2 * ((l + c) \div 2) = l + c
      /\ (b - f) \div 2 + (-(w \div 2) + f + c \div 2 + (c + l) \div 2) = 0
      /\ (b - f) \div 2 + (-(w \div 2) + f + c \div 2) = -((l + c) \div 2)
      /\ (b - f) \div 2 + (-(w \div 2) + f + c \div 2 + (c + l) \div 2 + (l + c) \div 2)
           = (l + c) \div 2
  BY <1>2, Stacked
<1>4. /\ HalfLength \in Nat /\ 2 * HalfLength = l + c
      /\ WCPosition + WCBarrelPosition = 0
      /\ WCPosition + WCFrontCapPosition = -HalfLength
      /\ WCPosition + WCBackCapPosition = HalfLength
  BY <1>1, <1>3
<1> QED  BY <1>4 DEF c, l

\* The dimensions are integers, and the caps are centred on the tank.
LEMMA Dimensions ==
  ASSUME geometry \in Geometry
  PROVE  /\ dim.WCBarrelNRings \in Int /\ dim.WCBarrelRingNPhi \in Int
         /\ dim.WCCapNCell \in Int /\ dim.WCBackODLength \in Int /\ dim.WCFrontODLength \in Int
         /\ dim.WCBarrelLength \in Int /\ dim.WCCapLength \in Int /\ dim.WCPMTRadius \in Int
         /\ dim.WCBarrelPMTRadius \in Int /\ dim.WCBlackSheetThickness \in Int
         /\ HalfLength \in Nat /\ 2 * HalfLength = dim.WCBarrelLength + dim.WCCapLength
         /\ WCPosition + WCBarrelPosition = 0
         /\ WCPosition + WCFrontCapPosition = -HalfLength
         /\ WCPosition + WCBackCapPosition = HalfLength
         /\ dim.WCLength = dim.WCFrontODLength + dim.WCBackODLength
                             + 2 * dim.WCCapLength + dim.WCBarrelLength
<1>1. CASE geometry = "8inch"
  <2> DEFINE n == Literals8inch
  <2>1. /\ n.WCCapLength \in Nat /\ n.barrel \in Nat /\ n.back \in Nat /\ n.front \in Nat
        /\ n.WCRadius \in Nat /\ n.edge \in Nat /\ n.nphi \in Nat /\ n.nrings \in Nat
        /\ n.ncell \in Nat /\ n.WCPMTRadius \in Nat /\ n.sheet \in Nat
        /\ n.WCCapLength % 2 = 0 /\ n.barrel % 2 = 0 /\ (n.back - n.front) % 2 = 0
    BY TubeRegistryAssumption DEF Names8inch
  <2>2. dim = Set8inchPMTGeometry
    BY <1>1 DEF dim
  <2>3. /\ dim.WCLength = n.barrel + n.WCCapLength + n.back + n.front
        /\ dim.WCCapLength = n.WCCapLength /\ dim.WCBackODLength = n.back
        /\ dim.WCFrontODLength = n.front /\ dim.WCBarrelLength = n.barrel - n.WCCapLength
        /\ dim.WCBarrelPMTRadius = n.WCRadius - n.edge
        /\ dim.WCBarrelRingNPhi = n.nphi /\ dim.WCBarrelNRings = n.nrings
        /\ dim.WCCapNCell = n.ncell /\ dim.WCPMTRadius = n.WCPMTRadius
        /\ dim.WCBlackSheetThickness = n.sheet
    BY <2>2 DEF Set8inchPMTGeometry
  <2> HIDE DEF n
  <2>4. /\ dim.WCLength \in Int /\ dim.WCLength = dim.WCFrontODLength + dim.WCBackODLength
                             + 2 * dim.WCCapLength + dim.WCBarrelLength
        /\ dim.WCCapLength % 2 = 0 /\ dim.WCBarrelLength % 2 = 0
        /\ (dim.WCBackODLength - dim.WCFrontODLength) % 2 = 0
        /\ dim.WCBarrelLength + dim.WCCapLength >= 0
    BY <2>1, <2>3
  <2>5. /\ dim.WCBarrelNRings \in Int /\ dim.WCBarrelRingNPhi \in Int
        /\ dim.WCCapNCell \in Int /\ dim.WCBackODLength \in Int /\ dim.WCFrontODLength \in Int
        /\ dim.WCBarrelLength \in Int /\ dim.WCCapLength \in Int /\ dim.WCPMTRadius \in Int
        /\ dim.WCBarrelPMTRadius \in Int /\ dim.WCBlackSheetThickness \in Int
    BY <2>1, <2>3
  <2> QED  BY <2>4, <2>5, Centred
<1>2. CASE geometry = "12inch"
  <2> DEFINE n == Literals12inch
             od == n.WCVetoShieldLength - n.WCCapLength \div 2
             barrel == n.WCLength - 2 * n.WCCapLength - 2 * od
             radius == n.WCRadius - n.WCVetoShieldLength
  <2>1. /\ n.WCLength \in Nat /\ n.WCCapLength \in Nat /\ n.WCVetoShieldLength \in Nat
        /\ n.WCRadius \in Nat /\ n.WCPMTRadius \in Nat /\ n.cell \in Nat /\ n.cell > 0
        /\ n.sheet \in Nat
        /\ n.WCLength % 2 = 0 /\ n.WCCapLength % 2 = 0
        /\ 2 * n.WCVetoShieldLength <= n.WCLength
    BY TubeRegistryAssumption DEF Names12inch
  <2>2. dim = Set12inchPMTGeometry
    BY <1>2 DEF dim
  <2>3. /\ dim.WCLength = n.WCLength /\ dim.WCCapLength = n.WCCapLength
        /\ dim.WCBackODLength = od /\ dim.WCFrontODLength = od /\ dim.WCBarrelLength = barrel
        /\ dim.WCBarrelPMTRadius = radius
        /\ dim.WCBarrelRingNPhi = (2 * 22 * radius) \div (7 * n.cell)
        /\ dim.WCBarrelNRings = barrel \div n.cell
        /\ dim.WCCapNCell = (2 * radius) \div n.cell /\ dim.WCPMTRadius = n.WCPMTRadius
        /\ dim.WCBlackSheetThickness = n.sheet
    BY <2>2 DEF Set12inchPMTGeometry
  <2> HIDE DEF n
  <2>4. od \in Int /\ barrel \in Int /\ radius \in Int
    BY <2>1
  <2>5. /\ dim.WCBarrelRingNPhi \in Int /\ dim.WCBarrelNRings \in Int /\ dim.WCCapNCell \in Int
    <3> HIDE DEF od, barrel, radius
    <3>1. 7 * n.cell \in Nat /\ 7 * n.cell > 0 /\ 2 * 22 * radius \in Int /\ 2 * radius \in Int
      BY <2>1, <2>4
    <3> QED  BY <2>1, <2>3, <2>4, <3>1
  <2>6. /\ dim.WCLength \in Int /\ dim.WCLength = dim.WCFrontODLength + dim.WCBackODLength
                             + 2 * dim.WCCapLength + dim.WCBarrelLength
        /\ dim.WCCapLength % 2 = 0 /\ dim.WCBarrelLength % 2 = 0
        /\ (dim.WCBackODLength - dim.WCFrontODLength) % 2 = 0
        /\ dim.WCBarrelLength + dim.WCCapLength >= 0
    <3>1. PICK x \in Int, y \in Int : n.WCLength = 2 * x /\ n.WCCapLength = 2 * y
      <4>1. /\ n.WCLength = 2 * (n.WCLength \div 2) /\ n.WCLength \div 2 \in Int
            /\ n.WCCapLength = 2 * (n.WCCapLength \div 2) /\ n.WCCapLength \div 2 \in Int
        BY <2>1
      <4> QED  BY <4>1
    <3>2. od = n.WCVetoShieldLength - y
      BY <2>1, <3>1
    <3>3. barrel = 2 * x - 4 * y - 2 * (n.WCVetoShieldLength - y)
      BY <2>1, <3>1, <3>2
    <3> HIDE DEF od, barrel, radius
    <3>4. barrel = 2 * (x - y - n.WCVetoShieldLength)
      BY <2>1, <3>1, <3>3
    <3>5. barrel % 2 = 0 /\ barrel + n.WCCapLength = n.WCLength - 2 * n.WCVetoShieldLength
      BY <2>1, <3>1, <3>4
    <3>6. n.WCLength = od + od + 2 * n.WCCapLength + barrel
      BY <2>1, <2>4, <3>1, <3>2, <3>4
    <3> QED  BY <2>1, <2>3, <2>4, <3>5, <3>6
  <2>7. /\ dim.WCBackODLength \in Int /\ dim.WCFrontODLength \in Int
        /\ dim.WCBarrelLength \in Int /\ dim.WCCapLength \in Int /\ dim.WCPMTRadius \in Int
        /\ dim.WCBarrelPMTRadius \in Int /\ dim.WCBlackSheetThickness \in Int
    BY <2>1, <2>3, <2>4
  <2> QED  BY <2>5, <2>6, <2>7, Centred
<1> QED  BY <1>1, <1>2 DEF Geometry

\* The tubes of a cap are finitely many.
LEMMA CapCount ==
  ASSUME geometry \in Geometry
  PROVE  NCap \in Nat
<1> DEFINE half == dim.WCCapNCell \div 2
           row == -half .. half - 1
<1>1. half \in Int
  BY Dimensions
<1> HIDE DEF half
<1>2. IsFiniteSet(row)
  <2>1. -half \in Int /\ half - 1 \in Int
    BY <1>1
  <2> QED  BY <2>1, FS_Interval
<1> HIDE DEF row
<1>3. IsFiniteSet(row \X row)
  BY <1>2, FS_Product
<1>4. CapCells \in SUBSET (row \X row)
  BY DEF CapCells, half, row
<1>5. IsFiniteSet(CapCells)
  BY <1>3, <1>4, FS_Subset
<1> QED  BY <1>5, FS_CardinalityType DEF NCap

\* As long as the configuration stays, so does the tank.
LEMMA SameTank ==
  ASSUME geometry' = geometry
  PROVE  /\ dim' = dim /\ NCap' = NCap /\ Touchables' = Touchables
         /\ HalfLength' = HalfLength
         /\ \A v : InTree(v)' <=> InTree(v)
<1>1. dim' = dim
  BY DEF dim, Set8inchPMTGeometry, Set12inchPMTGeometry
<1>2. CapCells' = CapCells
  BY <1>1 DEF CapCells, ValidCell, Corner, Centre, Square
<1>3. NCap' = NCap
  BY <1>2 DEF NCap
<1>4. Touchables' = Touchables
  BY <1>1, <1>2 DEF Touchables, CapPath, CellPath
<1>5. HalfLength' = HalfLength
  BY <1>1 DEF HalfLength
<1>6. \A v : InTree(v)' <=> InTree(v)
  BY <1>1, <1>3 DEF InTree, Cap, Ring, Cell, Visit
<1> QED  BY <1>1, <1>3, <1>4, <1>5, <1>6

(***************************************************************************)
(* The daughters of a volume.                                              *)
(***************************************************************************)
Daughter == [name : Volume, number : Nat]

\* A sequence of one, and two sequences joined.
LEMMA Alone ==
  ASSUME NEW S, NEW x \in S
  PROVE  <<x>> \in Seq(S) /\ Len(<<x>>) = 1 /\ DOMAIN <<x>> = 1 .. 1 /\ <<x>>[1] = x
OBVIOUS

IsJoin(w, s, t, S) ==
  /\ w \in Seq(S) /\ Len(w) = Len(s) + Len(t) /\ Len(s) \in Nat /\ Len(t) \in Nat
  /\ DOMAIN s = 1 .. Len(s) /\ DOMAIN t = 1 .. Len(t) /\ DOMAIN w = 1 .. Len(s) + Len(t)
  /\ \A k \in 1 .. Len(s) : w[k] = s[k]
  /\ \A k \in Len(s) + 1 .. Len(s) + Len(t) : w[k] = t[k - Len(s)]

\* Concatenation joins.
LEMMA Joined ==
  ASSUME NEW S, NEW s \in Seq(S), NEW t \in Seq(S)
  PROVE  IsJoin(s \o t, s, t, S)
BY DEF IsJoin

\* Three of them.
LEMMA Three ==
  ASSUME NEW S, NEW x \in S, NEW y \in S, NEW z \in S
  PROVE  LET w == <<x>> \o <<y>> \o <<z>> IN
         /\ w \in Seq(S) /\ Len(w) = 3 /\ w[1] = x /\ w[2] = y /\ w[3] = z
OBVIOUS

\* A daughter with a copy number.
LEMMA PlacedIs ==
  ASSUME NEW name \in Volume, NEW n \in Nat
  PROVE  LET x == [name |-> name, number |-> n] IN
         x \in Daughter /\ Placed(name, n) \in Seq(Daughter) /\ Placed(name, n) = <<x>>
<1> DEFINE x == [name |-> name, number |-> n]
<1>1. x \in Daughter
  BY DEF Daughter
<1>2. Placed(name, n) = <<x>>
  BY DEF Placed
<1> HIDE DEF x
<1>3. <<x>> \in Seq(Daughter)
  BY <1>1, Alone
<1> QED  BY <1>1, <1>2, <1>3 DEF x

\* The parts of the tank: the caps in order, the barrel, what lies outside.
LEMMA TankParts ==
  /\ WCDaughters \in Seq(Daughter) /\ Len(WCDaughters) >= 3
  /\ WCDaughters[1] = [name |-> "WCFrontCap", number |-> 0]
  /\ WCDaughters[2] = [name |-> "WCBackCap", number |-> 1]
  /\ WCDaughters[3] = [name |-> "WCBarrel", number |-> 0]
  /\ \A d \in DOMAIN WCDaughters : d > 3 =>
       WCDaughters[d].name \in {"WCBackOD", "WCFrontOD"} /\ WCDaughters[d].number = 0
<1> DEFINE x == [name |-> "WCFrontCap", number |-> 0]
           y == [name |-> "WCBackCap", number |-> 1]
           z == [name |-> "WCBarrel", number |-> 0]
           p == [name |-> "WCBackOD", number |-> 0]
           q == [name |-> "WCFrontOD", number |-> 0]
           three == <<x>> \o <<y>> \o <<z>>
           back  == PlacedIf(dim.WCBackODLength # 0, "WCBackOD")
           front == PlacedIf(dim.WCFrontODLength # 0, "WCFrontOD")
           outer == back \o front
<1>1. /\ x \in Daughter /\ y \in Daughter /\ z \in Daughter /\ p \in Daughter /\ q \in Daughter
      /\ Placed("WCFrontCap", 0) = <<x>> /\ Placed("WCBackCap", 1) = <<y>>
      /\ Placed("WCBarrel", 0) = <<z>> /\ Placed("WCBackOD", 0) = <<p>>
      /\ Placed("WCFrontOD", 0) = <<q>>
  BY DEF Daughter, Volume, Placed
<1>2. p.name \in {"WCBackOD", "WCFrontOD"} /\ p.number = 0
      /\ q.name \in {"WCBackOD", "WCFrontOD"} /\ q.number = 0
  OBVIOUS
<1>3. back \in {<<>>, <<p>>} /\ front \in {<<>>, <<q>>}
  BY <1>1 DEF PlacedIf
<1>4. WCDaughters = three \o back \o front
  BY <1>1 DEF WCDaughters
<1> HIDE DEF x, y, z, p, q
<1>5. /\ three \in Seq(Daughter) /\ Len(three) = 3
      /\ three[1] = x /\ three[2] = y /\ three[3] = z
  BY <1>1
<1> HIDE DEF three, back, front
<1>6. back \in Seq({p, q}) /\ front \in Seq({p, q})
  <2>1. <<p>> \in Seq({p, q}) /\ <<q>> \in Seq({p, q}) /\ <<>> \in Seq({p, q})
    BY Alone
  <2> QED  BY <1>3, <2>1
<1>7. outer \in Seq({p, q})
  BY <1>6
<1>8. {p, q} \subseteq Daughter
  BY <1>1
<1>9. back \in Seq(Daughter) /\ front \in Seq(Daughter) /\ outer \in Seq(Daughter)
  BY <1>6, <1>7, <1>8, SeqMonotonic
<1>10. WCDaughters = three \o outer
  <2>1. three \in Seq(Daughter) /\ back \in Seq(Daughter) /\ front \in Seq(Daughter)
    BY <1>5, <1>9
  <2>2. three \o back \o front = three \o (back \o front)
    BY <2>1, ConcatAssociative
  <2> QED  BY <1>4, <2>2
<1>11. \A d \in DOMAIN outer : outer[d] \in {p, q}
  BY <1>7
<1> HIDE DEF outer
<1>12. /\ WCDaughters \in Seq(Daughter) /\ Len(WCDaughters) = 3 + Len(outer) /\ Len(outer) \in Nat
       /\ DOMAIN outer = 1 .. Len(outer) /\ DOMAIN WCDaughters = 1 .. 3 + Len(outer)
       /\ \A d \in 1 .. 3 : WCDaughters[d] = three[d]
       /\ \A d \in 4 .. 3 + Len(outer) : WCDaughters[d] = outer[d - 3]
  <2> DEFINE W == three \o outer
  <2>1. IsJoin(W, three, outer, Daughter)
    <3>1. three \in Seq(Daughter) /\ outer \in Seq(Daughter)
      BY <1>5, <1>9
    <3> QED  BY <3>1, Joined
  <2> HIDE DEF W
  <2>2. WCDaughters = W
    BY <1>10 DEF W
  <2>3. /\ W \in Seq(Daughter) /\ Len(W) = 3 + Len(outer) /\ Len(outer) \in Nat
        /\ DOMAIN outer = 1 .. Len(outer) /\ DOMAIN W = 1 .. 3 + Len(outer)
        /\ \A d \in 1 .. 3 : W[d] = three[d]
        /\ \A d \in 4 .. 3 + Len(outer) : W[d] = outer[d - 3]
    <3>1. Len(three) = 3
      BY <1>5
    <3> QED  BY <2>1, <3>1 DEF IsJoin
  <2> QED  BY <2>2, <2>3
<1>13. ASSUME NEW d \in DOMAIN WCDaughters, d > 3
       PROVE  WCDaughters[d].name \in {"WCBackOD", "WCFrontOD"} /\ WCDaughters[d].number = 0
  <2>1. d \in 4 .. 3 + Len(outer) /\ d - 3 \in DOMAIN outer
    BY <1>12, <1>13
  <2>2. WCDaughters[d] \in {p, q}
    BY <1>11, <1>12, <2>1
  <2> QED  BY <1>2, <2>2 DEF p, q
<1>14. 1 \in 1 .. 3 /\ 2 \in 1 .. 3 /\ 3 \in 1 .. 3
  OBVIOUS
<1> QED  BY <1>5, <1>12, <1>13, <1>14 DEF x, y, z

\* Tube n of a cap is the daughters 2n + 1 and 2n + 2; two sheets follow.
LEMMA CapParts ==
  ASSUME geometry \in Geometry
  PROVE  /\ CapDaughters \in Seq(Daughter) /\ Len(CapDaughters) = 2 * NCap + 2
         /\ \A d \in 1 .. 2 * NCap :
              CapDaughters[d] = [name |-> IF d % 2 = 1 THEN "WCCapPMT" ELSE "WCCapPMTGlass",
                                 number |-> (d - 1) \div 2]
         /\ CapDaughters[2 * NCap + 1] = [name |-> "WCCapBlackSheet", number |-> 0]
         /\ CapDaughters[2 * NCap + 2] = [name |-> "WCCapBarrelBlackSheet", number |-> 0]
<1> DEFINE tube(d) == [name |-> IF d % 2 = 1 THEN "WCCapPMT" ELSE "WCCapPMTGlass",
                       number |-> (d - 1) \div 2]
           N == 2 * NCap
           tubes == [d \in 1 .. N |-> tube(d)]
           sheet  == Placed("WCCapBlackSheet", 0)
           sheets == Placed("WCCapBarrelBlackSheet", 0)
<1>1. NCap \in Nat
  BY CapCount
<1>2. N \in Nat
  BY <1>1
<1>3. ASSUME NEW d \in 1 .. N PROVE tube(d) \in Daughter
  <2>1. (d - 1) \div 2 \in Nat
    BY <1>2
  <2>2. (IF d % 2 = 1 THEN "WCCapPMT" ELSE "WCCapPMTGlass") \in Volume
    BY DEF Volume
  <2> QED  BY <2>1, <2>2 DEF Daughter
<1>4. /\ sheet \in Seq(Daughter) /\ Len(sheet) = 1
      /\ sheet[1] = [name |-> "WCCapBlackSheet", number |-> 0]
      /\ sheets \in Seq(Daughter) /\ Len(sheets) = 1
      /\ sheets[1] = [name |-> "WCCapBarrelBlackSheet", number |-> 0]
  BY PlacedIs DEF Volume
<1>5. CapDaughters = tubes \o sheet \o sheets
  BY DEF CapDaughters, NCap
<1> HIDE DEF N, tube, sheet, sheets
<1>6. tubes \in Seq(Daughter) /\ Len(tubes) = N /\ \A d \in 1 .. N : tubes[d] = tube(d)
  BY <1>2, <1>3
<1> HIDE DEF tubes
<1>7. /\ tubes \o sheet \in Seq(Daughter) /\ Len(tubes \o sheet) = N + 1
      /\ \A d \in 1 .. N : (tubes \o sheet)[d] = tube(d)
      /\ (tubes \o sheet)[N + 1] = sheet[1]
  <2> DEFINE W == tubes \o sheet
  <2>1. IsJoin(W, tubes, sheet, Daughter)
    <3>1. tubes \in Seq(Daughter) /\ sheet \in Seq(Daughter)
      BY <1>4, <1>6
    <3> QED  BY <3>1, Joined
  <2> HIDE DEF W
  <2>2. Len(tubes) = N /\ Len(sheet) = 1
    BY <1>4, <1>6
  <2>3. /\ W \in Seq(Daughter) /\ Len(W) = N + 1
        /\ \A d \in 1 .. N : W[d] = tubes[d]
    BY <2>1, <2>2 DEF IsJoin
  <2>4. W[N + 1] = sheet[N + 1 - N]
    <3>1. N + 1 \in N + 1 .. N + 1
      BY <1>2
    <3> QED  BY <2>1, <2>2, <3>1 DEF IsJoin
  <2>5. N + 1 - N = 1
    BY <1>2
  <2> QED  BY <1>6, <2>3, <2>4, <2>5 DEF W
<1> DEFINE most == tubes \o sheet
<1>8. /\ most \in Seq(Daughter) /\ Len(most) = N + 1
      /\ \A d \in 1 .. N : most[d] = tube(d)
      /\ most[N + 1] = sheet[1] /\ CapDaughters = most \o sheets
  BY <1>5, <1>7
<1> HIDE DEF most
<1>9. /\ CapDaughters \in Seq(Daughter) /\ Len(CapDaughters) = N + 2
      /\ \A d \in 1 .. N + 1 : CapDaughters[d] = most[d]
      /\ CapDaughters[N + 2] = sheets[1]
  <2> DEFINE W == most \o sheets
  <2>1. IsJoin(W, most, sheets, Daughter)
    <3>1. most \in Seq(Daughter) /\ sheets \in Seq(Daughter)
      BY <1>4, <1>8
    <3> QED  BY <3>1, Joined
  <2>2. CapDaughters = W
    BY <1>8
  <2> HIDE DEF W
  <2>3. Len(most) = N + 1 /\ Len(sheets) = 1
    BY <1>4, <1>8
  <2>4. /\ W \in Seq(Daughter) /\ Len(W) = N + 1 + 1
        /\ \A d \in 1 .. N + 1 : W[d] = most[d]
    BY <2>1, <2>3 DEF IsJoin
  <2>5. W[N + 2] = sheets[(N + 2) - (N + 1)]
    <3>1. \A k \in Len(most) + 1 .. Len(most) + Len(sheets) : W[k] = sheets[k - Len(most)]
      BY <2>1 DEF IsJoin
    <3>2. \A k \in N + 1 + 1 .. N + 1 + 1 : W[k] = sheets[k - (N + 1)]
      BY <2>3, <3>1
    <3>3. N + 2 \in N + 1 + 1 .. N + 1 + 1
      BY <1>2
    <3>4. W[N + 2] = sheets[(N + 2) - (N + 1)]
      BY <3>2, <3>3, Zenon
    <3> QED  BY <3>4
  <2>6. (N + 2) - (N + 1) = 1 /\ N + 1 + 1 = N + 2
    BY <1>2
  <2> QED  BY <2>2, <2>4, <2>5, <2>6
<1>10. \A d \in 1 .. N : d \in 1 .. N + 1
  BY <1>2
<1> QED  BY <1>2, <1>4, <1>8, <1>9, <1>10 DEF N, tube

\* A cell's sheet and tube.
LEMMA CellParts ==
  /\ CellDaughters \in Seq(Daughter) /\ Len(CellDaughters) = 3
  /\ CellDaughters[1] = [name |-> "WCBarrelCellBlackSheet", number |-> 0]
  /\ CellDaughters[2] = [name |-> "WCBarrelPMT", number |-> 0]
  /\ CellDaughters[3] = [name |-> "WCBarrelPMTGlass", number |-> 0]
<1> DEFINE x == [name |-> "WCBarrelCellBlackSheet", number |-> 0]
           y == [name |-> "WCBarrelPMT", number |-> 0]
           z == [name |-> "WCBarrelPMTGlass", number |-> 0]
<1>1. x \in Daughter /\ y \in Daughter /\ z \in Daughter
      /\ CellDaughters = <<x>> \o <<y>> \o <<z>>
  BY DEF CellDaughters, Placed, Daughter, Volume
<1> HIDE DEF x, y, z
<1>2. /\ <<x>> \o <<y>> \o <<z>> \in Seq(Daughter) /\ Len(<<x>> \o <<y>> \o <<z>>) = 3
      /\ (<<x>> \o <<y>> \o <<z>>)[1] = x /\ (<<x>> \o <<y>> \o <<z>>)[2] = y
      /\ (<<x>> \o <<y>> \o <<z>>)[3] = z
  <2>1. x \in Daughter /\ y \in Daughter /\ z \in Daughter
    BY <1>1
  <2> QED  BY <2>1, Three
<1> QED  BY <1>1, <1>2 DEF x, y, z

\* Replicas are numbered from 0.
LEMMA Replicas ==
  ASSUME NEW n \in Int, NEW name \in Volume
  PROVE  LET all == Replicated(name, n) IN
         /\ all \in Seq(Daughter) /\ DOMAIN all = 1 .. n
         /\ \A d \in 1 .. n : all[d] = [name |-> name, number |-> d - 1]
<1> DEFINE all == Replicated(name, n)
<1>1. all = [d \in 1 .. n |-> [name |-> name, number |-> d - 1]]
  BY DEF Replicated
<1>2. \A d \in 1 .. n : [name |-> name, number |-> d - 1] \in Daughter
  BY DEF Daughter
<1> HIDE DEF all
<1>3. DOMAIN all = 1 .. n /\ \A d \in 1 .. n : all[d] = [name |-> name, number |-> d - 1]
  BY <1>1
<1>4. all \in Seq(Daughter)
  <2> DEFINE m == IF n > 0 THEN n ELSE 0
  <2>1. m \in Nat /\ 1 .. n = 1 .. m
    OBVIOUS
  <2> HIDE DEF m
  <2>2. all \in [1 .. m -> Daughter]
    BY <1>1, <1>2, <2>1
  <2> QED  BY <2>1, <2>2
<1> QED  BY <1>3, <1>4 DEF all

\* The visits below one: as many as daughters, one number longer.
LEMMA BelowIs ==
  ASSUME NEW v \in Visit, Daughters(v.name) \in Seq(Daughter)
  PROVE  LET D == Daughters(v.name) IN
         /\ Below(v) \in Seq(Visit) /\ Len(Below(v)) = Len(D)
         /\ \A d \in DOMAIN D :
              /\ d \in DOMAIN Below(v)
              /\ Below(v)[d].name = D[d].name
              /\ Below(v)[d].path = Append(v.path, D[d].number)
              /\ Len(Below(v)[d].path) = Len(v.path) + 1
              /\ Below(v)[d].path[Len(v.path) + 1] = D[d].number
              /\ \A k \in 1 .. Len(v.path) : Below(v)[d].path[k] = v.path[k]
<1> DEFINE D == Daughters(v.name)
           B == [d \in DOMAIN D |-> [name |-> D[d].name, path |-> Append(v.path, D[d].number)]]
<1>1. Below(v) = B
  BY DEF Below
<1>2. D \in Seq(Daughter) /\ v.path \in Seq(Nat)
  BY DEF Visit
<1> HIDE DEF D
<1>3. Len(D) \in Nat /\ DOMAIN D = 1 .. Len(D) /\ Len(v.path) \in Nat
  BY <1>2
<1>4. ASSUME NEW d \in DOMAIN D
      PROVE  /\ B[d].name = D[d].name /\ B[d].path = Append(v.path, D[d].number)
             /\ Len(B[d].path) = Len(v.path) + 1
             /\ B[d].path[Len(v.path) + 1] = D[d].number
             /\ \A k \in 1 .. Len(v.path) : B[d].path[k] = v.path[k]
             /\ B[d] \in Visit
  <2>1. D[d].name \in Volume /\ D[d].number \in Nat
    <3>1. D[d] \in Daughter
      BY <1>2
    <3> QED  BY <3>1 DEF Daughter
  <2>2. B[d] = [name |-> D[d].name, path |-> Append(v.path, D[d].number)]
    OBVIOUS
  <2>3. Append(v.path, D[d].number) \in Seq(Nat)
    BY <1>2, <2>1
  <2>4. B[d] \in Visit
    BY <2>1, <2>2, <2>3 DEF Visit
  <2> HIDE DEF B
  <2>5. B[d].name = D[d].name /\ B[d].path = Append(v.path, D[d].number)
    BY <2>2
  <2> QED  BY <1>2, <2>1, <2>4, <2>5
<1>5. B \in [1 .. Len(D) -> Visit]
  BY <1>3, <1>4
<1>6. B \in Seq(Visit) /\ Len(B) = Len(D) /\ DOMAIN B = DOMAIN D
  BY <1>3, <1>5
<1> HIDE DEF B
<1> QED  BY <1>1, <1>4, <1>6 DEF D

\* What is owed after a visit: the visits below it, then those before.
LEMMA Owed ==
  ASSUME pending \in Seq(Visit), pending # <<>>, Below(Head(pending)) \in Seq(Visit), Traverse
  PROVE  LET B == Below(Head(pending)) IN
         /\ pending' \in Seq(Visit) /\ Len(B) \in Nat /\ DOMAIN B = 1 .. Len(B)
         /\ Head(pending) = pending[1] /\ 1 \in DOMAIN pending
         /\ \A d \in DOMAIN B : d \in DOMAIN pending' /\ pending'[d] = B[d]
         /\ \A m \in DOMAIN pending : m > 1 =>
              m + Len(B) - 1 \in DOMAIN pending' /\ pending'[m + Len(B) - 1] = pending[m]
         /\ \A m \in DOMAIN pending' :
              \/ m \in DOMAIN B /\ pending'[m] = B[m]
              \/ /\ m > Len(B) /\ m - Len(B) + 1 \in DOMAIN pending /\ m - Len(B) + 1 > 1
                 /\ pending'[m] = pending[m - Len(B) + 1]
<1> DEFINE B == Below(Head(pending))
           T == Tail(pending)
<1>1. pending' = B \o T
  BY DEF Traverse
<1>2. B \in Seq(Visit)
  OBVIOUS
<1>3. /\ T \in Seq(Visit) /\ Len(T) = Len(pending) - 1 /\ Len(pending) \in Nat \ {0}
      /\ \A k \in 1 .. Len(T) : T[k] = pending[k + 1]
  OBVIOUS
<1>4. Head(pending) = pending[1] /\ DOMAIN pending = 1 .. Len(pending) /\ 1 \in DOMAIN pending
  BY <1>3
<1> HIDE DEF B, T
<1>5. IsJoin(pending', B, T, Visit)
  <2>1. T \in Seq(Visit)
    BY <1>3
  <2> QED  BY <1>1, <1>2, <2>1, Joined
<1> DEFINE P == pending'
           s == Len(pending)
           b == Len(B)
<1>6. /\ P \in Seq(Visit) /\ b \in Nat /\ DOMAIN B = 1 .. b /\ DOMAIN P = 1 .. b + (s - 1)
      /\ \A k \in 1 .. b : P[k] = B[k]
      /\ \A k \in b + 1 .. b + (s - 1) : P[k] = T[k - b]
  <2>1. Len(T) = s - 1
    BY <1>3
  <2> QED  BY <1>5, <2>1 DEF IsJoin
<1>7. s \in Nat \ {0} /\ \A k \in 1 .. s - 1 : T[k] = pending[k + 1]
  BY <1>3
<1> HIDE DEF P, s, b
<1>8. \A d \in DOMAIN B : d \in DOMAIN P /\ P[d] = B[d]
  BY <1>6, <1>7
<1>9. ASSUME NEW m \in 1 .. s, m > 1
      PROVE  m + b - 1 \in DOMAIN P /\ P[m + b - 1] = pending[m]
  <2>1. /\ m + b - 1 \in 1 .. b + (s - 1) /\ m + b - 1 \in b + 1 .. b + (s - 1)
        /\ m + b - 1 - b = m - 1 /\ m - 1 \in 1 .. s - 1 /\ m - 1 + 1 = m
    <3>1. b \in Nat /\ s \in Nat \ {0}
      BY <1>6, <1>7
    <3> QED  BY <1>9, <3>1
  <2>2. P[m + b - 1] = T[m - 1] /\ T[m - 1] = pending[m]
    <3>1. P[m + b - 1] = T[m + b - 1 - b]
      <4> DEFINE n == m + b - 1
      <4>1. \A k \in b + 1 .. b + (s - 1) : P[k] = T[k - b]
        BY <1>6
      <4>2. n \in b + 1 .. b + (s - 1)
        BY <2>1
      <4> HIDE DEF n
      <4>3. P[n] = T[n - b]
        BY <4>1, <4>2
      <4>4. n - b = m + b - 1 - b
        <5>1. m \in Int /\ b \in Int
          BY <1>6, <1>7
        <5> QED  BY <5>1 DEF n
      <4> QED  BY <4>3, <4>4 DEF n
    <3>2. T[m - 1] = pending[m - 1 + 1]
      BY <1>7, <2>1
    <3> QED  BY <2>1, <3>1, <3>2
  <2> QED  BY <1>6, <2>1, <2>2
<1>10. ASSUME NEW m \in DOMAIN P
       PROVE  \/ m \in DOMAIN B /\ P[m] = B[m]
              \/ /\ m > b /\ m - b + 1 \in 1 .. s /\ m - b + 1 > 1
                 /\ P[m] = pending[m - b + 1]
  <2>1. CASE m <= b
    BY <1>6, <2>1
  <2>2. CASE ~(m <= b)
    <3>1. /\ m > b /\ m \in b + 1 .. b + (s - 1)
          /\ m - b \in 1 .. s - 1 /\ m - b + 1 \in 1 .. s /\ m - b + 1 > 1
      BY <1>6, <1>7, <2>2
    <3>2. P[m] = T[m - b] /\ T[m - b] = pending[m - b + 1]
      BY <1>6, <1>7, <3>1
    <3> QED  BY <3>1, <3>2
  <2> QED  BY <2>1, <2>2
<1> QED  BY <1>4, <1>6, <1>8, <1>9, <1>10 DEF B, P, s, b
(***************************************************************************)
(* The tree.                                                               *)
(***************************************************************************)
\* A visit w below v, of the daughter x.
IsBelow(w, v, x) ==
  /\ w \in Visit /\ w.name = x.name /\ Len(w.path) = Len(v.path) + 1
  /\ w.path[Len(v.path) + 1] = x.number
  /\ \A k \in 1 .. Len(v.path) : w.path[k] = v.path[k]

\* What holds of the visits below one: they are in the tree, a tube that it
\* leads to is one that exactly one of them leads to, and so for the sheets.
Divides(v) ==
  LET B == Below(v) IN
  /\ Daughters(v.name) \in Seq(Daughter)
  /\ \A d \in DOMAIN B : InTree(B[d])
  /\ \A t \in Touchables :
       /\ \A d \in DOMAIN B : Leads(B[d], t) => Leads(v, t)
       /\ v.name \notin PMTGlass /\ Leads(v, t) => \E d \in DOMAIN B : Leads(B[d], t)
       /\ \A d, e \in DOMAIN B : Leads(B[d], t) /\ Leads(B[e], t) => d = e
  /\ \A c \in {0, 1} :
       /\ \A d \in DOMAIN B : LeadsToSheet(B[d], c) => LeadsToSheet(v, c)
       /\ v.name # "WCCapBlackSheet" /\ LeadsToSheet(v, c) =>
            \E d \in DOMAIN B : LeadsToSheet(B[d], c)
  /\ \A d, e \in DOMAIN B : \A c, b \in {0, 1} :
       d < e /\ LeadsToSheet(B[d], c) /\ LeadsToSheet(B[e], b) => c < b

\* The visits below one, with what is known of them.
LEMMA BelowAre ==
  ASSUME NEW v \in Visit, NEW D \in Seq(Daughter), Daughters(v.name) = D
  PROVE  /\ DOMAIN Below(v) = DOMAIN D /\ DOMAIN D = 1 .. Len(D) /\ Len(D) \in Nat
         /\ \A d \in DOMAIN D : IsBelow(Below(v)[d], v, D[d])
<1>1. /\ Below(v) \in Seq(Visit) /\ Len(Below(v)) = Len(D)
      /\ \A d \in DOMAIN D :
           /\ d \in DOMAIN Below(v)
           /\ Below(v)[d].name = D[d].name
           /\ Len(Below(v)[d].path) = Len(v.path) + 1
           /\ Below(v)[d].path[Len(v.path) + 1] = D[d].number
           /\ \A k \in 1 .. Len(v.path) : Below(v)[d].path[k] = v.path[k]
  BY BelowIs
<1>2. DOMAIN D = 1 .. Len(D) /\ DOMAIN Below(v) = 1 .. Len(Below(v)) /\ Len(D) \in Nat
  BY <1>1
<1>3. \A d \in DOMAIN D : Below(v)[d] \in Visit
  BY <1>1
<1> QED  BY <1>1, <1>2, <1>3 DEF IsBelow

\* A touchable tells the cap and the number of its tube, or the ring and the cell.
LEMMA Touched ==
  ASSUME NEW t \in Touchables
  PROVE  \/ /\ t[1] = "WCCapPMTGlass" /\ t[2][3] \in {0, 1} /\ t[2][5] \in 0 .. NCap - 1
            /\ t = <<"WCCapPMTGlass", CapPath(t[2][3], t[2][5])>>
         \/ /\ t[1] = "WCBarrelPMTGlass" /\ t[2][5] \in 0 .. dim.WCBarrelNRings - 1
            /\ t[2][6] \in 0 .. dim.WCBarrelRingNPhi - 1
            /\ t = <<"WCBarrelPMTGlass", CellPath(t[2][5], t[2][6])>>
<1>1. CASE \E cap \in {0, 1}, n \in 0 .. NCap - 1 : t = <<"WCCapPMTGlass", CapPath(cap, n)>>
  <2>1. PICK cap \in {0, 1}, n \in 0 .. NCap - 1 : t = <<"WCCapPMTGlass", CapPath(cap, n)>>
    BY <1>1
  <2>2. CapPath(cap, n)[3] = cap /\ CapPath(cap, n)[5] = n
    BY DEF CapPath
  <2> QED  BY <2>1, <2>2
<1>2. CASE \E ring \in 0 .. dim.WCBarrelNRings - 1, n \in 0 .. dim.WCBarrelRingNPhi - 1 :
             t = <<"WCBarrelPMTGlass", CellPath(ring, n)>>
  <2>1. PICK ring \in 0 .. dim.WCBarrelNRings - 1, n \in 0 .. dim.WCBarrelRingNPhi - 1 :
          t = <<"WCBarrelPMTGlass", CellPath(ring, n)>>
    BY <1>2
  <2>2. CellPath(ring, n)[5] = ring /\ CellPath(ring, n)[6] = n
    BY DEF CellPath
  <2> QED  BY <2>1, <2>2
<1> QED  BY <1>1, <1>2 DEF Touchables, NCap

\* A volume without daughters.
LEMMA LeafDivides ==
  ASSUME NEW v, InTree(v),
         v.name \in {"WCBackOD", "WCFrontOD", "WCCapPMT", "WCCapPMTGlass", "WCCapBlackSheet",
                     "WCCapBarrelBlackSheet", "WCBarrelCellBlackSheet", "WCBarrelPMT",
                     "WCBarrelPMTGlass"}
  PROVE  Divides(v)
<1>1. Daughters(v.name) = <<>>
  BY DEF Daughters
<1>2. v \in Visit /\ <<>> \in Seq(Daughter)
  BY DEF InTree
<1>3. DOMAIN Below(v) = {}
  <2>1. DOMAIN Below(v) = DOMAIN Daughters(v.name)
    BY DEF Below
  <2>2. DOMAIN Daughters(v.name) = 1 .. 0
    BY <1>1
  <2> QED  BY <2>1, <2>2
<1>4. \A t : Leads(v, t) => v.name \in PMTGlass
  BY DEF Leads, PMTGlass
<1>5. \A c : LeadsToSheet(v, c) => v.name = "WCCapBlackSheet"
  BY DEF LeadsToSheet
<1> HIDE DEF Below
<1> QED  BY <1>1, <1>2, <1>3, <1>4, <1>5 DEF Divides

\* The world, with the tank alone in it.
LEMMA BoxDivides ==
  ASSUME NEW v, InTree(v), v.name = "WCBox"
  PROVE  Divides(v)
<1> DEFINE x == [name |-> "WC", number |-> 0]
           B == Below(v)
           w == B[1]
<1>1. v \in Visit /\ Len(v.path) = 1 /\ v.path[1] = 0
  BY DEF InTree
<1>2. Daughters(v.name) \in Seq(Daughter) /\ Daughters(v.name) = <<x>>
  <2>1. Daughters(v.name) = Placed("WC", 0) /\ "WC" \in Volume
    BY DEF Daughters, Volume
  <2> QED  BY <2>1, PlacedIs
<1>3. DOMAIN B = 1 .. 1 /\ IsBelow(w, v, x)
  BY <1>1, <1>2, BelowAre
<1> HIDE DEF B, w
<1>4. w \in Visit /\ w.name = "WC" /\ Len(w.path) = 2 /\ w.path[1] = 0 /\ w.path[2] = 0
  BY <1>1, <1>3 DEF IsBelow
<1>5. InTree(w)
  BY <1>4 DEF InTree
<1>6. \A t : Leads(w, t) /\ Leads(v, t)
  BY <1>4 DEF Leads
<1>7. \A c : LeadsToSheet(w, c) /\ LeadsToSheet(v, c)
  BY <1>4 DEF LeadsToSheet
<1>8. \A d \in DOMAIN B : d = 1 /\ B[d] = w
  BY <1>3 DEF w
<1>9. 1 \in DOMAIN B
  BY <1>3
<1> QED  BY <1>2, <1>5, <1>6, <1>7, <1>8, <1>9 DEF Divides, B

\* The tank: the caps are told apart by their copy numbers.
LEMMA TankDivides ==
  ASSUME NEW v, InTree(v), v.name = "WC"
  PROVE  Divides(v)
<1> DEFINE B == Below(v)
           D == WCDaughters
<1>1. v \in Visit /\ Len(v.path) = 2 /\ v.path[1] = 0 /\ v.path[2] = 0
  BY DEF InTree
<1>2. Daughters(v.name) = D /\ D \in Seq(Daughter) /\ Len(D) >= 3
  BY TankParts DEF Daughters
<1>3. /\ D[1].name = "WCFrontCap" /\ D[1].number = 0 /\ D[2].name = "WCBackCap"
      /\ D[2].number = 1 /\ D[3].name = "WCBarrel" /\ D[3].number = 0
      /\ \A d \in DOMAIN D : d > 3 => D[d].name \in {"WCBackOD", "WCFrontOD"} /\ D[d].number = 0
  BY TankParts
<1> HIDE DEF D
<1>4. DOMAIN B = DOMAIN D /\ DOMAIN D = 1 .. Len(D) /\ \A d \in DOMAIN D : IsBelow(B[d], v, D[d])
  BY <1>1, <1>2, BelowAre
<1> HIDE DEF B
<1>5. ASSUME NEW d \in DOMAIN B
      PROVE  /\ B[d] \in Visit /\ B[d].name = D[d].name /\ Len(B[d].path) = 3
             /\ B[d].path[1] = 0 /\ B[d].path[2] = 0 /\ B[d].path[3] = D[d].number
  <2>1. IsBelow(B[d], v, D[d])
    BY <1>4
  <2> QED  BY <1>1, <2>1 DEF IsBelow
<1>6. 1 \in DOMAIN B /\ 2 \in DOMAIN B /\ 3 \in DOMAIN B /\ DOMAIN B \subseteq Nat \ {0}
  BY <1>2, <1>4
<1>7. /\ B[1].name = "WCFrontCap" /\ B[1].path[3] = 0 /\ B[2].name = "WCBackCap"
      /\ B[2].path[3] = 1 /\ B[3].name = "WCBarrel" /\ B[3].path[3] = 0
  BY <1>3, <1>5, <1>6
<1>8. ASSUME NEW d \in DOMAIN B, d > 3
      PROVE  B[d].name \in {"WCBackOD", "WCFrontOD"} /\ B[d].path[3] = 0
  BY <1>3, <1>4, <1>5, <1>8
<1>9. \A d \in DOMAIN B : d = 1 \/ d = 2 \/ d = 3 \/ d > 3
  BY <1>6
<1>10. ASSUME NEW d \in DOMAIN B PROVE InTree(B[d])
  <2>1. \/ B[d].name \in {"WCFrontCap", "WCBarrel", "WCBackOD", "WCFrontOD"} /\ B[d].path[3] = 0
        \/ B[d].name = "WCBackCap" /\ B[d].path[3] = 1
    BY <1>7, <1>8, <1>9
  <2> QED  BY <1>5, <2>1 DEF InTree
<1>11. ASSUME NEW t \in Touchables
       PROVE  /\ \A d \in DOMAIN B : Leads(B[d], t) => Leads(v, t)
              /\ v.name \notin PMTGlass /\ Leads(v, t) => \E d \in DOMAIN B : Leads(B[d], t)
              /\ \A d, e \in DOMAIN B : Leads(B[d], t) /\ Leads(B[e], t) => d = e
  <2>1. /\ Leads(B[1], t) <=> t[1] = "WCCapPMTGlass" /\ t[2][3] = 0
        /\ Leads(B[2], t) <=> t[1] = "WCCapPMTGlass" /\ t[2][3] = 1
        /\ Leads(B[3], t) <=> t[1] = "WCBarrelPMTGlass"
    BY <1>7 DEF Leads
  <2>2. \A d \in DOMAIN B : d > 3 => ~Leads(B[d], t)
    BY <1>8 DEF Leads
  <2>3. Leads(v, t)
    BY DEF Leads
  <2>4. \E d \in DOMAIN B : Leads(B[d], t)
    BY <1>6, <2>1, Touched
  <2>5. \A d, e \in DOMAIN B : Leads(B[d], t) /\ Leads(B[e], t) => d = e
    BY <1>9, <2>1, <2>2
  <2> QED  BY <2>3, <2>4, <2>5
<1>12. ASSUME NEW c \in {0, 1}
       PROVE  /\ LeadsToSheet(v, c)
              /\ \E d \in DOMAIN B : LeadsToSheet(B[d], c)
              /\ LeadsToSheet(B[1], c) => c = 0
              /\ LeadsToSheet(B[2], c) => c = 1
              /\ \A d \in DOMAIN B : LeadsToSheet(B[d], c) => d = 1 \/ d = 2
  <2>1. LeadsToSheet(v, c)
    BY DEF LeadsToSheet
  <2>2. (LeadsToSheet(B[1], c) <=> c = 0) /\ (LeadsToSheet(B[2], c) <=> c = 1)
    BY <1>7 DEF LeadsToSheet
  <2>3. ~LeadsToSheet(B[3], c) /\ \A d \in DOMAIN B : d > 3 => ~LeadsToSheet(B[d], c)
    BY <1>7, <1>8 DEF LeadsToSheet
  <2> QED  BY <1>6, <1>9, <2>1, <2>2, <2>3
<1>13. ASSUME NEW d \in DOMAIN B, NEW e \in DOMAIN B, NEW c \in {0, 1}, NEW b \in {0, 1},
              d < e, LeadsToSheet(B[d], c), LeadsToSheet(B[e], b)
       PROVE  c < b
  <2>1. d = 1 /\ e = 2
    BY <1>6, <1>12, <1>13
  <2> QED  BY <1>12, <1>13, <2>1
<1> QED  BY <1>2, <1>10, <1>11, <1>12, <1>13 DEF Divides, B

\* A volume with one daughter that leads where it leads: a cap and the barrel.
LEMMA SingleDivides ==
  ASSUME NEW v, InTree(v), v.name \in {"WCFrontCap", "WCBackCap", "WCBarrel"}
  PROVE  Divides(v)
<1> DEFINE name == IF v.name = "WCBarrel" THEN "WCBarrelAnnulus" ELSE "WCCapPolygon"
           x == [name |-> name, number |-> 0]
           B == Below(v)
           w == B[1]
<1>1. /\ v \in Visit /\ Len(v.path) = 3 /\ v.path[1] = 0 /\ v.path[2] = 0
      /\ v.path[3] \in {0, 1} /\ (v.name = "WCBarrel" => v.path[3] = 0)
  BY DEF InTree
<1>2. Daughters(v.name) \in Seq(Daughter) /\ Daughters(v.name) = <<x>>
  <2>1. Daughters(v.name) = Placed(name, 0)
    BY DEF Daughters
  <2>2. name \in Volume
    BY DEF Volume
  <2> HIDE DEF name
  <2>3. Placed(name, 0) \in Seq(Daughter) /\ Placed(name, 0) = <<x>>
    BY <2>2, PlacedIs
  <2> QED  BY <2>1, <2>3
<1>3. DOMAIN B = 1 .. 1 /\ IsBelow(w, v, x)
  <2> HIDE DEF x, w, B
  <2>1. DOMAIN <<x>> = 1 .. 1 /\ <<x>>[1] = x /\ 1 \in 1 .. 1
    OBVIOUS
  <2>2. v \in Visit /\ <<x>> \in Seq(Daughter) /\ Daughters(v.name) = <<x>>
    BY <1>1, <1>2
  <2>3. DOMAIN B = DOMAIN <<x>> /\ \A d \in DOMAIN <<x>> : IsBelow(B[d], v, <<x>>[d])
    BY <2>2, BelowAre DEF B
  <2> QED  BY <2>1, <2>3 DEF w
<1> HIDE DEF B, w
<1>4. /\ w \in Visit /\ w.name = name /\ Len(w.path) = 4 /\ w.path[1] = 0
      /\ w.path[2] = 0 /\ w.path[3] = v.path[3] /\ w.path[4] = 0
  <2>1. 1 \in 1 .. 3 /\ 2 \in 1 .. 3 /\ 3 \in 1 .. 3 /\ 3 + 1 = 4
    OBVIOUS
  <2>2. x.name = name /\ x.number = 0
    OBVIOUS
  <2> HIDE DEF x, name
  <2> QED  BY <1>1, <1>3, <2>1, <2>2 DEF IsBelow
<1>5. InTree(w)
  BY <1>1, <1>4 DEF InTree, Cap
<1>6. \A t : Leads(w, t) <=> Leads(v, t)
  BY <1>4 DEF Leads
<1>7. \A c : LeadsToSheet(w, c) <=> LeadsToSheet(v, c)
  BY <1>4 DEF LeadsToSheet
<1>8. \A d \in DOMAIN B : d = 1 /\ B[d] = w
  BY <1>3 DEF w
<1>9. 1 \in DOMAIN B
  BY <1>3
<1> QED  BY <1>2, <1>5, <1>6, <1>7, <1>8, <1>9 DEF Divides, B

\* The cap: tube n is the only daughter glass with the number n, and one
\* daughter is the sheet.
LEMMA PolygonDivides ==
  ASSUME geometry \in Geometry, NEW v, InTree(v), v.name = "WCCapPolygon"
  PROVE  Divides(v)
<1> DEFINE B == Below(v)
           D == CapDaughters
           N == NCap
<1>1. /\ v \in Visit /\ Len(v.path) = 4 /\ v.path[1] = 0 /\ v.path[2] = 0
      /\ v.path[3] \in {0, 1} /\ v.path[4] = 0
  BY DEF InTree, Cap
<1>2. Daughters(v.name) = D /\ D \in Seq(Daughter) /\ Len(D) = 2 * N + 2 /\ N \in Nat
  BY CapParts, CapCount DEF Daughters
<1>3. /\ \A d \in 1 .. 2 * N :
           /\ D[d].name = IF d % 2 = 1 THEN "WCCapPMT" ELSE "WCCapPMTGlass"
           /\ D[d].number = (d - 1) \div 2
      /\ D[2 * N + 1].name = "WCCapBlackSheet" /\ D[2 * N + 1].number = 0
      /\ D[2 * N + 2].name = "WCCapBarrelBlackSheet" /\ D[2 * N + 2].number = 0
  <2> HIDE DEF D, N
  <2>1. /\ \A d \in 1 .. 2 * N :
             D[d] = [name |-> IF d % 2 = 1 THEN "WCCapPMT" ELSE "WCCapPMTGlass",
                     number |-> (d - 1) \div 2]
        /\ D[2 * N + 1] = [name |-> "WCCapBlackSheet", number |-> 0]
        /\ D[2 * N + 2] = [name |-> "WCCapBarrelBlackSheet", number |-> 0]
    BY CapParts DEF D, N
  <2>2. ASSUME NEW d \in 1 .. 2 * N
        PROVE  /\ D[d].name = IF d % 2 = 1 THEN "WCCapPMT" ELSE "WCCapPMTGlass"
               /\ D[d].number = (d - 1) \div 2
    <3> DEFINE name == IF d % 2 = 1 THEN "WCCapPMT" ELSE "WCCapPMTGlass"
    <3>1. D[d] = [name |-> name, number |-> (d - 1) \div 2]
      BY <2>1
    <3> HIDE DEF name
    <3>2. D[d].name = name /\ D[d].number = (d - 1) \div 2
      BY <3>1
    <3> QED  BY <3>2 DEF name
  <2> QED  BY <2>1, <2>2
<1> HIDE DEF D
<1>4. DOMAIN B = DOMAIN D /\ DOMAIN D = 1 .. Len(D) /\ \A d \in DOMAIN D : IsBelow(B[d], v, D[d])
  BY <1>1, <1>2, BelowAre
<1> HIDE DEF B, N
<1>5. ASSUME NEW d \in DOMAIN B
      PROVE  /\ B[d] \in Visit /\ B[d].name = D[d].name /\ Len(B[d].path) = 5
             /\ B[d].path[1] = 0 /\ B[d].path[2] = 0 /\ B[d].path[3] = v.path[3]
             /\ B[d].path[4] = 0 /\ B[d].path[5] = D[d].number
  <2>1. IsBelow(B[d], v, D[d])
    BY <1>4
  <2> QED  BY <1>1, <2>1 DEF IsBelow
<1>6. DOMAIN B = 1 .. 2 * N + 2
  BY <1>2, <1>4
<1>7. ASSUME NEW d \in DOMAIN B
      PROVE  \/ d \in 1 .. 2 * N \/ d = 2 * N + 1 \/ d = 2 * N + 2
  BY <1>2, <1>6
<1>8. ASSUME NEW d \in 1 .. 2 * N
      PROVE  /\ d \in DOMAIN B /\ (d - 1) \div 2 \in 0 .. N - 1
             /\ B[d].name = IF d % 2 = 1 THEN "WCCapPMT" ELSE "WCCapPMTGlass"
             /\ B[d].path[5] = (d - 1) \div 2
  <2>1. d \in DOMAIN B /\ (d - 1) \div 2 \in 0 .. N - 1
    BY <1>2, <1>6
  <2> QED  BY <1>3, <1>5, <2>1
<1>9. /\ 2 * N + 1 \in DOMAIN B /\ B[2 * N + 1].name = "WCCapBlackSheet"
      /\ 2 * N + 2 \in DOMAIN B /\ B[2 * N + 2].name = "WCCapBarrelBlackSheet"
  <2>1. 2 * N + 1 \in DOMAIN B /\ 2 * N + 2 \in DOMAIN B
    BY <1>2, <1>6
  <2> QED  BY <1>3, <1>5, <2>1
<1>10. ASSUME NEW d \in DOMAIN B PROVE InTree(B[d])
  <2>1. CASE d \in 1 .. 2 * N
    <3>1. B[d].name \in {"WCCapPMT", "WCCapPMTGlass"} /\ B[d].path[5] \in 0 .. NCap - 1
      BY <1>8, <2>1 DEF N
    <3> QED  BY <1>1, <1>5, <3>1 DEF InTree, Cap
  <2>2. CASE d = 2 * N + 1 \/ d = 2 * N + 2
    <3>1. B[d].name \in {"WCCapBlackSheet", "WCCapBarrelBlackSheet"}
      BY <1>9, <2>2
    <3> QED  BY <1>1, <1>5, <3>1 DEF InTree, Cap
  <2> QED  BY <1>7, <2>1, <2>2
<1>11. ASSUME NEW t \in Touchables
       PROVE  /\ \A d \in DOMAIN B : Leads(B[d], t) => Leads(v, t)
              /\ v.name \notin PMTGlass /\ Leads(v, t) => \E d \in DOMAIN B : Leads(B[d], t)
              /\ \A d, e \in DOMAIN B : Leads(B[d], t) /\ Leads(B[e], t) => d = e
  <2>1. Leads(v, t) <=> t[1] = "WCCapPMTGlass" /\ t[2][3] = v.path[3]
    BY DEF Leads
  <2>2. ASSUME NEW d \in DOMAIN B
        PROVE  Leads(B[d], t) <=>
                 /\ Leads(v, t)
                 /\ d \in 1 .. 2 * N /\ d % 2 = 0 /\ t[2][5] = (d - 1) \div 2
    <3>1. CASE d \in 1 .. 2 * N /\ d % 2 = 1
      <4>1. B[d].name = "WCCapPMT"
        BY <1>8, <3>1
      <4> QED  BY <3>1, <4>1 DEF Leads
    <3>2. CASE d \in 1 .. 2 * N /\ d % 2 = 0
      <4>1. B[d].name = "WCCapPMTGlass" /\ B[d].path[5] = (d - 1) \div 2
            /\ B[d].path[3] = v.path[3]
        BY <1>5, <1>8, <3>2
      <4> QED  BY <2>1, <3>2, <4>1 DEF Leads
    <3>3. CASE d \notin 1 .. 2 * N
      <4>1. B[d].name \in {"WCCapBlackSheet", "WCCapBarrelBlackSheet"}
        BY <1>7, <1>9, <3>3
      <4> QED  BY <3>3, <4>1 DEF Leads
    <3>4. d \in 1 .. 2 * N => d % 2 = 0 \/ d % 2 = 1
      BY <1>2
    <3> QED  BY <3>1, <3>2, <3>3, <3>4
  <2>3. ASSUME Leads(v, t) PROVE \E d \in DOMAIN B : Leads(B[d], t)
    <3> DEFINE n == t[2][5]
               d == 2 * n + 2
    <3>1. n \in 0 .. N - 1
      BY <2>1, <2>3, Touched DEF N
    <3> HIDE DEF n
    <3>2. d \in 1 .. 2 * N /\ d % 2 = 0 /\ n = (d - 1) \div 2 /\ d \in DOMAIN B
      BY <1>2, <1>6, <3>1
    <3> HIDE DEF d
    <3>3. Leads(B[d], t)
      BY <2>2, <2>3, <3>2 DEF n
    <3> QED  BY <3>2, <3>3
  <2>4. ASSUME NEW d \in DOMAIN B, NEW e \in DOMAIN B, Leads(B[d], t), Leads(B[e], t)
        PROVE  d = e
    <3>1. /\ d \in 1 .. 2 * N /\ d % 2 = 0 /\ e \in 1 .. 2 * N /\ e % 2 = 0
          /\ (d - 1) \div 2 = (e - 1) \div 2
      BY <2>2, <2>4
    <3> QED  BY <1>2, <3>1
  <2> QED  BY <2>2, <2>3, <2>4
<1>12. ASSUME NEW c \in {0, 1}, NEW d \in DOMAIN B
       PROVE  LeadsToSheet(B[d], c) <=> d = 2 * N + 1 /\ LeadsToSheet(v, c)
  <2>1. CASE d \in 1 .. 2 * N
    <3>1. B[d].name \in {"WCCapPMT", "WCCapPMTGlass"} /\ d # 2 * N + 1
      BY <1>2, <1>8, <2>1
    <3> QED  BY <3>1 DEF LeadsToSheet
  <2>2. CASE d = 2 * N + 1
    BY <1>5, <1>9, <2>2 DEF LeadsToSheet
  <2>3. CASE d = 2 * N + 2
    <3>1. d # 2 * N + 1 /\ B[d].name = "WCCapBarrelBlackSheet"
      BY <1>2, <1>9, <2>3
    <3> QED  BY <3>1 DEF LeadsToSheet
  <2> QED  BY <1>7, <2>1, <2>2, <2>3
<1>13. ASSUME NEW d \in DOMAIN B, NEW e \in DOMAIN B, NEW c \in {0, 1}, NEW b \in {0, 1},
              d < e, LeadsToSheet(B[d], c), LeadsToSheet(B[e], b)
       PROVE  c < b
  <2>1. d = 2 * N + 1 /\ e = 2 * N + 1
    BY <1>12, <1>13
  <2> QED  BY <1>2, <1>13, <2>1
<1> QED  BY <1>2, <1>9, <1>10, <1>11, <1>12, <1>13 DEF Divides, B

\* The annulus divides into rings and a ring into cells, by number.
LEMMA ReplicasDivide ==
  ASSUME geometry \in Geometry, NEW v, InTree(v),
         v.name \in {"WCBarrelAnnulus", "WCBarrelRing"}
  PROVE  Divides(v)
<1> DEFINE n == IF v.name = "WCBarrelAnnulus" THEN dim.WCBarrelNRings ELSE dim.WCBarrelRingNPhi
           name == IF v.name = "WCBarrelAnnulus" THEN "WCBarrelRing" ELSE "WCBarrelCell"
           L == IF v.name = "WCBarrelAnnulus" THEN 4 ELSE 5
           B == Below(v)
           D == Replicated(name, n)
<1>1. /\ v \in Visit /\ Len(v.path) = L /\ v.path[1] = 0 /\ v.path[2] = 0
      /\ v.path[3] = 0 /\ v.path[4] = 0 /\ (v.name = "WCBarrelRing" => Ring(v))
  <2>1. CASE v.name = "WCBarrelAnnulus"
    <3>1. v \in Visit /\ Len(v.path) = 4 /\ v.path[1] = 0 /\ v.path[2] = 0
          /\ v.path[3] = 0 /\ v.path[4] = 0
      BY <2>1 DEF InTree
    <3> QED  BY <2>1, <3>1
  <2>2. CASE v.name = "WCBarrelRing"
    <3>1. v \in Visit /\ Len(v.path) = 5 /\ v.path[1] = 0 /\ v.path[2] = 0
          /\ Ring(v)
      BY <2>2 DEF InTree
    <3>2. v.path[3] = 0 /\ v.path[4] = 0
      BY <3>1 DEF Ring
    <3> QED  BY <2>2, <3>1, <3>2
  <2> QED  BY <2>1, <2>2
<1>2. n \in Int
  BY Dimensions
<1>3. name \in Volume
  BY DEF Volume
<1>4. Daughters(v.name) = D
  BY DEF Daughters
<1>5. L \in {4, 5}
  OBVIOUS
<1>6. D \in Seq(Daughter) /\ DOMAIN D = 1 .. n
      /\ \A d \in 1 .. n : D[d] = [name |-> name, number |-> d - 1]
  <2> HIDE DEF n, name
  <2> QED  BY <1>2, <1>3, Replicas
<1> HIDE DEF D
<1>7. DOMAIN B = DOMAIN D /\ \A d \in DOMAIN D : IsBelow(B[d], v, D[d])
  <2>1. v \in Visit /\ D \in Seq(Daughter) /\ Daughters(v.name) = D
    BY <1>1, <1>4, <1>6
  <2> HIDE DEF B, n, name, L
  <2>2. DOMAIN B = DOMAIN D /\ \A d \in DOMAIN D : IsBelow(B[d], v, D[d])
    BY <2>1, BelowAre DEF B
  <2> QED  BY <2>2
<1> HIDE DEF B
<1>8. ASSUME NEW d \in DOMAIN B
      PROVE  /\ d \in 1 .. n /\ d - 1 \in 0 .. n - 1
             /\ B[d] \in Visit /\ B[d].name = name /\ Len(B[d].path) = L + 1
             /\ B[d].path[L + 1] = d - 1 /\ \A k \in 1 .. L : B[d].path[k] = v.path[k]
  <2> HIDE DEF n, name, L
  <2>1. d \in 1 .. n /\ d - 1 \in 0 .. n - 1
    BY <1>2, <1>6, <1>7
  <2>2. D[d].name = name /\ D[d].number = d - 1
    BY <1>6, <2>1
  <2>3. IsBelow(B[d], v, D[d])
    BY <1>7
  <2> QED  BY <1>1, <2>1, <2>2, <2>3 DEF IsBelow
<1>9. ASSUME NEW d \in DOMAIN B
      PROVE  /\ B[d].path[1] = 0 /\ B[d].path[2] = 0 /\ B[d].path[3] = 0 /\ B[d].path[4] = 0
             /\ v.name = "WCBarrelRing" => B[d].path[5] = v.path[5]
  <2>1. \A k \in 1 .. 4 : k \in 1 .. L
    BY <1>5
  <2>2. 1 \in 1 .. 4 /\ 2 \in 1 .. 4 /\ 3 \in 1 .. 4 /\ 4 \in 1 .. 4
    OBVIOUS
  <2>3. v.name = "WCBarrelRing" => 5 \in 1 .. L
    OBVIOUS
  <2> HIDE DEF L, n, name
  <2> QED  BY <1>1, <1>8, <2>1, <2>2, <2>3
<1>10. ASSUME NEW d \in DOMAIN B PROVE InTree(B[d])
  <2>1. CASE v.name = "WCBarrelAnnulus"
    <3>1. /\ B[d] \in Visit /\ B[d].name = "WCBarrelRing" /\ Len(B[d].path) = 5
          /\ B[d].path[5] \in 0 .. dim.WCBarrelNRings - 1
      BY <1>8, <2>1
    <3> QED  BY <1>9, <3>1 DEF InTree, Ring
  <2>2. CASE v.name = "WCBarrelRing"
    <3>1. /\ B[d] \in Visit /\ B[d].name = "WCBarrelCell" /\ Len(B[d].path) = 6
          /\ B[d].path[6] \in 0 .. dim.WCBarrelRingNPhi - 1
      BY <1>8, <2>2
    <3>2. B[d].path[5] \in 0 .. dim.WCBarrelNRings - 1
      BY <1>1, <1>9, <2>2 DEF Ring
    <3> QED  BY <1>9, <3>1, <3>2 DEF InTree, Ring, Cell
  <2> QED  BY <2>1, <2>2
<1>11. ASSUME NEW t \in Touchables
       PROVE  /\ \A d \in DOMAIN B : Leads(B[d], t) => Leads(v, t)
              /\ v.name \notin PMTGlass /\ Leads(v, t) => \E d \in DOMAIN B : Leads(B[d], t)
              /\ \A d, e \in DOMAIN B : Leads(B[d], t) /\ Leads(B[e], t) => d = e
  <2>1. ASSUME NEW d \in DOMAIN B
        PROVE  Leads(B[d], t) <=> Leads(v, t) /\ t[2][L + 1] = d - 1
    <3>1. CASE v.name = "WCBarrelAnnulus"
      <4>1. B[d].name = "WCBarrelRing" /\ B[d].path[5] = d - 1 /\ L + 1 = 5
        BY <1>8, <3>1
      <4> QED  BY <3>1, <4>1 DEF Leads
    <3>2. CASE v.name = "WCBarrelRing"
      <4>1. B[d].name = "WCBarrelCell" /\ B[d].path[6] = d - 1 /\ L + 1 = 6
            /\ B[d].path[5] = v.path[5]
        BY <1>8, <1>9, <3>2
      <4> QED  BY <3>2, <4>1 DEF Leads
    <3> QED  BY <3>1, <3>2
  <2>2. ASSUME Leads(v, t) PROVE t[2][L + 1] \in 0 .. n - 1
    <3>1. t[1] = "WCBarrelPMTGlass"
      BY <2>2 DEF Leads
    <3>2. /\ t[2][5] \in 0 .. dim.WCBarrelNRings - 1
          /\ t[2][6] \in 0 .. dim.WCBarrelRingNPhi - 1
      BY <3>1, Touched
    <3> QED  BY <3>2
  <2> HIDE DEF n, L, name
  <2>3. ASSUME Leads(v, t) PROVE \E d \in DOMAIN B : Leads(B[d], t)
    <3> DEFINE m == t[2][L + 1]
    <3>1. m \in 0 .. n - 1
      BY <2>2, <2>3
    <3> HIDE DEF m
    <3>2. m + 1 \in DOMAIN B /\ m = (m + 1) - 1
      BY <1>2, <1>6, <1>7, <3>1
    <3>3. Leads(B[m + 1], t)
      BY <2>1, <2>3, <3>2 DEF m
    <3> QED  BY <3>2, <3>3
  <2>4. ASSUME NEW d \in DOMAIN B, NEW e \in DOMAIN B, Leads(B[d], t), Leads(B[e], t)
        PROVE  d = e
    <3>1. d \in 1 .. n /\ e \in 1 .. n /\ d - 1 = e - 1
      BY <1>6, <1>7, <2>1, <2>4
    <3> QED  BY <1>2, <3>1
  <2> QED  BY <2>1, <2>3, <2>4
<1>12. /\ \A c : ~LeadsToSheet(v, c)
       /\ \A c : \A d \in DOMAIN B : ~LeadsToSheet(B[d], c)
  <2>1. \A d \in DOMAIN B : B[d].name \in {"WCBarrelRing", "WCBarrelCell"}
    BY <1>8
  <2> QED  BY <2>1 DEF LeadsToSheet
<1>13. Daughters(v.name) \in Seq(Daughter)
  BY <1>4, <1>6
<1> HIDE DEF n, L, name
<1> QED  BY <1>10, <1>11, <1>12, <1>13 DEF Divides, B

\* A cell, with its tube behind and in front.
LEMMA CellDivides ==
  ASSUME NEW v, InTree(v), v.name = "WCBarrelCell"
  PROVE  Divides(v)
<1> DEFINE B == Below(v)
           D == CellDaughters
<1>1. /\ v \in Visit /\ Len(v.path) = 6 /\ v.path[1] = 0 /\ v.path[2] = 0 /\ Cell(v)
  BY DEF InTree
<1>2. Daughters(v.name) = D /\ D \in Seq(Daughter) /\ Len(D) = 3
  BY CellParts DEF Daughters
<1>3. /\ D[1].name = "WCBarrelCellBlackSheet" /\ D[1].number = 0
      /\ D[2].name = "WCBarrelPMT" /\ D[2].number = 0
      /\ D[3].name = "WCBarrelPMTGlass" /\ D[3].number = 0
  BY CellParts
<1> HIDE DEF D
<1>4. DOMAIN B = 1 .. 3 /\ \A d \in 1 .. 3 : IsBelow(B[d], v, D[d])
  BY <1>1, <1>2, BelowAre
<1> HIDE DEF B
<1>5. ASSUME NEW d \in DOMAIN B
      PROVE  /\ B[d] \in Visit /\ B[d].name = D[d].name /\ Len(B[d].path) = 7
             /\ B[d].path[7] = D[d].number /\ \A k \in 1 .. 6 : B[d].path[k] = v.path[k]
  <2>1. IsBelow(B[d], v, D[d])
    BY <1>4
  <2> QED  BY <1>1, <2>1 DEF IsBelow
<1>6. \A d \in DOMAIN B : d = 1 \/ d = 2 \/ d = 3
  BY <1>4
<1>7. /\ 3 \in DOMAIN B /\ B[3].name = "WCBarrelPMTGlass"
      /\ \A d \in DOMAIN B : d # 3 => B[d].name \in {"WCBarrelCellBlackSheet", "WCBarrelPMT"}
      /\ \A d \in DOMAIN B : B[d].path[7] = 0
  BY <1>3, <1>4, <1>5, <1>6
<1>8. ASSUME NEW d \in DOMAIN B PROVE InTree(B[d]) /\ Cell(B[d])
  <2>1. B[d].name \in {"WCBarrelCellBlackSheet", "WCBarrelPMT", "WCBarrelPMTGlass"}
    BY <1>7
  <2>2. \A k \in 1 .. 6 : B[d].path[k] = v.path[k]
    BY <1>5
  <2>3. /\ B[d].path[1] = 0 /\ B[d].path[2] = 0 /\ B[d].path[3] = v.path[3]
        /\ B[d].path[4] = v.path[4] /\ B[d].path[5] = v.path[5] /\ B[d].path[6] = v.path[6]
    BY <1>1, <2>2
  <2>4. Cell(B[d])
    BY <1>1, <2>3 DEF Cell, Ring
  <2> QED  BY <1>5, <1>7, <2>1, <2>3, <2>4 DEF InTree
<1>9. B[3].path[5] = v.path[5] /\ B[3].path[6] = v.path[6]
  BY <1>5, <1>7
<1>10. \A t : Leads(B[3], t) <=> Leads(v, t)
  BY <1>7, <1>9 DEF Leads
<1>11. \A t : \A d \in DOMAIN B : d # 3 => ~Leads(B[d], t)
  BY <1>7 DEF Leads
<1>12. /\ \A c : ~LeadsToSheet(v, c)
       /\ \A c : \A d \in DOMAIN B : ~LeadsToSheet(B[d], c)
  <2>1. \A d \in DOMAIN B :
          B[d].name \in {"WCBarrelCellBlackSheet", "WCBarrelPMT", "WCBarrelPMTGlass"}
    BY <1>7
  <2> QED  BY <2>1 DEF LeadsToSheet
<1> QED  BY <1>2, <1>7, <1>8, <1>10, <1>11, <1>12 DEF Divides, B

\* So it is with every volume.
LEMMA TreeDivides ==
  ASSUME geometry \in Geometry, NEW v, InTree(v)
  PROVE  Divides(v)
<1>1. v.name \in Volume
  BY DEF InTree, Visit
<1> QED  BY <1>1, LeafDivides, BoxDivides, TankDivides, SingleDivides, PolygonDivides,
            ReplicasDivide, CellDivides DEF Volume

(***************************************************************************)
(* A step of a traversal.                                                  *)
(***************************************************************************)
\* The order among the visits does not depend on the step.
LEMMA SameOrder ==
  ASSUME geometry' = geometry, Orderly(pending')
  PROVE  Orderly(pending)'
<1>1. Touchables' = Touchables /\ \A v : InTree(v)' <=> InTree(v)
  BY SameTank
<1> QED  BY <1>1 DEF Orderly, Leads, LeadsToSheet

\* A traversal starts at the root, which leads everywhere.
LEMMA RootIs ==
  /\ Root \in Seq(Visit) /\ DOMAIN Root = 1 .. 1 /\ Root[1].name = "WCBox"
  /\ Root[1].path = <<0>> /\ Orderly(Root)
  /\ \A t : LeadsOn(Root, t)
  /\ RootIn(Root) /\ BarrelIn(Root)
<1> DEFINE box == [name |-> "WCBox", path |-> <<0>>]
<1>1. Root = <<box>>
  BY DEF Root
<1>2. box \in Visit
  BY DEF Visit, Volume
<1>3. box.name = "WCBox" /\ box.path = <<0>> /\ Len(box.path) = 1 /\ box.path[1] = 0
  OBVIOUS
<1> HIDE DEF box
<1>4. Root \in Seq(Visit) /\ DOMAIN Root = 1 .. 1 /\ Root[1] = box
  BY <1>1, <1>2
<1>5. InTree(box)
  BY <1>2, <1>3 DEF InTree
<1>6. Orderly(Root)
  BY <1>4, <1>5 DEF Orderly
<1>7. \A t : LeadsOn(Root, t)
  BY <1>3, <1>4 DEF LeadsOn, Leads
<1>8. 1 \in 1 .. 1
  OBVIOUS
<1>9. RootIn(Root) /\ BarrelIn(Root)
  BY <1>3, <1>4, <1>8 DEF RootIn, BarrelIn
<1> QED  BY <1>3, <1>4, <1>6, <1>7, <1>9

\* A traversal starts with the visit of the root, which leads to everything.
AtRoot == pending = Root
LEMMA RootInOrder == AtRoot => Orderly(pending)
BY RootIs DEF AtRoot

\* What a visit finds and what it leaves: v is the visit, B what is below it,
\* S what was before.
Step(v, B, P) ==
  /\ v = pending[1] /\ 1 \in DOMAIN pending /\ v \in Visit /\ InTree(v) /\ B = Below(v)
  /\ pending \in Seq(Visit) /\ P \in Seq(Visit)
  /\ \A d \in DOMAIN B :
       /\ d \in DOMAIN P /\ P[d] = B[d] /\ Len(B[d].path) = Len(v.path) + 1
       /\ \A k \in 1 .. Len(v.path) : B[d].path[k] = v.path[k]
  /\ \A m \in DOMAIN pending : m > 1 => \E q \in DOMAIN P : P[q] = pending[m]
  /\ \A m \in DOMAIN P :
       \/ m \in DOMAIN B /\ P[m] = B[m]
       \/ \E q \in DOMAIN pending : q > 1 /\ P[m] = pending[q]
  /\ \A m, n \in DOMAIN P : m < n =>
       \/ m \in DOMAIN B /\ n \in DOMAIN B /\ P[m] = B[m] /\ P[n] = B[n]
       \/ \E q \in DOMAIN pending : q > 1 /\ m \in DOMAIN B /\ P[m] = B[m] /\ P[n] = pending[q]
       \/ \E q, r \in DOMAIN pending : 1 < q /\ q < r /\ P[m] = pending[q] /\ P[n] = pending[r]

\* A turn of the recursion replaces the first visit by its daughters.
LEMMA StepIs ==
  ASSUME geometry \in Geometry, pending \in Seq(Visit), Orderly(pending), pending # <<>>, Traverse
  PROVE  Step(Head(pending), Below(Head(pending)), pending')
<1> DEFINE v == Head(pending)
           B == Below(v)
           P == pending'
           b == Len(B)
<1>1. v = pending[1] /\ 1 \in DOMAIN pending /\ v \in Visit
  OBVIOUS
<1>2. InTree(v)
  BY <1>1 DEF Orderly
<1>3. Daughters(v.name) \in Seq(Daughter)
  BY <1>2, TreeDivides DEF Divides
<1> HIDE DEF v
<1>4. /\ B \in Seq(Visit) /\ DOMAIN B = DOMAIN Daughters(v.name)
      /\ \A d \in DOMAIN B : IsBelow(B[d], v, Daughters(v.name)[d])
  BY <1>1, <1>3, BelowAre, BelowIs
<1>5. \A d \in DOMAIN B :
        /\ Len(B[d].path) = Len(v.path) + 1
        /\ \A k \in 1 .. Len(v.path) : B[d].path[k] = v.path[k]
  BY <1>4 DEF IsBelow
<1>6. /\ P \in Seq(Visit) /\ b \in Nat /\ DOMAIN B = 1 .. b
      /\ \A d \in DOMAIN B : d \in DOMAIN P /\ P[d] = B[d]
      /\ \A m \in DOMAIN pending : m > 1 =>
           m + b - 1 \in DOMAIN P /\ P[m + b - 1] = pending[m]
      /\ \A m \in DOMAIN P :
           \/ m \in DOMAIN B /\ P[m] = B[m]
           \/ /\ m > b /\ m - b + 1 \in DOMAIN pending /\ m - b + 1 > 1
              /\ P[m] = pending[m - b + 1]
  BY <1>4, Owed DEF v
<1>7. DOMAIN P \subseteq Nat
  BY <1>6
<1> HIDE DEF P, B, b
<1>8. \A m \in DOMAIN pending : m > 1 => \E q \in DOMAIN P : P[q] = pending[m]
  BY <1>6
<1>9. \A m \in DOMAIN P :
        \/ m \in DOMAIN B /\ P[m] = B[m]
        \/ \E q \in DOMAIN pending : q > 1 /\ P[m] = pending[q]
  BY <1>6
<1>10. ASSUME NEW m \in DOMAIN P, NEW n \in DOMAIN P, m < n
       PROVE  \/ m \in DOMAIN B /\ n \in DOMAIN B /\ P[m] = B[m] /\ P[n] = B[n]
              \/ \E q \in DOMAIN pending :
                   q > 1 /\ m \in DOMAIN B /\ P[m] = B[m] /\ P[n] = pending[q]
              \/ \E q, r \in DOMAIN pending :
                   1 < q /\ q < r /\ P[m] = pending[q] /\ P[n] = pending[r]
  <2> DEFINE q == m - b + 1
             r == n - b + 1
  <2>1. m \in Nat /\ n \in Nat /\ b \in Nat /\ DOMAIN B = 1 .. b
    BY <1>6, <1>7
  <2> DEFINE owed(k) ==
               \/ k \in DOMAIN B /\ P[k] = B[k]
               \/ /\ k > b /\ k - b + 1 \in DOMAIN pending /\ k - b + 1 > 1
                  /\ P[k] = pending[k - b + 1]
  <2>1a. owed(m) /\ owed(n)
    <3>1. \A k \in DOMAIN P : owed(k)
      BY <1>6
    <3> HIDE DEF owed
    <3> QED  BY <3>1
  <2>2. \/ m \in DOMAIN B /\ P[m] = B[m]
        \/ m > b /\ q \in DOMAIN pending /\ q > 1 /\ P[m] = pending[q]
    BY <2>1a
  <2>3. \/ n \in DOMAIN B /\ P[n] = B[n]
        \/ n > b /\ r \in DOMAIN pending /\ r > 1 /\ P[n] = pending[r]
    BY <2>1a
  <2>4. q < r
    BY <1>10, <2>1
  <2>5. n \in DOMAIN B => ~(m > b)
    BY <1>10, <2>1
  <2> HIDE DEF q, r
  <2>6. CASE n \in DOMAIN B /\ P[n] = B[n]
    <3>1. m \in DOMAIN B /\ P[m] = B[m]
      BY <2>2, <2>5, <2>6
    <3> QED  BY <2>6, <3>1
  <2>7. CASE r \in DOMAIN pending /\ r > 1 /\ P[n] = pending[r]
    <3>1. CASE m \in DOMAIN B /\ P[m] = B[m]
      BY <2>7, <3>1
    <3>2. CASE q \in DOMAIN pending /\ q > 1 /\ P[m] = pending[q]
      <4>1. 1 < q
        BY <2>1, <3>2 DEF q
      <4> QED  BY <2>4, <2>7, <3>2, <4>1
    <3> QED  BY <2>2, <3>1, <3>2
  <2> QED  BY <2>3, <2>6, <2>7
<1>11. \A d \in DOMAIN B : d \in DOMAIN P /\ P[d] = B[d]
  BY <1>6
<1>12. P \in Seq(Visit) /\ pending \in Seq(Visit) /\ B = Below(v)
  BY <1>6 DEF B
<1>13. Step(v, B, P)
  BY <1>1, <1>2, <1>5, <1>8, <1>9, <1>10, <1>11, <1>12 DEF Step
<1> QED  BY <1>13 DEF B, P, v

\* The visits stay in order.
LEMMA OrderKept ==
  ASSUME geometry \in Geometry, Orderly(pending), NEW v, NEW B, NEW P, Step(v, B, P)
  PROVE  Orderly(P)
<1>1. /\ v = pending[1] /\ 1 \in DOMAIN pending /\ B = Below(v) /\ InTree(v) /\ v \in Visit
      /\ \A d \in DOMAIN B : d \in DOMAIN P /\ P[d] = B[d] /\ Len(B[d].path) = Len(v.path) + 1
  BY DEF Step
<1>2. \A q \in DOMAIN pending : InTree(pending[q]) /\ pending[q] \in Visit
  BY DEF Orderly, InTree
<1>3. Divides(v)
  BY <1>1, TreeDivides
<1>4. ASSUME NEW m \in DOMAIN P PROVE InTree(P[m])
  <2>1. \/ m \in DOMAIN B /\ P[m] = B[m]
        \/ \E q \in DOMAIN pending : q > 1 /\ P[m] = pending[q]
    BY DEF Step
  <2>2. \A d \in DOMAIN B : InTree(B[d])
    BY <1>1, <1>3 DEF Divides
  <2> QED  BY <1>2, <2>1, <2>2
<1>5. ASSUME NEW m \in DOMAIN P, NEW n \in DOMAIN P, m < n
      PROVE  /\ Len(P[n].path) <= Len(P[m].path)
             /\ \A t \in Touchables : ~(Leads(P[m], t) /\ Leads(P[n], t))
             /\ \A c, d \in {0, 1} :
                  LeadsToSheet(P[m], c) /\ LeadsToSheet(P[n], d) => c < d
  <2>1. CASE m \in DOMAIN B /\ n \in DOMAIN B /\ P[m] = B[m] /\ P[n] = B[n]
    <3>1. Len(P[n].path) <= Len(P[m].path)
      <4>1. Len(v.path) \in Nat
        BY <1>1 DEF Visit
      <4>2. Len(B[n].path) = Len(v.path) + 1 /\ Len(B[m].path) = Len(v.path) + 1
        BY <1>1, <2>1
      <4> QED  BY <2>1, <4>1, <4>2
    <3>2. ASSUME NEW t \in Touchables PROVE ~(Leads(P[m], t) /\ Leads(P[n], t))
      <4>1. Leads(B[m], t) /\ Leads(B[n], t) => m = n
        BY <1>1, <1>3, <2>1 DEF Divides
      <4>2. m # n
        <5>1. m \in Nat /\ n \in Nat
          BY DEF Step
        <5> QED  BY <1>5, <5>1
      <4> QED  BY <2>1, <4>1, <4>2
    <3>3. ASSUME NEW c \in {0, 1}, NEW d \in {0, 1}, LeadsToSheet(P[m], c), LeadsToSheet(P[n], d)
          PROVE  c < d
      BY <1>1, <1>3, <1>5, <2>1, <3>3 DEF Divides
    <3> QED  BY <3>1, <3>2, <3>3
  <2>2. CASE \E q \in DOMAIN pending :
               q > 1 /\ m \in DOMAIN B /\ P[m] = B[m] /\ P[n] = pending[q]
    <3>1. PICK q \in DOMAIN pending :
            q > 1 /\ m \in DOMAIN B /\ P[m] = B[m] /\ P[n] = pending[q]
      BY <2>2
    <3>2. 1 < q
      <4>1. q \in Nat
        BY <1>1 DEF Step
      <4> QED  BY <3>1, <4>1
    <3>3. /\ Len(pending[q].path) <= Len(v.path)
          /\ \A t \in Touchables : ~(Leads(v, t) /\ Leads(pending[q], t))
          /\ \A c, d \in {0, 1} :
               LeadsToSheet(v, c) /\ LeadsToSheet(pending[q], d) => c < d
      BY <1>1, <3>2 DEF Orderly
    <3>4. Len(P[n].path) <= Len(P[m].path)
      <4>1. Len(v.path) \in Nat /\ Len(pending[q].path) \in Nat
        BY <1>1, <1>2 DEF Visit
      <4>2. Len(B[m].path) = Len(v.path) + 1
        BY <1>1, <3>1
      <4> QED  BY <3>1, <3>3, <4>1, <4>2
    <3>5. \A t \in Touchables : Leads(B[m], t) => Leads(v, t)
      BY <1>1, <1>3, <3>1 DEF Divides
    <3>6. \A c \in {0, 1} : LeadsToSheet(B[m], c) => LeadsToSheet(v, c)
      BY <1>1, <1>3, <3>1 DEF Divides
    <3> QED  BY <3>1, <3>3, <3>4, <3>5, <3>6
  <2>3. CASE \E q, r \in DOMAIN pending :
               1 < q /\ q < r /\ P[m] = pending[q] /\ P[n] = pending[r]
    <3>1. PICK q \in DOMAIN pending, r \in DOMAIN pending :
            q < r /\ P[m] = pending[q] /\ P[n] = pending[r]
      BY <2>3
    <3> QED  BY <3>1 DEF Orderly
  <2>4. \/ m \in DOMAIN B /\ n \in DOMAIN B /\ P[m] = B[m] /\ P[n] = B[n]
        \/ \E q \in DOMAIN pending :
             q > 1 /\ m \in DOMAIN B /\ P[m] = B[m] /\ P[n] = pending[q]
        \/ \E q, r \in DOMAIN pending :
             1 < q /\ q < r /\ P[m] = pending[q] /\ P[n] = pending[r]
    BY <1>5 DEF Step
  <2> QED  BY <2>1, <2>2, <2>3, <2>4
<1> QED  BY <1>4, <1>5 DEF Orderly

\* A PMT glass leads to the one tube that it is.
LEMMA GlassIs ==
  ASSUME NEW v, InTree(v), v.name \in PMTGlass
  PROVE  /\ <<v.name, v.path>> \in Touchables
         /\ \A t \in Touchables : Leads(v, t) <=> t = <<v.name, v.path>>
<1>1. CASE v.name = "WCCapPMTGlass"
  <2> DEFINE c == v.path[3]
             n == v.path[5]
  <2>1. /\ v.path \in Seq(Nat) /\ Len(v.path) = 5 /\ v.path[1] = 0 /\ v.path[2] = 0
        /\ c \in {0, 1} /\ v.path[4] = 0 /\ n \in 0 .. NCap - 1
    BY <1>1 DEF InTree, Cap, Visit
  <2>2. v.path = CapPath(c, n)
    <3> DEFINE p == v.path
    <3>1. p \in Seq(Nat) /\ Len(p) = 5 /\ p[1] = 0 /\ p[2] = 0 /\ p[4] = 0
      BY <2>1
    <3> HIDE DEF p
    <3>2. p = <<p[1], p[2], p[3], p[4], p[5]>>
      BY <3>1
    <3> QED  BY <3>1, <3>2 DEF CapPath, p
  <2>3. <<v.name, v.path>> \in Touchables
    BY <1>1, <2>1, <2>2 DEF Touchables, NCap
  <2>4. ASSUME NEW t \in Touchables PROVE Leads(v, t) <=> t = <<v.name, v.path>>
    <3>1. Leads(v, t) <=> t[1] = "WCCapPMTGlass" /\ t[2][3] = c /\ t[2][5] = n
      BY <1>1 DEF Leads
    <3>2. t[1] = "WCCapPMTGlass" => t = <<"WCCapPMTGlass", CapPath(t[2][3], t[2][5])>>
      BY Touched
    <3>3. t = <<"WCCapPMTGlass", CapPath(c, n)>> =>
            t[1] = "WCCapPMTGlass" /\ t[2][3] = c /\ t[2][5] = n
      <4> HIDE DEF c, n
      <4> QED  BY DEF CapPath
    <3> HIDE DEF c, n
    <3> QED  BY <1>1, <2>2, <3>1, <3>2, <3>3
  <2> QED  BY <2>3, <2>4
<1>2. CASE v.name = "WCBarrelPMTGlass"
  <2> DEFINE r == v.path[5]
             n == v.path[6]
  <2>1. /\ v.path \in Seq(Nat) /\ Len(v.path) = 7 /\ v.path[1] = 0 /\ v.path[2] = 0
        /\ Cell(v) /\ v.path[7] = 0
    BY <1>2 DEF InTree, Visit
  <2>2. /\ v.path[3] = 0 /\ v.path[4] = 0 /\ r \in 0 .. dim.WCBarrelNRings - 1
        /\ n \in 0 .. dim.WCBarrelRingNPhi - 1
    BY <2>1 DEF Cell, Ring
  <2>3. v.path = CellPath(r, n)
    <3> DEFINE p == v.path
    <3>1. /\ p \in Seq(Nat) /\ Len(p) = 7 /\ p[1] = 0 /\ p[2] = 0 /\ p[3] = 0 /\ p[4] = 0
          /\ p[7] = 0
      BY <2>1, <2>2
    <3> HIDE DEF p
    <3>2. p = <<p[1], p[2], p[3], p[4], p[5], p[6], p[7]>>
      BY <3>1
    <3> QED  BY <3>1, <3>2 DEF CellPath, p
  <2>4. <<v.name, v.path>> \in Touchables
    BY <1>2, <2>2, <2>3 DEF Touchables
  <2>5. ASSUME NEW t \in Touchables PROVE Leads(v, t) <=> t = <<v.name, v.path>>
    <3>1. Leads(v, t) <=> t[1] = "WCBarrelPMTGlass" /\ t[2][5] = r /\ t[2][6] = n
      BY <1>2 DEF Leads
    <3>2. t[1] = "WCBarrelPMTGlass" => t = <<"WCBarrelPMTGlass", CellPath(t[2][5], t[2][6])>>
      BY Touched
    <3>3. t = <<"WCBarrelPMTGlass", CellPath(r, n)>> =>
            t[1] = "WCBarrelPMTGlass" /\ t[2][5] = r /\ t[2][6] = n
      <4> HIDE DEF r, n
      <4> QED  BY DEF CellPath
    <3> HIDE DEF r, n
    <3> QED  BY <1>2, <2>3, <3>1, <3>2, <3>3
  <2> QED  BY <2>4, <2>5
<1> QED  BY <1>1, <1>2 DEF PMTGlass

\* No volume lies below a glass or a sheet.
LEMMA NoneBelow ==
  ASSUME NEW v, InTree(v), v.name \in PMTGlass \cup {"WCCapBlackSheet"}
  PROVE  DOMAIN Below(v) = {}
<1>1. Daughters(v.name) = <<>>
  BY DEF Daughters, PMTGlass
<1>2. DOMAIN Below(v) = DOMAIN Daughters(v.name)
  BY DEF Below
<1>3. DOMAIN Daughters(v.name) = 1 .. 0
  BY <1>1
<1> QED  BY <1>2, <1>3

\* A visit takes the tube of its glass from those that are to come, and no other.
LEMMA TubesToCome ==
  ASSUME geometry \in Geometry, Orderly(pending), NEW v, NEW B, NEW P, Step(v, B, P),
         NEW t \in Touchables
  PROVE  /\ LeadsOn(pending, t) <=> LeadsOn(P, t) \/ (v.name \in PMTGlass /\ Leads(v, t))
         /\ ~(LeadsOn(P, t) /\ v.name \in PMTGlass /\ Leads(v, t))
<1>1. /\ v = pending[1] /\ 1 \in DOMAIN pending /\ B = Below(v) /\ InTree(v)
      /\ \A d \in DOMAIN B : d \in DOMAIN P /\ P[d] = B[d]
      /\ DOMAIN pending \subseteq Nat \ {0}
  BY DEF Step
<1>2. /\ \A d \in DOMAIN B : Leads(B[d], t) => Leads(v, t)
      /\ v.name \notin PMTGlass /\ Leads(v, t) => \E d \in DOMAIN B : Leads(B[d], t)
  BY <1>1, TreeDivides DEF Divides
<1>3. ASSUME LeadsOn(pending, t)
      PROVE  LeadsOn(P, t) \/ (v.name \in PMTGlass /\ Leads(v, t))
  <2>1. PICK m \in DOMAIN pending : Leads(pending[m], t)
    BY <1>3 DEF LeadsOn
  <2>2. CASE m = 1
    <3>1. CASE v.name \in PMTGlass
      BY <1>1, <2>1, <2>2, <3>1
    <3>2. CASE v.name \notin PMTGlass
      BY <1>1, <1>2, <2>1, <2>2, <3>2 DEF LeadsOn
    <3> QED  BY <3>1, <3>2
  <2>3. CASE m > 1
    <3>1. PICK q \in DOMAIN P : P[q] = pending[m]
      BY <2>3 DEF Step
    <3> QED  BY <2>1, <3>1 DEF LeadsOn
  <2> QED  BY <1>1, <2>2, <2>3
<1>4. ASSUME LeadsOn(P, t)
      PROVE  \/ Leads(v, t) /\ v.name \notin PMTGlass
             \/ \E q \in DOMAIN pending : q > 1 /\ Leads(pending[q], t)
  <2>1. PICK m \in DOMAIN P : Leads(P[m], t)
    BY <1>4 DEF LeadsOn
  <2>2. \/ m \in DOMAIN B /\ P[m] = B[m]
        \/ \E q \in DOMAIN pending : q > 1 /\ P[m] = pending[q]
    BY DEF Step
  <2>3. v.name \in PMTGlass => DOMAIN B = {}
    BY <1>1, NoneBelow
  <2> QED  BY <1>2, <2>1, <2>2, <2>3
<1>5. ASSUME NEW q \in DOMAIN pending, q > 1, Leads(pending[q], t)
      PROVE  ~Leads(v, t)
  <2>1. 1 < q
    BY <1>1, <1>5
  <2> QED  BY <1>1, <1>5, <2>1 DEF Orderly
<1>6. Leads(v, t) => LeadsOn(pending, t)
  BY <1>1 DEF LeadsOn
<1>7. (\E q \in DOMAIN pending : q > 1 /\ Leads(pending[q], t)) => LeadsOn(pending, t)
  BY DEF LeadsOn
<1> QED  BY <1>3, <1>4, <1>5, <1>6, <1>7

\* And so for the black sheets, which come in the order of the caps.
LEMMA SheetsToCome ==
  ASSUME geometry \in Geometry, Orderly(pending), NEW v, NEW B, NEW P, Step(v, B, P),
         NEW c \in {0, 1}
  PROVE  /\ SheetIn(pending, c) <=>
              SheetIn(P, c) \/ (v.name = "WCCapBlackSheet" /\ LeadsToSheet(v, c))
         /\ v.name = "WCCapBlackSheet" /\ LeadsToSheet(v, c) =>
              \A d \in {0, 1} : SheetIn(P, d) => c < d
<1>1. /\ v = pending[1] /\ 1 \in DOMAIN pending /\ B = Below(v) /\ InTree(v)
      /\ \A d \in DOMAIN B : d \in DOMAIN P /\ P[d] = B[d]
      /\ DOMAIN pending \subseteq Nat \ {0}
  BY DEF Step
<1>2. \A d \in {0, 1} :
        /\ \A m \in DOMAIN B : LeadsToSheet(B[m], d) => LeadsToSheet(v, d)
        /\ v.name # "WCCapBlackSheet" /\ LeadsToSheet(v, d) =>
             \E m \in DOMAIN B : LeadsToSheet(B[m], d)
  BY <1>1, TreeDivides DEF Divides
<1>3. ASSUME SheetIn(pending, c)
      PROVE  SheetIn(P, c) \/ (v.name = "WCCapBlackSheet" /\ LeadsToSheet(v, c))
  <2>1. PICK m \in DOMAIN pending : LeadsToSheet(pending[m], c)
    BY <1>3 DEF SheetIn
  <2>2. CASE m = 1
    <3>1. CASE v.name = "WCCapBlackSheet"
      BY <1>1, <2>1, <2>2, <3>1
    <3>2. CASE v.name # "WCCapBlackSheet"
      BY <1>1, <1>2, <2>1, <2>2, <3>2 DEF SheetIn
    <3> QED  BY <3>1, <3>2
  <2>3. CASE m > 1
    <3>1. PICK q \in DOMAIN P : P[q] = pending[m]
      BY <2>3 DEF Step
    <3> QED  BY <2>1, <3>1 DEF SheetIn
  <2> QED  BY <1>1, <2>2, <2>3
<1>4. ASSUME NEW d \in {0, 1}, SheetIn(P, d)
      PROVE  \/ LeadsToSheet(v, d) /\ v.name # "WCCapBlackSheet"
             \/ \E q \in DOMAIN pending : q > 1 /\ LeadsToSheet(pending[q], d)
  <2>1. PICK m \in DOMAIN P : LeadsToSheet(P[m], d)
    BY <1>4 DEF SheetIn
  <2>2. \/ m \in DOMAIN B /\ P[m] = B[m]
        \/ \E q \in DOMAIN pending : q > 1 /\ P[m] = pending[q]
    BY DEF Step
  <2>3. v.name = "WCCapBlackSheet" => DOMAIN B = {}
    BY <1>1, NoneBelow
  <2> QED  BY <1>2, <2>1, <2>2, <2>3
<1>5. ASSUME NEW d \in {0, 1}, NEW q \in DOMAIN pending, q > 1, LeadsToSheet(pending[q], d),
             LeadsToSheet(v, c)
      PROVE  c < d
  <2>1. 1 < q
    BY <1>1, <1>5
  <2> QED  BY <1>1, <1>5, <2>1 DEF Orderly
<1>6. LeadsToSheet(v, c) => SheetIn(pending, c)
  BY <1>1 DEF SheetIn
<1>7. (\E q \in DOMAIN pending : q > 1 /\ LeadsToSheet(pending[q], c)) => SheetIn(pending, c)
  BY DEF SheetIn
<1> QED  BY <1>3, <1>4, <1>5, <1>6, <1>7

\* The root and the barrel are pending until they are visited.
LEMMA BarrelToCome ==
  ASSUME Orderly(pending), NEW v, NEW B, NEW P, Step(v, B, P)
  PROVE  /\ ~RootIn(P) /\ v.name # "WCBox" => ~RootIn(pending)
         /\ ~BarrelIn(P) => v.name \notin {"WCBox", "WC"}
         /\ ~BarrelIn(P) /\ v.name # "WCBarrel" => ~BarrelIn(pending)
<1>1. /\ v = pending[1] /\ 1 \in DOMAIN pending /\ B = Below(v) /\ InTree(v) /\ v \in Visit
      /\ \A d \in DOMAIN B : d \in DOMAIN P /\ P[d] = B[d]
      /\ DOMAIN pending \subseteq Nat \ {0}
  BY DEF Step
<1>2. ASSUME NEW m \in DOMAIN pending PROVE m = 1 \/ \E q \in DOMAIN P : P[q] = pending[m]
  <2>1. m = 1 \/ m > 1
    BY <1>1
  <2> QED  BY <2>1 DEF Step
<1>3. ~RootIn(P) /\ v.name # "WCBox" => ~RootIn(pending)
  BY <1>1, <1>2 DEF RootIn
<1>4. ASSUME v.name = "WCBox" PROVE BarrelIn(P)
  <2> DEFINE x == [name |-> "WC", number |-> 0]
  <2>1. Daughters(v.name) \in Seq(Daughter) /\ Daughters(v.name) = <<x>>
    <3>1. Daughters(v.name) = Placed("WC", 0) /\ "WC" \in Volume
      BY <1>4 DEF Daughters, Volume
    <3> QED  BY <3>1, PlacedIs
  <2>2. 1 \in DOMAIN B /\ IsBelow(B[1], v, x)
    <3> HIDE DEF x
    <3>1. DOMAIN <<x>> = 1 .. 1 /\ <<x>>[1] = x /\ 1 \in 1 .. 1
      OBVIOUS
    <3>2. v \in Visit /\ <<x>> \in Seq(Daughter) /\ Daughters(v.name) = <<x>>
      BY <1>1, <2>1
    <3>3. /\ DOMAIN Below(v) = DOMAIN <<x>>
          /\ \A d \in DOMAIN <<x>> : IsBelow(Below(v)[d], v, <<x>>[d])
      BY <3>2, BelowAre
    <3> QED  BY <1>1, <3>1, <3>3
  <2>3. B[1].name = "WC"
    BY <2>2 DEF IsBelow
  <2> QED  BY <1>1, <2>2, <2>3 DEF BarrelIn
<1>5. ASSUME v.name = "WC" PROVE BarrelIn(P)
  <2> DEFINE D == WCDaughters
  <2>1. Daughters(v.name) = D /\ D \in Seq(Daughter) /\ Len(D) >= 3 /\ D[3].name = "WCBarrel"
    BY <1>5, TankParts DEF Daughters
  <2> HIDE DEF D
  <2>2. DOMAIN B = DOMAIN D /\ \A d \in DOMAIN D : IsBelow(B[d], v, D[d])
    <3>1. v \in Visit /\ D \in Seq(Daughter) /\ Daughters(v.name) = D
      BY <1>1, <2>1
    <3>2. /\ DOMAIN Below(v) = DOMAIN D
          /\ \A d \in DOMAIN D : IsBelow(Below(v)[d], v, D[d])
      BY <3>1, BelowAre
    <3> QED  BY <1>1, <3>2
  <2>3. 3 \in DOMAIN B
    <3>1. DOMAIN D = 1 .. Len(D) /\ Len(D) \in Nat
      BY <2>1
    <3> QED  BY <2>1, <2>2, <3>1
  <2>4. B[3].name = "WCBarrel"
    BY <2>1, <2>2, <2>3 DEF IsBelow
  <2> QED  BY <1>1, <2>3, <2>4 DEF BarrelIn
<1>6. ~BarrelIn(P) /\ v.name \notin {"WCBox", "WC", "WCBarrel"} => ~BarrelIn(pending)
  BY <1>1, <1>2 DEF BarrelIn
<1> QED  BY <1>3, <1>4, <1>5, <1>6

(***************************************************************************)
(* The invariant is inductive.                                             *)
(***************************************************************************)
\* An assignment changes a map at one key.
Assigns(new, map, key, value) ==
  /\ DOMAIN new = DOMAIN map \cup {key} /\ new[key] = value
  /\ \A k \in DOMAIN map : k # key => new[k] = map[k]

\* The maps are assigned to so.
LEMMA Assigned ==
  ASSUME NEW map, NEW key, NEW value
  PROVE  Assigns(Assign(map, key, value), map, key, value)
BY DEF Assign, Assigns

\* A visit is made and the next ones are in order.
LEMMA Visited ==
  ASSUME TypeOK, PendingOK, pending # <<>>, Traverse, geometry' = geometry,
         phase' \in {"DescribeAndRegisterPMT", "GetWCGeom"}
  PROVE  /\ Step(Head(pending), Below(Head(pending)), pending')
         /\ pending' \in Seq([name : Volume, path : Seq(Nat)]) /\ PendingOK'
<1>1. geometry \in Geometry /\ pending \in Seq(Visit) /\ Orderly(pending)
  BY DEF TypeOK, PendingOK, Visit
<1>2. Step(Head(pending), Below(Head(pending)), pending')
  BY <1>1, StepIs
<1>3. Orderly(pending')
  BY <1>1, <1>2, OrderKept
<1>4. Orderly(pending)'
  BY <1>3, SameOrder
<1>5. pending' \in Seq([name : Volume, path : Seq(Nat)])
  BY <1>2 DEF Step, Visit
<1> QED  BY <1>2, <1>4, <1>5 DEF PendingOK

\* At first there is no geometry.
LEMMA InitInv == Init => IInv
<1> SUFFICES ASSUME Init PROVE IInv
  OBVIOUS
<1> USE DEF Init
<1>1. TypeOK
  <2>1. <<>> \in Seq([name : Volume, path : Seq(Nat)])
    OBVIOUS
  <2>2. DOMAIN tubeLocationMap = {} /\ DOMAIN tubeCylLocation = {}
    OBVIOUS
  <2>3. replicaNoString \in [0 .. 9 -> Nat]
    OBVIOUS
  <2>4. wc \in [{"radius", "length", "offset", "pmtSize"} -> Int]
    OBVIOUS
  <2>5. geometry \in Geometry
    BY TubeRegistryAssumption
  <2>6. tubeID.id \in Nat
    BY DEF NoTube
  <2> QED  BY <2>1, <2>2, <2>3, <2>4, <2>5, <2>6 DEF TypeOK
<1>2. PendingOK
  BY DEF PendingOK, Orderly
<1> QED  BY <1>1, <1>2 DEF IInv, OnTheWay, Numbered, Measured, EntryWritten, Asked

\* Construct starts at the root: all tubes of the geometry are to come.
LEMMA ConstructInv == IInv /\ Construct => IInv'
<1> SUFFICES ASSUME IInv, Construct PROVE IInv'
  OBVIOUS
<1>1. /\ TypeOK /\ phase' = "DescribeAndRegisterPMT" /\ pending' = Root /\ totalNumPMTs' = 0
      /\ tubeID' = NoTube /\ geometry' \in {Initial} \cup Selectable /\ builds' = builds + 1
      /\ UNCHANGED <<replicaNoString, tubeLocationMap, tubeIDMap, tubeCylLocation, zmin, zmax, wc>>
  BY DEF IInv, Construct, FirstTube, geomVars
<1>2. TypeOK'
  <2>1. geometry' \in Geometry /\ builds' \in Nat
    BY <1>1, TubeRegistryAssumption DEF TypeOK
  <2>2. pending' \in Seq([name : Volume, path : Seq(Nat)])
    BY <1>1, RootIs DEF Visit
  <2>3. tubeID'.id \in Nat /\ totalNumPMTs' \in Nat
    BY <1>1 DEF NoTube
  <2> QED  BY <1>1, <2>1, <2>2, <2>3 DEF TypeOK
<1>3. PendingOK'
  <2>1. Orderly(pending)'
    <3>1. AtRoot'
      BY <1>1 DEF AtRoot
    <3> QED  BY <3>1, RootInOrder, PTL
  <2> QED  BY <1>1, <2>1 DEF PendingOK
<1>4. OnTheWay'
  <2>1. \A m \in DOMAIN Root : 1 .. Len(Root[m].path) - 1 = {}
    <3>1. \A m \in DOMAIN Root : m = 1
      BY RootIs
    <3>2. Len(Root[1].path) = 1 /\ 1 .. 1 - 1 = {}
      BY RootIs
    <3> QED  BY <3>1, <3>2
  <2> QED  BY <1>1, <2>1 DEF OnTheWay
<1>5. Numbered'
  <2>1. \A t : Awaited(t)'
    BY <1>1, RootIs DEF Awaited
  <2> QED  BY <1>1, <2>1 DEF Numbered
<1>6. Measured' /\ EntryWritten' /\ Asked'
  BY <1>1 DEF Measured, EntryWritten, Asked, NoTube
<1> QED  BY <1>2, <1>3, <1>4, <1>5, <1>6 DEF IInv

\* The first traversal: the numbers on the way, and the tube of a glass.
LEMMA DescribeInv == IInv /\ DescribeAndRegisterPMT => IInv'
<1> SUFFICES ASSUME IInv, DescribeAndRegisterPMT PROVE IInv'
  OBVIOUS
<1> DEFINE v == Head(pending)
           B == Below(v)
           P == pending'
           R == replicaNoString'
           depth == Depth(v)
           tube == <<v.name, v.path>>
           id == totalNumPMTs + 1
<1>1. /\ TypeOK /\ PendingOK /\ OnTheWay /\ Numbered /\ Asked
      /\ phase = "DescribeAndRegisterPMT" /\ phase' = phase /\ pending # <<>> /\ Traverse
      /\ geometry' = geometry /\ builds' = builds /\ entry' = entry /\ tubeID' = tubeID
      /\ zmin' = zmin /\ zmax' = zmax /\ wc' = wc
  BY DEF IInv, DescribeAndRegisterPMT, geomVars
<1>2. /\ replicaNoString' = [replicaNoString EXCEPT ![depth] = v.path[depth + 1]]
      /\ v.name \notin PMTGlass =>
           UNCHANGED <<totalNumPMTs, tubeLocationMap, tubeIDMap, tubeCylLocation>>
      /\ v.name \in PMTGlass =>
           /\ totalNumPMTs' = id
           /\ tubeLocationMap' = Assign(tubeLocationMap, Tag(v.name, depth, R), id)
           /\ tubeCylLocation' = Assign(tubeCylLocation, id, CylLocation(v.name, R))
           /\ tubeIDMap' = Assign(tubeIDMap, id, tube)
  BY DEF DescribeAndRegisterPMT, mapVars
<1>3. Step(v, B, P) /\ P \in Seq([name : Volume, path : Seq(Nat)]) /\ PendingOK'
  BY <1>1, Visited
<1>4. /\ geometry \in Geometry /\ Orderly(pending) /\ totalNumPMTs \in Nat
      /\ replicaNoString \in [0 .. 9 -> Nat]
  BY <1>1 DEF TypeOK, PendingOK
<1>5. /\ v = pending[1] /\ 1 \in DOMAIN pending /\ InTree(v) /\ v.path \in Seq(Nat)
      /\ Len(v.path) \in 1 .. 7 /\ depth = Len(v.path) - 1
  <2>1. v = pending[1] /\ 1 \in DOMAIN pending /\ InTree(v) /\ v \in Visit
    BY <1>3 DEF Step
  <2>2. v.path \in Seq(Nat) /\ Len(v.path) \in Nat
    BY <2>1 DEF Visit
  <2>3. Len(v.path) \in 1 .. 7
    BY <2>1, <2>2 DEF InTree
  <2> QED  BY <2>1, <2>2, <2>3 DEF Depth
<1> HIDE DEF v, B, P, depth
<1>6. /\ depth \in 0 .. 6 /\ depth + 1 = Len(v.path) /\ v.path[depth + 1] \in Nat
      /\ \A k \in 1 .. Len(v.path) : v.path[k] \in Nat
  <2> DEFINE l == Len(v.path)
  <2>1. l \in 1 .. 7 /\ depth = l - 1
    BY <1>5
  <2> HIDE DEF l
  <2>2. depth \in 0 .. 6 /\ depth + 1 = l /\ depth + 1 \in 1 .. l
    BY <2>1
  <2>3. \A k \in 1 .. l : v.path[k] \in Nat
    BY <1>5 DEF l
  <2> QED  BY <2>2, <2>3 DEF l
<1>7. /\ R \in [0 .. 9 -> Nat] /\ R[depth] = v.path[depth + 1]
      /\ \A k \in 0 .. 9 : k # depth => R[k] = replicaNoString[k]
  <2>1. depth \in 0 .. 9
    BY <1>6
  <2> QED  BY <1>2, <1>4, <1>6, <2>1
<1> HIDE DEF R
<1>8. ASSUME NEW k \in 1 .. Len(v.path) PROVE R[k - 1] = v.path[k]
  <2>1. CASE k = Len(v.path)
    <3>1. k - 1 = depth /\ depth + 1 = k
      BY <1>5, <1>6, <2>1
    <3> QED  BY <1>7, <3>1
  <2>2. CASE k # Len(v.path)
    <3>1. k \in 1 .. Len(v.path) - 1 /\ k - 1 \in 0 .. 9 /\ k - 1 # depth
      <4> DEFINE l == Len(v.path)
      <4>1. l \in 1 .. 7 /\ depth = l - 1 /\ k \in 1 .. l /\ k # l
        BY <1>5, <2>2
      <4> HIDE DEF l
      <4>2. k \in 1 .. l - 1 /\ k - 1 \in 0 .. 9 /\ k - 1 # depth
        BY <4>1
      <4> QED  BY <4>2 DEF l
    <3>2. replicaNoString[k - 1] = v.path[k]
      BY <1>1, <1>5, <3>1 DEF OnTheWay
    <3> QED  BY <1>7, <3>1, <3>2
  <2> QED  BY <2>1, <2>2
<1>9. OnTheWay'
  <2> SUFFICES ASSUME NEW m \in DOMAIN P, NEW k \in 1 .. Len(P[m].path) - 1
               PROVE  R[k - 1] = P[m].path[k]
    BY DEF OnTheWay, P, R
  <2>1. CASE m \in DOMAIN B /\ P[m] = B[m]
    <3>1. /\ Len(B[m].path) = Len(v.path) + 1
          /\ \A j \in 1 .. Len(v.path) : B[m].path[j] = v.path[j]
      BY <1>3, <2>1 DEF Step
    <3>2. k \in 1 .. Len(v.path)
      BY <1>5, <2>1, <3>1
    <3> QED  BY <1>8, <2>1, <3>1, <3>2
  <2>2. CASE \E q \in DOMAIN pending : q > 1 /\ P[m] = pending[q]
    <3>1. PICK q \in DOMAIN pending : q > 1 /\ P[m] = pending[q]
      BY <2>2
    <3>2. 1 < q
      <4>1. q \in Nat
        BY <1>3 DEF Step
      <4> QED  BY <3>1, <4>1
    <3>3. Len(P[m].path) <= Len(v.path) /\ Len(P[m].path) \in Nat
      <4>1. Len(pending[q].path) <= Len(pending[1].path)
        BY <1>4, <1>5, <3>2 DEF Orderly
      <4>2. pending[q] \in Visit
        BY <1>3 DEF Step
      <4>3. Len(pending[q].path) \in Nat
        BY <4>2 DEF Visit
      <4> QED  BY <1>5, <3>1, <4>1, <4>3
    <3>4. k - 1 \in 0 .. 9 /\ k - 1 # depth
      <4> DEFINE l == Len(v.path)
                 n == Len(P[m].path)
      <4>1. l \in 1 .. 7 /\ depth = l - 1 /\ n <= l /\ n \in Nat /\ k \in 1 .. n - 1
        BY <1>5, <3>3
      <4> HIDE DEF l, n
      <4> QED  BY <4>1
    <3>5. replicaNoString[k - 1] = pending[q].path[k]
      BY <1>1, <3>1 DEF OnTheWay
    <3> QED  BY <1>7, <3>1, <3>4, <3>5
  <2>3. \/ m \in DOMAIN B /\ P[m] = B[m]
        \/ \E q \in DOMAIN pending : q > 1 /\ P[m] = pending[q]
    BY <1>3 DEF Step
  <2> QED  BY <2>1, <2>2, <2>3
<1>10. Touchables' = Touchables
  BY <1>1, SameTank
<1>11. \A t \in Touchables :
         /\ LeadsOn(pending, t) <=> LeadsOn(P, t) \/ (v.name \in PMTGlass /\ Leads(v, t))
         /\ ~(LeadsOn(P, t) /\ v.name \in PMTGlass /\ Leads(v, t))
  BY <1>3, <1>4, TubesToCome
<1>12. ASSUME v.name \in PMTGlass
       PROVE  /\ tube \in Touchables /\ \A t \in Touchables : Leads(v, t) <=> t = tube
              /\ Tag(v.name, depth, R) = tube
              /\ CylLocation(v.name, R) = LocationOf(tube)
              /\ CylLocation(v.name, R) \in Location
  <2>1. tube \in Touchables /\ \A t \in Touchables : Leads(v, t) <=> t = tube
    BY <1>5, <1>12, GlassIs
  <2>2. [k \in 1 .. depth + 1 |-> R[k - 1]] = v.path
    <3>1. v.path = [k \in 1 .. Len(v.path) |-> v.path[k]]
      BY <1>5
    <3> QED  BY <1>6, <1>8, <3>1
  <2>3. R[2] = v.path[3] /\ v.path[3] \in Nat
    <3>1. Len(v.path) \in {5, 7}
      BY <1>5, <1>12 DEF InTree, PMTGlass
    <3>2. 3 \in 1 .. Len(v.path) /\ 3 - 1 = 2
      <4> DEFINE l == Len(v.path)
      <4>1. l \in {5, 7}
        BY <3>1
      <4> HIDE DEF l
      <4>2. 3 \in 1 .. l
        BY <4>1
      <4> QED  BY <4>2 DEF l
    <3>3. R[3 - 1] = v.path[3]
      BY <1>8, <3>2
    <3> QED  BY <1>6, <3>2, <3>3
  <2>4. v.name = "WCCapPMTGlass" => v.path[3] \in {0, 1}
    BY <1>5 DEF InTree, Cap
  <2>5. CylLocation(v.name, R) = LocationOf(tube) /\ CylLocation(v.name, R) \in Location
    <3>1. tube[1] = v.name /\ tube[2] = v.path
      OBVIOUS
    <3> HIDE DEF tube
    <3>2. CASE v.name = "WCBarrelPMTGlass"
      <4>1. tube[2][3] = 0 /\ tube[1] = "WCBarrelPMTGlass"
        BY <1>5, <3>1, <3>2 DEF InTree, Cell, Ring
      <4> QED  BY <3>2, <4>1 DEF CylLocation, LocationOf, Location
    <3>3. CASE v.name = "WCCapPMTGlass"
      <4>1. tube[2][3] \in {0, 1} /\ R[2] = tube[2][3] /\ tube[1] = "WCCapPMTGlass"
        BY <2>3, <2>4, <3>1, <3>3
      <4> QED  BY <3>3, <4>1 DEF CylLocation, LocationOf, Location
    <3> QED  BY <1>12, <3>2, <3>3 DEF PMTGlass
  <2> QED  BY <2>1, <2>2, <2>5 DEF Tag
<1> DEFINE ids == totalNumPMTs'
           L == tubeLocationMap'
           I == tubeIDMap'
           C == tubeCylLocation'
           filed(t) == /\ t \in DOMAIN L /\ L[t] \in 1 .. ids
                       /\ I[L[t]] = t /\ C[L[t]] = LocationOf(t)
           given(n) == /\ n \in DOMAIN I /\ n \in DOMAIN C /\ I[n] \in Touchables
                       /\ ~LeadsOn(P, I[n]) /\ L[I[n]] = n
           kept == /\ \A t \in Touchables : ~LeadsOn(P, t) => filed(t)
                   /\ \A n \in 1 .. ids : given(n)
                   /\ ids \in Nat
                   /\ \A tag \in DOMAIN L : L[tag] \in Nat \ {0}
                   /\ \A n \in DOMAIN C : C[n] \in Location
<1>13. /\ \A t \in Touchables : ~LeadsOn(pending, t) => Filed(t)
       /\ \A n \in 1 .. totalNumPMTs :
            /\ n \in DOMAIN tubeIDMap /\ n \in DOMAIN tubeCylLocation
            /\ tubeIDMap[n] \in Touchables /\ ~LeadsOn(pending, tubeIDMap[n])
            /\ tubeLocationMap[tubeIDMap[n]] = n
  BY <1>1 DEF Numbered, Awaited
<1>14. /\ totalNumPMTs \in Nat
       /\ \A tag \in DOMAIN tubeLocationMap : tubeLocationMap[tag] \in Nat \ {0}
       /\ \A n \in DOMAIN tubeCylLocation : tubeCylLocation[n] \in Location
  BY <1>1 DEF TypeOK
<1>15. ASSUME v.name \notin PMTGlass PROVE kept
  <2>1. UNCHANGED <<totalNumPMTs, tubeLocationMap, tubeIDMap, tubeCylLocation>>
    BY <1>2, <1>15
  <2>2. \A t \in Touchables : LeadsOn(pending, t) <=> LeadsOn(P, t)
    BY <1>11, <1>15
  <2>3. ASSUME NEW t \in Touchables, ~LeadsOn(P, t) PROVE filed(t)
    BY <1>13, <2>1, <2>2, <2>3 DEF Filed
  <2>4. ASSUME NEW n \in 1 .. ids PROVE given(n)
    BY <1>13, <2>1, <2>2
  <2>5. /\ ids \in Nat
        /\ \A tag \in DOMAIN L : L[tag] \in Nat \ {0}
        /\ \A n \in DOMAIN C : C[n] \in Location
    BY <1>14, <2>1
  <2> QED  BY <2>3, <2>4, <2>5
<1>16. ASSUME v.name \in PMTGlass PROVE kept
  <2>1. /\ ids = id /\ L = Assign(tubeLocationMap, tube, id)
        /\ C = Assign(tubeCylLocation, id, LocationOf(tube)) /\ I = Assign(tubeIDMap, id, tube)
    BY <1>2, <1>12, <1>16
  <2>2. id \in Nat \ {0} /\ \A n \in 1 .. totalNumPMTs : n # id /\ n \in 1 .. id
    BY <1>4
  <2>3. \A n \in 1 .. id : n = id \/ n \in 1 .. totalNumPMTs
    BY <1>4
  <2> HIDE DEF ids, L, C, I, tube, id
  <2>4. /\ DOMAIN L = DOMAIN tubeLocationMap \cup {tube} /\ L[tube] = id
        /\ \A t \in DOMAIN tubeLocationMap : t # tube => L[t] = tubeLocationMap[t]
    <3>1. Assigns(L, tubeLocationMap, tube, id)
      BY <2>1, Assigned
    <3> QED  BY <3>1 DEF Assigns
  <2>5. /\ DOMAIN C = DOMAIN tubeCylLocation \cup {id} /\ C[id] = LocationOf(tube)
        /\ \A n \in DOMAIN tubeCylLocation : n # id => C[n] = tubeCylLocation[n]
    <3>1. Assigns(C, tubeCylLocation, id, LocationOf(tube))
      BY <2>1, Assigned
    <3> QED  BY <3>1 DEF Assigns
  <2>6. /\ DOMAIN I = DOMAIN tubeIDMap \cup {id} /\ I[id] = tube
        /\ \A n \in DOMAIN tubeIDMap : n # id => I[n] = tubeIDMap[n]
    <3>1. Assigns(I, tubeIDMap, id, tube)
      BY <2>1, Assigned
    <3> QED  BY <3>1 DEF Assigns
  <2>7. \A n \in 1 .. totalNumPMTs : I[n] = tubeIDMap[n] /\ C[n] = tubeCylLocation[n]
    BY <1>13, <2>2, <2>5, <2>6
  <2>8. /\ tube \in Touchables /\ LeadsOn(pending, tube) /\ ~LeadsOn(P, tube)
        /\ \A t \in Touchables : t # tube => (LeadsOn(pending, t) <=> LeadsOn(P, t))
    BY <1>11, <1>12, <1>16
  <2>9. ASSUME NEW t \in Touchables, ~LeadsOn(P, t) PROVE filed(t)
    <3>1. CASE t = tube
      <4>1. id \in 1 .. ids
        BY <2>1, <2>2
      <4> QED  BY <2>4, <2>5, <2>6, <3>1, <4>1
    <3>2. CASE t # tube
      <4>1. Filed(t)
        BY <1>13, <2>8, <2>9, <3>2
      <4>2. /\ t \in DOMAIN tubeLocationMap /\ tubeLocationMap[t] \in 1 .. totalNumPMTs
            /\ tubeIDMap[tubeLocationMap[t]] = t
            /\ tubeCylLocation[tubeLocationMap[t]] = LocationOf(t)
        BY <4>1 DEF Filed
      <4>3. L[t] = tubeLocationMap[t] /\ t \in DOMAIN L
        BY <2>4, <3>2, <4>2
      <4>4. L[t] \in 1 .. ids
        BY <2>1, <2>2, <4>2, <4>3
      <4> QED  BY <2>7, <4>2, <4>3, <4>4
    <3> QED  BY <3>1, <3>2
  <2>10. ASSUME NEW n \in 1 .. ids PROVE given(n)
    <3>1. CASE n = id
      BY <2>4, <2>5, <2>6, <2>8, <3>1
    <3>2. CASE n \in 1 .. totalNumPMTs
      <4> DEFINE t == tubeIDMap[n]
      <4>1. /\ n \in DOMAIN tubeIDMap /\ n \in DOMAIN tubeCylLocation /\ t \in Touchables
            /\ ~LeadsOn(pending, t) /\ tubeLocationMap[t] = n
        BY <1>13, <3>2
      <4>2. t # tube /\ ~LeadsOn(P, t)
        BY <2>8, <4>1
      <4>3. t \in DOMAIN tubeLocationMap
        BY <1>13, <4>1 DEF Filed
      <4>4. L[t] = n
        BY <2>4, <4>1, <4>2, <4>3
      <4>5. I[n] = t
        BY <2>7, <3>2
      <4> HIDE DEF t
      <4> QED  BY <2>5, <2>6, <4>1, <4>2, <4>4, <4>5
    <3> QED  BY <2>1, <2>3, <3>1, <3>2
  <2>11. /\ ids \in Nat
         /\ \A tag \in DOMAIN L : L[tag] \in Nat \ {0}
         /\ \A n \in DOMAIN C : C[n] \in Location
    <3>1. ids \in Nat
      BY <2>1, <2>2
    <3>2. \A tag \in DOMAIN tubeLocationMap : tubeLocationMap[tag] \in Nat \ {0}
      BY <1>14
    <3>3. \A n \in DOMAIN tubeCylLocation : tubeCylLocation[n] \in Location
      BY <1>14
    <3>4. LocationOf(tube) \in Location
      BY <1>12, <1>16 DEF tube
    <3>5. \A tag \in DOMAIN L : L[tag] \in Nat \ {0}
      BY <2>2, <2>4, <3>2
    <3>6. \A n \in DOMAIN C : C[n] \in Location
      BY <2>5, <3>3, <3>4
    <3> QED  BY <3>1, <3>5, <3>6
  <2> QED  BY <2>9, <2>10, <2>11
<1>17. kept
  BY <1>15, <1>16
<1>18. Numbered'
  <2>1. phase' = "DescribeAndRegisterPMT"
    BY <1>1
  <2>2. ASSUME NEW t \in Touchables, ~Awaited(t)' PROVE Filed(t)'
    <3>1. ~LeadsOn(P, t)
      BY <2>1, <2>2 DEF Awaited, LeadsOn, Leads, P
    <3>2. filed(t)
      BY <1>17, <3>1
    <3> QED  BY <3>2 DEF Filed, LocationOf
  <2>3. ASSUME NEW n \in 1 .. ids
        PROVE  /\ n \in DOMAIN tubeIDMap' /\ n \in DOMAIN tubeCylLocation'
               /\ tubeIDMap'[n] \in Touchables /\ ~Awaited(tubeIDMap[n])'
               /\ tubeLocationMap'[tubeIDMap'[n]] = n
    <3>1. given(n)
      BY <1>17
    <3>2. ~Awaited(tubeIDMap[n])'
      BY <3>1 DEF Awaited, LeadsOn, Leads, P
    <3> QED  BY <3>1, <3>2
  <2> QED  BY <1>10, <2>2, <2>3 DEF Numbered
<1>19. TypeOK'
  <2>1. pending' \in Seq([name : Volume, path : Seq(Nat)])
    BY <1>3 DEF P
  <2>2. replicaNoString' \in [0 .. 9 -> Nat]
    BY <1>7 DEF R
  <2> QED  BY <1>1, <1>17, <2>1, <2>2 DEF TypeOK
<1>20. Measured' /\ EntryWritten' /\ Asked'
  BY <1>1 DEF Measured, EntryWritten, Asked, NoTube
<1> QED  BY <1>3, <1>9, <1>18, <1>19, <1>20 DEF IInv

\* No tube is to come when the first traversal has ended.
LEMMA SecondTraversalInv == IInv /\ SecondTraversal => IInv'
<1> SUFFICES ASSUME IInv, SecondTraversal PROVE IInv'
  OBVIOUS
<1>1. /\ TypeOK /\ Numbered /\ Asked /\ phase = "DescribeAndRegisterPMT" /\ pending = <<>>
      /\ phase' = "GetWCGeom" /\ pending' = Root
      /\ UNCHANGED <<builds, geometry, replicaNoString, totalNumPMTs, tubeLocationMap,
                     tubeIDMap, tubeCylLocation, zmin, zmax, wc, entry, tubeID>>
  BY DEF IInv, SecondTraversal, mapVars, geomVars
<1>2. TypeOK'
  <2>1. pending' \in Seq([name : Volume, path : Seq(Nat)])
    BY <1>1, RootIs DEF Visit
  <2> QED  BY <1>1, <2>1 DEF TypeOK
<1>3. PendingOK'
  <2>1. AtRoot'
    BY <1>1 DEF AtRoot
  <2>2. Orderly(pending)'
    BY <2>1, RootInOrder, PTL
  <2> QED  BY <1>1, <2>2 DEF PendingOK
<1>4. Numbered'
  <2>1. Touchables' = Touchables
    BY <1>1, SameTank
  <2>2. \A t : ~LeadsOn(pending, t)
    BY <1>1 DEF LeadsOn
  <2>3. \A t \in Touchables : Filed(t)
    BY <1>1, <2>2 DEF Numbered, Awaited
  <2>4. \A id \in 1 .. totalNumPMTs :
          /\ id \in DOMAIN tubeIDMap /\ id \in DOMAIN tubeCylLocation
          /\ tubeIDMap[id] \in Touchables /\ tubeLocationMap[tubeIDMap[id]] = id
    BY <1>1 DEF Numbered
  <2> QED  BY <1>1, <2>1, <2>3, <2>4 DEF Numbered, Awaited, Filed, LocationOf
<1>5. Measured'
  <2>1. RootIn(pending)' /\ BarrelIn(pending)'
    <3>1. RootIn(Root) /\ BarrelIn(Root)
      BY RootIs
    <3> QED  BY <1>1, <3>1 DEF RootIn, BarrelIn
  <2> QED  BY <2>1 DEF Measured
<1>6. OnTheWay' /\ EntryWritten' /\ Asked'
  BY <1>1 DEF OnTheWay, EntryWritten, Asked, NoTube
<1> QED  BY <1>2, <1>3, <1>4, <1>5, <1>6 DEF IInv

\* Once no tube is to come, the maps stay.
LEMMA MapsKept ==
  ASSUME Numbered, phase \in {"GetWCGeom", "ready"}, phase' \in {"GetWCGeom", "ready"},
         geometry' = geometry,
         UNCHANGED <<totalNumPMTs, tubeLocationMap, tubeIDMap, tubeCylLocation>>
  PROVE  Numbered'
<1>1. Touchables' = Touchables
  BY SameTank
<1>2. \A t \in Touchables : Filed(t)
  BY DEF Numbered, Awaited
<1>3. \A id \in 1 .. totalNumPMTs :
        /\ id \in DOMAIN tubeIDMap /\ id \in DOMAIN tubeCylLocation
        /\ tubeIDMap[id] \in Touchables /\ tubeLocationMap[tubeIDMap[id]] = id
  BY DEF Numbered
<1> QED  BY <1>1, <1>2, <1>3 DEF Numbered, Awaited, Filed, LocationOf

\* The second traversal: each sheet moves the extremity on its side, since the
\* first one comes first and lies at the negative half.
LEMMA GetWCGeomInv == IInv /\ GetWCGeom => IInv'
<1> SUFFICES ASSUME IInv, GetWCGeom PROVE IInv'
  OBVIOUS
<1> DEFINE v == Head(pending)
           B == Below(v)
           P == pending'
           H == HalfLength
<1>1. /\ TypeOK /\ PendingOK /\ Numbered /\ Measured /\ Asked
      /\ phase = "GetWCGeom" /\ phase' = "GetWCGeom" /\ pending # <<>> /\ Traverse
      /\ UNCHANGED <<builds, geometry, replicaNoString, totalNumPMTs, tubeLocationMap,
                     tubeIDMap, tubeCylLocation, entry, tubeID>>
  BY DEF IInv, GetWCGeom, mapVars
<1>2. \/ Depth(v) = 0 /\ zmin' = 100000 /\ zmax' = -100000 /\ wc' = wc
      \/ v.name = "WCCapBlackSheet" /\ MeasureLength(CapZ(v))
      \/ /\ Depth(v) # 0 /\ v.name # "WCCapBlackSheet"
         /\ wc' =
              CASE v.name = "WCBarrel" ->
                     [wc EXCEPT !.offset = WCPosition + WCBarrelPosition]
                [] v.name \in PMTGlass -> [wc EXCEPT !.pmtSize = dim.WCPMTRadius]
                [] v.name = "WCBarrelCellBlackSheet" ->
                     [wc EXCEPT !.radius = dim.WCBarrelPMTRadius
                                             + dim.WCBlackSheetThickness \div 2]
                [] OTHER -> wc
         /\ zmin' = zmin /\ zmax' = zmax
  BY DEF GetWCGeom, ResetAtRoot
<1>3. Step(v, B, P) /\ P \in Seq([name : Volume, path : Seq(Nat)]) /\ PendingOK'
  BY <1>1, Visited
<1>4. /\ geometry \in Geometry /\ Orderly(pending) /\ zmin \in Int /\ zmax \in Int
      /\ wc \in [{"radius", "length", "offset", "pmtSize"} -> Int]
  BY <1>1 DEF TypeOK, PendingOK
<1>5. InTree(v) /\ v.name \in Volume /\ Len(v.path) \in Nat
  BY <1>3 DEF Step, Visit
<1>6. Depth(v) = 0 <=> v.name = "WCBox"
  <2> DEFINE l == Len(v.path)
  <2>1. l \in Nat
    BY <1>5
  <2>2. Depth(v) = l - 1
    BY DEF Depth
  <2>3. v.name = "WCBox" => l = 1
    BY <1>5 DEF InTree
  <2>4. ASSUME l = 1 PROVE v.name = "WCBox"
    <3> HIDE DEF v
    <3>1. \A n \in {2, 3, 4, 5, 6, 7} : l # n
      BY <2>4
    <3> QED  BY <1>5, <3>1 DEF InTree
  <2> HIDE DEF l
  <2> QED  BY <2>1, <2>2, <2>3, <2>4
<1>7. /\ H \in Nat /\ 2 * H = dim.WCBarrelLength + dim.WCCapLength
      /\ WCPosition + WCBarrelPosition = 0
      /\ WCPosition + WCFrontCapPosition = -H /\ WCPosition + WCBackCapPosition = H
      /\ dim.WCPMTRadius \in Int /\ dim.WCBarrelPMTRadius \in Int
      /\ dim.WCBlackSheetThickness \in Int
  BY <1>4, Dimensions
<1>8. dim' = dim /\ HalfLength' = H
  BY <1>1, SameTank
<1> HIDE DEF v, B, P, H
<1>9. ASSUME NEW c \in {0, 1}
      PROVE  /\ SheetIn(pending, c) <=>
                  SheetIn(P, c) \/ (v.name = "WCCapBlackSheet" /\ LeadsToSheet(v, c))
             /\ v.name = "WCCapBlackSheet" /\ LeadsToSheet(v, c) =>
                  \A d \in {0, 1} : SheetIn(P, d) => c < d
  BY <1>3, <1>4, SheetsToCome
<1>10. /\ ~RootIn(P) /\ v.name # "WCBox" => ~RootIn(pending)
       /\ ~BarrelIn(P) => v.name \notin {"WCBox", "WC"}
       /\ ~BarrelIn(P) /\ v.name # "WCBarrel" => ~BarrelIn(pending)
  BY <1>3, <1>4, BarrelToCome
<1>11. /\ ~RootIn(pending) =>
            /\ zmin = IF SheetIn(pending, 0) THEN 100000 ELSE -H
            /\ zmax = IF SheetIn(pending, 1) THEN -100000 ELSE H
            /\ SheetIn(pending, 0) => SheetIn(pending, 1)
            /\ ~SheetIn(pending, 1) => wc.length = dim.WCBarrelLength + dim.WCCapLength
       /\ ~BarrelIn(pending) => wc.offset = 0
  BY <1>1 DEF Measured, H
<1> DEFINE extremes ==
             ~RootIn(P) =>
               /\ zmin' = IF SheetIn(P, 0) THEN 100000 ELSE -H
               /\ zmax' = IF SheetIn(P, 1) THEN -100000 ELSE H
               /\ SheetIn(P, 0) => SheetIn(P, 1)
               /\ ~SheetIn(P, 1) => wc'.length = dim.WCBarrelLength + dim.WCCapLength
           typed ==
             /\ zmin' \in Int /\ zmax' \in Int
             /\ wc' \in [{"radius", "length", "offset", "pmtSize"} -> Int]
           offset == ~BarrelIn(P) => wc'.offset = 0
           done == extremes /\ typed /\ offset
<1>12. ASSUME v.name = "WCBox", zmin' = 100000, zmax' = -100000, wc' = wc
       PROVE  done
  <2>1. \A c \in {0, 1} : LeadsToSheet(v, c)
    BY <1>12 DEF LeadsToSheet
  <2>2. SheetIn(P, 0) /\ SheetIn(P, 1)
    <3>1. 1 \in DOMAIN pending /\ v = pending[1]
      BY <1>3 DEF Step
    <3>2. SheetIn(pending, 0) /\ SheetIn(pending, 1)
      BY <2>1, <3>1 DEF SheetIn
    <3> QED  BY <1>9, <1>12, <3>2
  <2>3. BarrelIn(P)
    BY <1>10, <1>12
  <2> QED  BY <1>4, <1>12, <2>2, <2>3
<1>13. ASSUME v.name = "WCCapBlackSheet", MeasureLength(CapZ(v))
       PROVE  done
  <2> DEFINE c == v.path[3]
             z == CapZ(v)
  <2>1. c \in {0, 1} /\ v.name # "WCBox" /\ v.name # "WCBarrel"
    BY <1>5, <1>13 DEF InTree, Cap
  <2>2. \A d : LeadsToSheet(v, d) <=> d = c
    BY <1>13 DEF LeadsToSheet
  <2>3. z = IF c = 0 THEN -H ELSE H
    BY <1>7, <2>1 DEF CapZ
  <2>4. /\ zmin' = IF z < zmin THEN z ELSE zmin
        /\ zmax' = IF z >= zmin /\ z > zmax THEN z ELSE zmax
        /\ wc' = [wc EXCEPT !.length = zmax' - zmin']
    BY <1>13 DEF MeasureLength
  <2> HIDE DEF c, z
  <2>5. z \in Int /\ zmin' \in Int /\ zmax' \in Int
    BY <1>4, <1>7, <2>3, <2>4
  <2>6. /\ wc'.length = zmax' - zmin' /\ wc'.offset = wc.offset
        /\ wc' \in [{"radius", "length", "offset", "pmtSize"} -> Int]
    BY <1>4, <2>4, <2>5
  <2>7. offset
    BY <1>10, <1>11, <2>1, <2>6
  <2>8. ASSUME ~RootIn(P)
        PROVE  /\ zmin' = IF SheetIn(P, 0) THEN 100000 ELSE -H
               /\ zmax' = IF SheetIn(P, 1) THEN -100000 ELSE H
               /\ SheetIn(P, 0) => SheetIn(P, 1)
               /\ ~SheetIn(P, 1) => wc'.length = dim.WCBarrelLength + dim.WCCapLength
    <3>1. ~RootIn(pending)
      BY <1>10, <2>1, <2>8
    <3>2. CASE c = 0
      <4>1. SheetIn(pending, 0) /\ ~SheetIn(P, 0)
        BY <1>9, <1>13, <2>2, <3>2
      <4>2. SheetIn(pending, 1) /\ SheetIn(P, 1)
        BY <1>9, <1>11, <2>2, <3>1, <3>2, <4>1
      <4>3. zmin = 100000 /\ zmax = -100000 /\ z = -H
        BY <1>11, <2>3, <3>1, <3>2, <4>1, <4>2
      <4>4. zmin' = -H /\ zmax' = -100000
        BY <1>7, <2>4, <4>3
      <4> QED  BY <4>1, <4>2, <4>4
    <3>3. CASE c = 1
      <4>1. SheetIn(pending, 1) /\ ~SheetIn(P, 1) /\ ~SheetIn(P, 0)
        BY <1>9, <1>13, <2>2, <3>3
      <4>2. ~SheetIn(pending, 0)
        BY <1>9, <2>2, <3>3, <4>1
      <4>3. zmin = -H /\ zmax = -100000 /\ z = H
        BY <1>11, <2>3, <3>1, <3>3, <4>1, <4>2
      <4>4. zmin' = -H /\ zmax' = H
        BY <1>7, <2>4, <4>3
      <4>5. wc'.length = dim.WCBarrelLength + dim.WCCapLength
        BY <1>7, <2>6, <4>4
      <4> QED  BY <4>1, <4>4, <4>5
    <3> QED  BY <2>1, <3>2, <3>3
  <2> QED  BY <2>5, <2>6, <2>7, <2>8
<1>14. ASSUME v.name # "WCBox", v.name # "WCCapBlackSheet", zmin' = zmin, zmax' = zmax,
              wc' = CASE v.name = "WCBarrel" ->
                           [wc EXCEPT !.offset = WCPosition + WCBarrelPosition]
                      [] v.name \in PMTGlass -> [wc EXCEPT !.pmtSize = dim.WCPMTRadius]
                      [] v.name = "WCBarrelCellBlackSheet" ->
                           [wc EXCEPT !.radius = dim.WCBarrelPMTRadius
                                                   + dim.WCBlackSheetThickness \div 2]
                      [] OTHER -> wc
       PROVE  done
  <2>1. /\ wc' \in [{"radius", "length", "offset", "pmtSize"} -> Int]
        /\ wc'.length = wc.length
        /\ wc'.offset = IF v.name = "WCBarrel" THEN 0 ELSE wc.offset
    <3> DEFINE r == dim.WCBarrelPMTRadius + dim.WCBlackSheetThickness \div 2
    <3>1. r \in Int
      BY <1>7
    <3> HIDE DEF r
    <3>2. CASE v.name = "WCBarrel"
      <4>1. wc' = [wc EXCEPT !.offset = 0]
        BY <1>7, <1>14, <3>2 DEF PMTGlass
      <4> QED  BY <1>4, <3>2, <4>1
    <3>3. CASE v.name \in PMTGlass
      <4>1. wc' = [wc EXCEPT !.pmtSize = dim.WCPMTRadius] /\ v.name # "WCBarrel"
        BY <1>14, <3>3 DEF PMTGlass
      <4> QED  BY <1>4, <1>7, <4>1
    <3>4. CASE v.name = "WCBarrelCellBlackSheet"
      <4>1. wc' = [wc EXCEPT !.radius = r]
        BY <1>14, <3>4 DEF PMTGlass, r
      <4> QED  BY <1>4, <3>1, <3>4, <4>1
    <3>5. CASE v.name \notin {"WCBarrel", "WCBarrelCellBlackSheet"} \cup PMTGlass
      <4>1. wc' = wc
        BY <1>14, <3>5
      <4> QED  BY <1>4, <3>5, <4>1
    <3> QED  BY <3>2, <3>3, <3>4, <3>5
  <2>2. \A c \in {0, 1} : SheetIn(P, c) <=> SheetIn(pending, c)
    BY <1>9, <1>14
  <2>3. extremes
    <3>1. ~RootIn(P) => ~RootIn(pending)
      BY <1>10, <1>14
    <3>2. /\ SheetIn(P, 0) <=> SheetIn(pending, 0)
          /\ SheetIn(P, 1) <=> SheetIn(pending, 1)
      BY <2>2
    <3> QED  BY <1>11, <1>14, <2>1, <3>1, <3>2
  <2>4. offset
    BY <1>10, <1>11, <2>1
  <2> QED  BY <1>4, <1>14, <2>1, <2>3, <2>4
<1>15. done
  BY <1>2, <1>6, <1>12, <1>13, <1>14
<1>16. TypeOK'
  BY <1>1, <1>3, <1>15 DEF TypeOK, P
<1>17. Measured'
  <2>1. /\ SheetIn(pending, 0)' <=> SheetIn(P, 0)
        /\ SheetIn(pending, 1)' <=> SheetIn(P, 1)
        /\ RootIn(pending)' <=> RootIn(P)
        /\ BarrelIn(pending)' <=> BarrelIn(P)
    BY DEF SheetIn, RootIn, BarrelIn, LeadsToSheet, P
  <2> QED  BY <1>8, <1>15, <2>1 DEF Measured
<1>18. Numbered'
  BY <1>1, MapsKept
<1>19. OnTheWay' /\ EntryWritten' /\ Asked'
  BY <1>1 DEF OnTheWay, EntryWritten, Asked, NoTube
<1> QED  BY <1>3, <1>16, <1>17, <1>18, <1>19 DEF IInv

\* The entry is made of what the traversals left.
LEMMA FillGeometryTupleInv == IInv /\ FillGeometryTuple => IInv'
<1> SUFFICES ASSUME IInv, FillGeometryTuple PROVE IInv'
  OBVIOUS
<1>1. /\ TypeOK /\ PendingOK /\ Numbered /\ Measured /\ Asked
      /\ phase = "GetWCGeom" /\ phase' = "ready" /\ pending = <<>>
      /\ UNCHANGED <<builds, geometry, pending, replicaNoString, totalNumPMTs, tubeLocationMap,
                     tubeIDMap, tubeCylLocation, zmin, zmax, wc, tubeID>>
  BY DEF IInv, FillGeometryTuple, mapVars, geomVars
<1>2. TypeOK'
  BY <1>1 DEF TypeOK
<1>3. PendingOK'
  <2>1. Orderly(pending')
    BY <1>1 DEF PendingOK
  <2>2. Orderly(pending)'
    BY <1>1, <2>1, SameOrder
  <2> QED  BY <1>1, <2>2 DEF PendingOK
<1>4. Numbered'
  BY <1>1, MapsKept
<1>5. Measured'
  <2>1. dim' = dim /\ HalfLength' = HalfLength
    BY <1>1, SameTank
  <2> QED  BY <1>1, <2>1 DEF Measured, SheetIn, RootIn, BarrelIn, LeadsToSheet
<1>6. EntryWritten'
  BY <1>1 DEF FillGeometryTuple, EntryWritten
<1>7. OnTheWay' /\ Asked'
  BY <1>1 DEF OnTheWay, Asked, NoTube
<1> QED  BY <1>2, <1>3, <1>4, <1>5, <1>6, <1>7 DEF IInv

\* To ask for a tube of the tank changes no ID.
LEMMA GetTubeIDInv == IInv /\ GetTubeID => IInv'
<1> SUFFICES ASSUME IInv, GetTubeID PROVE IInv'
  OBVIOUS
<1>1. /\ TypeOK /\ PendingOK /\ Numbered /\ Measured /\ EntryWritten
      /\ phase = "ready" /\ phase' = "ready"
      /\ UNCHANGED <<builds, geometry, pending, replicaNoString, totalNumPMTs,
                     tubeIDMap, tubeCylLocation, zmin, zmax, wc, entry>>
  BY DEF IInv, GetTubeID, geomVars
<1>2. PICK tag \in Touchables :
        /\ tubeID' = [id |-> Lookup(tubeLocationMap, tag), place |-> tag]
        /\ tubeLocationMap' = Assign(tubeLocationMap, tag, tubeID'.id)
  BY DEF GetTubeID
<1>3. Touchables' = Touchables
  BY <1>1, SameTank
<1>4. \A t \in Touchables :
        /\ t \in DOMAIN tubeLocationMap /\ tubeLocationMap[t] \in 1 .. totalNumPMTs
        /\ tubeIDMap[tubeLocationMap[t]] = t
        /\ tubeCylLocation[tubeLocationMap[t]] = LocationOf(t)
  BY <1>1 DEF Numbered, Awaited, Filed
<1> DEFINE n == tubeLocationMap[tag]
           L == tubeLocationMap'
<1>5. tubeID' = [id |-> n, place |-> tag] /\ L = Assign(tubeLocationMap, tag, n)
  <2>1. Lookup(tubeLocationMap, tag) = n
    BY <1>4 DEF Lookup
  <2>2. tubeID' = [id |-> n, place |-> tag]
    BY <1>2, <2>1
  <2> HIDE DEF n
  <2>3. tubeID'.id = n
    BY <2>2
  <2> QED  BY <1>2, <2>2, <2>3
<1>6. Assigns(L, tubeLocationMap, tag, n)
  <2> HIDE DEF n, L
  <2> QED  BY <1>5, Assigned
<1>7. /\ DOMAIN L = DOMAIN tubeLocationMap
      /\ \A t \in DOMAIN tubeLocationMap : L[t] = tubeLocationMap[t]
  <2>1. tag \in DOMAIN tubeLocationMap
    BY <1>4
  <2> HIDE DEF L
  <2> QED  BY <1>6, <2>1 DEF Assigns
<1>8. TypeOK'
  <2>1. tubeID'.id \in Nat
    <3>1. n \in Nat
      BY <1>1, <1>4 DEF TypeOK
    <3> HIDE DEF n
    <3> QED  BY <1>5, <3>1
  <2>2. \A t \in DOMAIN tubeLocationMap' : tubeLocationMap'[t] \in Nat \ {0}
    BY <1>1, <1>7 DEF TypeOK
  <2> QED  BY <1>1, <2>1, <2>2 DEF TypeOK
<1>9. PendingOK'
  <2>1. Orderly(pending')
    BY <1>1 DEF PendingOK
  <2>2. Orderly(pending)'
    BY <1>1, <2>1, SameOrder
  <2> QED  BY <1>1, <2>2 DEF PendingOK
<1>10. Numbered'
  <2>1. \A t \in Touchables : Filed(t)'
    BY <1>1, <1>4, <1>7 DEF Filed, LocationOf
  <2>2. \A id \in 1 .. totalNumPMTs :
          /\ id \in DOMAIN tubeIDMap /\ id \in DOMAIN tubeCylLocation
          /\ tubeIDMap[id] \in Touchables /\ tubeLocationMap[tubeIDMap[id]] = id
    BY <1>1 DEF Numbered
  <2>3. \A id \in 1 .. totalNumPMTs : tubeLocationMap'[tubeIDMap[id]] = id
    BY <1>4, <1>7, <2>2
  <2> QED  BY <1>1, <1>3, <2>1, <2>2, <2>3 DEF Numbered, Awaited
<1>11. Measured'
  <2>1. dim' = dim /\ HalfLength' = HalfLength
    BY <1>1, SameTank
  <2> QED  BY <1>1, <2>1 DEF Measured, SheetIn, RootIn, BarrelIn, LeadsToSheet
<1>12. Asked'
  <2>1. tubeID' = [id |-> tubeLocationMap'[tag], place |-> tag]
    BY <1>4, <1>5, <1>7
  <2>2. tag \in Touchables'
    BY <1>3
  <2> QED  BY <1>1, <2>1, <2>2 DEF Asked
<1>13. OnTheWay' /\ EntryWritten'
  BY <1>1 DEF OnTheWay, EntryWritten
<1> QED  BY <1>8, <1>9, <1>10, <1>11, <1>12, <1>13 DEF IInv

\* Nothing that the invariant mentions changes in a stuttering step.
LEMMA StutterInv == IInv /\ UNCHANGED vars => IInv'
<1> SUFFICES ASSUME IInv, UNCHANGED vars PROVE IInv'
  OBVIOUS
<1>1. /\ TypeOK /\ PendingOK /\ OnTheWay /\ Numbered /\ Measured /\ EntryWritten /\ Asked
      /\ UNCHANGED <<builds, geometry, phase, pending, replicaNoString, totalNumPMTs,
                     tubeLocationMap, tubeIDMap, tubeCylLocation, zmin, zmax, wc, entry, tubeID>>
  BY DEF IInv, vars, mapVars, geomVars
<1>2. dim' = dim /\ Touchables' = Touchables /\ HalfLength' = HalfLength
  BY <1>1, SameTank
<1>3. TypeOK'
  BY <1>1 DEF TypeOK
<1>4. PendingOK'
  <2>1. Orderly(pending')
    BY <1>1 DEF PendingOK
  <2>2. Orderly(pending)'
    BY <1>1, <2>1, SameOrder
  <2> QED  BY <1>1, <2>2 DEF PendingOK
<1>5. Numbered'
  BY <1>1, <1>2 DEF Numbered, Awaited, Filed, LeadsOn, Leads, LocationOf
<1>6. Measured'
  BY <1>1, <1>2 DEF Measured, SheetIn, RootIn, BarrelIn, LeadsToSheet
<1>7. OnTheWay' /\ EntryWritten' /\ Asked'
  BY <1>1, <1>2 DEF OnTheWay, EntryWritten, Asked, NoTube
<1> QED  BY <1>3, <1>4, <1>5, <1>6, <1>7 DEF IInv

\* Every step keeps it.
LEMMA NextInv == IInv /\ [Next]_vars => IInv'
BY ConstructInv, DescribeInv, SecondTraversalInv, GetWCGeomInv, FillGeometryTupleInv,
   GetTubeIDInv, StutterInv DEF Next

\* The invariant holds in every state that Construct and the run reach.
THEOREM Invariant == Spec => []IInv
BY InitInv, NextInv, PTL DEF Spec

\* The maps, the array and the measures have the types they are declared with.
THEOREM TypesHold == Spec => []TypeOK
<1>1. IInv => TypeOK
  BY DEF IInv
<1> QED  BY <1>1, Invariant, PTL

(***************************************************************************)
(* What a reader of the file relies on.                                    *)
(***************************************************************************)
\* Once the geometry is ready every tube is filed, and each ID is one's.
LEMMA AllFiled ==
  ASSUME Numbered, phase = "ready"
  PROVE  /\ \A t \in Touchables :
              /\ t \in DOMAIN tubeLocationMap /\ tubeLocationMap[t] \in 1 .. totalNumPMTs
              /\ tubeIDMap[tubeLocationMap[t]] = t
              /\ tubeCylLocation[tubeLocationMap[t]] = LocationOf(t)
         /\ \A id \in 1 .. totalNumPMTs :
              tubeIDMap[id] \in Touchables /\ tubeLocationMap[tubeIDMap[id]] = id
BY DEF Numbered, Awaited, Filed

\* Every PMT of the present geometry has an ID of its own in 1 .. totalNumPMTs, and there
\* is no other ID, whatever geometries were built before (DescribeAndRegisterPMT).
THEOREM TubesAreNumbered == Spec => []TubesNumbered
<1>1. IInv => TubesNumbered
  <2> SUFFICES ASSUME IInv, phase = "ready"
               PROVE  /\ \A tag \in Touchables :
                           /\ tag \in DOMAIN tubeLocationMap
                           /\ tubeLocationMap[tag] \in 1 .. totalNumPMTs
                      /\ \A id \in 1 .. totalNumPMTs :
                           \E tag \in Touchables : tubeLocationMap[tag] = id
                      /\ \A s, t \in Touchables :
                           tubeLocationMap[s] = tubeLocationMap[t] => s = t
    BY DEF TubesNumbered
  <2>1. Numbered
    BY DEF IInv
  <2> QED  BY <2>1, AllFiled
<1> QED  BY <1>1, Invariant, PTL

\* The row of a hit's tube ID in the entry gives the place of the touchable that was hit,
\* and its part of the cylinder (GetTubeID, FillGeometryTuple).
THEOREM HitsLeadToTheirTubes == Spec => []HitLeadsToItsTube
<1>1. IInv => HitLeadsToItsTube
  <2> SUFFICES ASSUME IInv, tubeID # NoTube
               PROVE  /\ tubeID.id \in DOMAIN entry.pmtInfos
                      /\ entry.pmtInfos[tubeID.id].place = tubeID.place
                      /\ entry.pmtInfos[tubeID.id].location = LocationOf(tubeID.place)
    BY DEF HitLeadsToItsTube, LocationOf
  <2>1. phase = "ready" /\ Numbered /\ EntryWritten
    BY DEF IInv, Asked
  <2>2. PICK t \in Touchables : tubeID = [id |-> tubeLocationMap[t], place |-> t]
    BY DEF IInv, Asked
  <2> DEFINE n == tubeLocationMap[t]
             rows == [id \in 1 .. totalNumPMTs |->
               [pmtId |-> id, location |-> tubeCylLocation[id], place |-> tubeIDMap[id]]]
  <2>3. n \in 1 .. totalNumPMTs /\ tubeIDMap[n] = t /\ tubeCylLocation[n] = LocationOf(t)
    BY <2>1, AllFiled
  <2>4. entry.pmtInfos = rows
    <3> DEFINE e == [wc |-> [wc EXCEPT !.offset = @ \div cm], nPMTs |-> totalNumPMTs, pmtInfos |-> rows]
    <3>1. entry = e
      BY <2>1 DEF EntryWritten
    <3> HIDE DEF rows
    <3>2. e.pmtInfos = rows
      OBVIOUS
    <3> QED  BY <3>1, <3>2
  <2>5. tubeID.id = n /\ tubeID.place = t
    <3> HIDE DEF n
    <3>1. tubeID = [id |-> n, place |-> t]
      BY <2>2 DEF n
    <3> QED  BY <3>1
  <2> HIDE DEF n
  <2>6. DOMAIN rows = 1 .. totalNumPMTs
        /\ rows[n] = [pmtId |-> n, location |-> tubeCylLocation[n], place |-> tubeIDMap[n]]
    BY <2>3
  <2> HIDE DEF rows
  <2>7. rows[n].location = tubeCylLocation[n] /\ rows[n].place = tubeIDMap[n]
    BY <2>6
  <2> QED  BY <2>3, <2>4, <2>5, <2>6, <2>7
<1> QED  BY <1>1, Invariant, PTL

\* There are as many IDs as tubes.
LEMMA CountIsTubes ==
  ASSUME Numbered, phase = "ready", totalNumPMTs \in Nat
  PROVE  Cardinality(Touchables) = totalNumPMTs
<1> DEFINE f == [id \in 1 .. totalNumPMTs |-> tubeIDMap[id]]
           T == Touchables
           n == totalNumPMTs
<1>1. /\ \A t \in T : tubeLocationMap[t] \in 1 .. n /\ tubeIDMap[tubeLocationMap[t]] = t
      /\ \A id \in 1 .. n : tubeIDMap[id] \in T /\ tubeLocationMap[tubeIDMap[id]] = id
  BY AllFiled
<1> HIDE DEF T
<1>2. f \in Bijection(1 .. n, T)
  <2>1. f \in [1 .. n -> T]
    BY <1>1
  <2>2. \A a, b \in 1 .. n : f[a] = f[b] => a = b
    BY <1>1
  <2>3. \A t \in T : \E a \in 1 .. n : f[a] = t
    BY <1>1
  <2> HIDE DEF f, n
  <2>4. f \in Injection(1 .. n, T)
    BY <2>1, <2>2 DEF Injection, IsInjective
  <2>5. f \in Surjection(1 .. n, T)
    BY <2>1, <2>3 DEF Surjection
  <2> QED  BY <2>4, <2>5 DEF Bijection
<1>3. ExistsBijection(1 .. n, T)
  BY <1>2 DEF ExistsBijection
<1>4. IsFiniteSet(1 .. n) /\ Cardinality(1 .. n) = n
  BY FS_Interval
<1>5. Cardinality(T) = Cardinality(1 .. n)
  <2> HIDE DEF n
  <2> QED  BY <1>3, <1>4, FS_Bijection
<1> QED  BY <1>4, <1>5 DEF T

\* The entry describes the tank that stands: centred, as long as its sheets are apart, and
\* with all its tubes (GetWCGeom moves one extremity at a visit).
THEOREM EntryDescribesTheTank == Spec => []EntryDescribesTank
<1>1. IInv => EntryDescribesTank
  <2> SUFFICES ASSUME IInv, phase = "ready"
               PROVE  /\ entry.wc.offset = 0 /\ zmin = -zmax
                      /\ entry.wc.length = dim.WCBarrelLength + dim.WCCapLength
                      /\ entry.nPMTs = Cardinality(Touchables)
    BY DEF EntryDescribesTank
  <2>1. TypeOK /\ PendingOK /\ Numbered /\ Measured /\ EntryWritten
    BY DEF IInv
  <2>2. geometry \in Geometry /\ totalNumPMTs \in Nat /\ pending = <<>>
    BY <2>1 DEF TypeOK, PendingOK
  <2>3. /\ ~RootIn(pending) /\ ~BarrelIn(pending)
        /\ ~SheetIn(pending, 0) /\ ~SheetIn(pending, 1)
    BY <2>2 DEF RootIn, BarrelIn, SheetIn
  <2>4. /\ zmin = -HalfLength /\ zmax = HalfLength /\ wc.offset = 0
        /\ wc.length = dim.WCBarrelLength + dim.WCCapLength
    BY <2>1, <2>3 DEF Measured
  <2>5. HalfLength \in Nat
    BY <2>2, Dimensions
  <2>6. /\ entry.wc = [wc EXCEPT !.offset = @ \div cm]
        /\ entry.nPMTs = totalNumPMTs
    <3> DEFINE rows == [id \in 1 .. totalNumPMTs |->
                 [pmtId |-> id, location |-> tubeCylLocation[id], place |-> tubeIDMap[id]]]
    <3>1. entry = [wc |-> [wc EXCEPT !.offset = @ \div cm], nPMTs |-> totalNumPMTs,
                   pmtInfos |-> rows]
      BY <2>1 DEF EntryWritten
    <3> HIDE DEF rows
    <3> QED  BY <3>1
  <2>7. Cardinality(Touchables) = totalNumPMTs
    BY <2>1, <2>2, CountIsTubes
  <2>8. entry.wc.offset = 0 \div 10 /\ entry.wc.length = wc.length
    BY <2>1, <2>4, <2>6 DEF TypeOK, cm
  <2>9. entry.wc.offset = 0
    BY <2>8
  <2> QED  BY <2>4, <2>5, <2>6, <2>7, <2>8, <2>9
<1> QED  BY <1>1, Invariant, PTL

\* No track starts or stops in a volume without a code (EventFindStartingVolume): a visit
\* has a name that the code knows, or a volume that its daughters fill.
THEOREM VolumesAreKnown == Spec => []VolumesKnown
<1>1. IInv => VolumesKnown
  <2> SUFFICES ASSUME IInv, pending # <<>>, NEW name, name = Head(pending).name, ~Filled(name)
               PROVE  -3 \notin {EventFindStartingVolume(name), EventFindStoppingVolume(name)}
    BY DEF VolumesKnown
  <2>1. geometry \in Geometry /\ pending \in Seq(Visit)
    BY DEF IInv, TypeOK, Visit
  <2>2. name \in Volume
    <3>1. Head(pending) \in Visit
      BY <2>1
    <3> QED  BY <3>1 DEF Visit
  <2>3. name \notin {"WC", "WCBarrelAnnulus", "WCBarrelRing"}
    BY <2>1, Dimensions DEF Filled
  <2>4. EventFindStartingVolume(name) \in {10, -2, 11, 12}
    BY <2>2, <2>3 DEF Volume, EventFindStartingVolume, NameHasPMTCapOrCell, WithPMT, WithCap,
                      WithCell, PMTGlass
  <2>5. EventFindStoppingVolume(name) \in {0, 10, -2, 11, 12}
    BY <2>4 DEF EventFindStoppingVolume
  <2> QED  BY <2>4, <2>5
<1> QED  BY <1>1, Invariant, PTL
=============================================================================
