----------------------------- MODULE Fat32Proofs -----------------------------
(***************************************************************************)
(* The search and the choice of Fat32, for volumes of any size, any sector *)
(* size and any limits.                                                    *)
(*                                                                         *)
(* The number of sectors that a number of clusters requires grows with it  *)
(* (RequiredGrows), and a volume holds the clusters exactly when it has    *)
(* these sectors (HoldsIffRequired).  So the largest number that fits lies *)
(* between low and high all the time, and the unit chosen is the best of   *)
(* those looked at.                                                        *)
(***************************************************************************)
EXTENDS Fat32, TLAPS

\* Quotient and remainder.
LEMMA DivMod ==
  ASSUME NEW a \in Nat, NEW s \in Nat \ {0}
  PROVE  /\ a \div s \in Nat
         /\ a % s = a - s * (a \div s)
         /\ s * (a \div s) <= a
         /\ a < s * (a \div s) + s
<1>1. a \div s \in Nat BY SMT
<1>2. a % s = a - s * (a \div s) BY SMT
<1>3. s * (a \div s) <= a BY SMT
<1>4. a < s * (a \div s) + s BY SMT
<1> QED BY <1>1, <1>2, <1>3, <1>4

\* What divides without a remainder is a multiple.
LEMMA Aligned ==
  ASSUME NEW a \in Nat, NEW s \in Nat \ {0}, a % s = 0
  PROVE  a \div s \in Nat /\ a = (a \div s) * s
<1>1. a % s = a - s * (a \div s) BY DivMod
<1>2. a \div s \in Nat BY DivMod
<1>3. s * (a \div s) = (a \div s) * s BY <1>2, SMT
<1> QED BY <1>1, <1>2, <1>3, SMT

\* Whole sectors fit a size if and only if their count fits its sector count.
LEMMA FitsBySectors ==
  ASSUME NEW n \in Nat, NEW size \in Nat, NEW s \in Nat \ {0}
  PROVE  n * s <= size <=> n <= size \div s
<1> DEFINE q == size \div s
<1>1. q \in Nat /\ s * q <= size /\ size < s * q + s BY DivMod
<1> HIDE DEF q
<1>2. n <= q => n * s <= size BY <1>1, SMT
<1>3. n >= q + 1 => n * s >= s * q + s BY <1>1, SMT
<1> QED BY <1>1, <1>2, <1>3, SMT DEF q

----------------------------------------------------------------------------
\* requiredSectors for a unit of k sectors.
Required(clusters, k) ==
  ReservedSectors + FatCount * fatSectors(clusters) + clusters * k

\* The table is the smallest number of sectors that holds the entries.
LEMMA TableHolds ==
  ASSUME sectorSize \in Nat \ {0}, NEW c \in Nat
  PROVE  /\ fatSectors(c) \in Nat
         /\ (c + 2) * FatEntryBytes <= fatSectors(c) * sectorSize
         /\ \A fat \in Nat : fat * sectorSize >= (c + 2) * FatEntryBytes => fatSectors(c) <= fat
<1> DEFINE s == sectorSize
           x == (c + 2) * FatEntryBytes
           a == x + s - 1
           q == a \div s
<1>1. FatEntryBytes \in Nat BY FatAssumption
<1>2. x \in Nat BY <1>1, SMT
<1> HIDE DEF x
<1>3. a \in Nat BY <1>2
<1>4. fatSectors(c) = q BY DEF fatSectors, x
<1> HIDE DEF a
<1>5. q \in Nat /\ s * q <= a /\ a < s * q + s BY <1>3, DivMod
<1> HIDE DEF q, s
<1>6. s \in Nat \ {0} BY DEF s
<1>7. x <= q * s
  <2>1. s * q = q * s /\ s * q \in Nat BY <1>5, <1>6, SMT
  <2>2. a = x + s - 1 BY DEF a
  <2> QED BY <2>1, <2>2, <1>2, <1>5, <1>6
<1>8. ASSUME NEW fat \in Nat, fat * s >= x PROVE q <= fat
  <2>1. a < fat * s + s
    <3>1. fat * s \in Nat BY <1>6, SMT
    <3> QED BY <3>1, <1>2, <1>6, <1>8 DEF a
  <2>2. s * q < fat * s + s
    <3>1. fat * s \in Nat /\ s * q \in Nat BY <1>5, <1>6, SMT
    <3> QED BY <3>1, <2>1, <1>3, <1>5, <1>6
  <2>3. fat + 1 <= q => fat * s + s <= s * q BY <1>5, <1>6, SMT
  <2>4. fat * s + s \in Nat /\ s * q \in Nat BY <1>5, <1>6, SMT
  <2> QED BY <2>2, <2>3, <2>4, <1>5
<1> QED BY <1>4, <1>5, <1>7, <1>8 DEF x, s

\* More clusters never need fewer sectors, and one more cluster needs more.
LEMMA RequiredGrows ==
  ASSUME sectorSize \in Nat \ {0}, NEW c \in Nat, NEW d \in Nat, c <= d, NEW k \in Nat
  PROVE  /\ Required(c, k) \in Nat /\ Required(d, k) \in Nat
         /\ Required(c, k) <= Required(d, k)
<1>1. fatSectors(c) \in Nat /\ fatSectors(d) \in Nat BY TableHolds
<1>2. fatSectors(c) <= fatSectors(d)
  <2>1. (d + 2) * FatEntryBytes <= fatSectors(d) * sectorSize BY TableHolds
  <2>2. (c + 2) * FatEntryBytes <= (d + 2) * FatEntryBytes BY FatAssumption, SMT
  <2>3. fatSectors(d) * sectorSize >= (c + 2) * FatEntryBytes
    <3> DEFINE y == (c + 2) * FatEntryBytes
               z == (d + 2) * FatEntryBytes
               w == fatSectors(d) * sectorSize
    <3>1. y \in Nat /\ z \in Nat /\ w \in Nat BY <1>1, FatAssumption, SMT
    <3>2. y <= z /\ z <= w BY <2>1, <2>2
    <3> HIDE DEF y, z, w
    <3>3. w >= y BY <3>1, <3>2
    <3> QED BY <3>3 DEF w, y
  <2> QED BY <2>3, <1>1, TableHolds
<1> DEFINE p == fatSectors(c)  q == fatSectors(d)
<1> HIDE DEF p, q
<1>3. FatCount * p \in Nat /\ FatCount * q \in Nat /\ FatCount * p <= FatCount * q
  <2>1. FatCount \in Nat /\ p \in Nat /\ q \in Nat /\ p <= q BY <1>1, <1>2, FatAssumption DEF p, q
  <2> QED BY <2>1, SMT
<1>4. c * k \in Nat /\ d * k \in Nat /\ c * k <= d * k BY SMT
<1>5. Required(c, k) = ReservedSectors + FatCount * p + c * k BY DEF Required, p
<1>6. Required(d, k) = ReservedSectors + FatCount * q + d * k BY DEF Required, q
<1> DEFINE e == FatCount * p  f == FatCount * q  g == c * k  h == d * k
<1> HIDE DEF e, f, g, h
<1>7. e \in Nat /\ f \in Nat /\ e <= f /\ g \in Nat /\ h \in Nat /\ g <= h
  BY <1>3, <1>4 DEF e, f, g, h
<1>8. Required(c, k) = ReservedSectors + e + g /\ Required(d, k) = ReservedSectors + f + h
  BY <1>5, <1>6 DEF e, f, g, h
<1> QED BY <1>7, <1>8, FatAssumption

\* A volume holds clusters if and only if it has the sectors they require.
LEMMA HoldsIffRequired ==
  ASSUME sectorSize \in Nat \ {0}, volumeSize \in Nat, volumeSize % sectorSize = 0,
         NEW k \in Nat, NEW c \in Nat
  PROVE  Holds(c, k * sectorSize) <=> Required(c, k) <= totalSectors
<1> DEFINE s == sectorSize
           t == totalSectors
           need == fatSectors(c)
           R == ReservedSectors
           F == FatCount
<1>1. t \in Nat /\ volumeSize = t * s BY Aligned DEF totalSectors
<1>2. R \in Nat /\ F \in Nat \ {0} BY FatAssumption
<1>3. need \in Nat BY TableHolds
<1>4. ASSUME NEW fat \in Nat
      PROVE  (R + F * fat) * s + c * (k * s) <= volumeSize <=> R + F * fat + c * k <= t
  <2> DEFINE n == R + F * fat + c * k
  <2>1. (R + F * fat) * s + c * (k * s) = n * s BY <1>2, SMT
  <2>2. n \in Nat BY <1>2, SMT
  <2> HIDE DEF n
  <2>3. n * s <= t * s <=> n <= t BY <1>1, <2>2, SMT
  <2>4. (R + F * fat) * s + c * (k * s) <= volumeSize <=> n <= t BY <1>1, <2>1, <2>3
  <2> QED BY <2>4 DEF n
<1>5. Required(c, k) = R + F * need + c * k BY DEF Required
<1> HIDE DEF t, need
<1>6. ASSUME NEW fat \in 0 .. t, fat * s >= (c + 2) * FatEntryBytes,
             R + F * fat + c * k <= t
      PROVE  R + F * need + c * k <= t
  <2>1. fat \in Nat BY <1>1
  <2>2. need <= fat BY <1>6, <2>1, TableHolds DEF need
  <2>3. F * need <= F * fat BY <1>2, <1>3, <2>1, <2>2, SMT
  <2>4. F * need \in Nat /\ F * fat \in Nat /\ c * k \in Nat BY <1>2, <1>3, <2>1, SMT
  <2> DEFINE e == F * need  f == F * fat  g == c * k
  <2>5. e <= f /\ e \in Nat /\ f \in Nat /\ g \in Nat /\ R + f + g <= t BY <2>3, <2>4, <1>6
  <2> HIDE DEF e, f, g
  <2>6. R + e + g <= t BY <2>5, <1>1, <1>2
  <2> QED BY <2>6 DEF e, g
<1>7. ASSUME R + F * need + c * k <= t
      PROVE  need \in 0 .. t /\ need * s >= (c + 2) * FatEntryBytes
  <2>1. need * s >= (c + 2) * FatEntryBytes
    <3>1. (c + 2) * FatEntryBytes <= need * s BY TableHolds DEF need
    <3>2. (c + 2) * FatEntryBytes \in Nat /\ need * s \in Nat BY <1>3, FatAssumption, SMT
    <3> DEFINE y == (c + 2) * FatEntryBytes  w == need * s
    <3>3. y <= w /\ y \in Nat /\ w \in Nat BY <3>1, <3>2
    <3> HIDE DEF y, w
    <3>4. w >= y BY <3>3
    <3> QED BY <3>4 DEF w, y
  <2>2. need <= F * need /\ F * need \in Nat /\ c * k \in Nat BY <1>2, <1>3, SMT
  <2> DEFINE e == F * need  g == c * k
  <2>3. need <= e /\ e \in Nat /\ g \in Nat /\ R + e + g <= t BY <2>2, <1>7
  <2> HIDE DEF e, g
  <2>4. need <= t BY <2>3, <1>1, <1>2, <1>3
  <2> QED BY <2>1, <2>4, <1>3, <1>1
<1>8. Holds(c, k * s) <=>
        \E fat \in 0 .. t : fat * s >= (c + 2) * FatEntryBytes /\ R + F * fat + c * k <= t
  <2>1. \A fat \in 0 .. t : fat \in Nat BY <1>1
  <2> QED BY <1>4, <2>1 DEF Holds, t
<1>9. (\E fat \in 0 .. t : fat * s >= (c + 2) * FatEntryBytes /\ R + F * fat + c * k <= t)
        <=> R + F * need + c * k <= t
  BY <1>6, <1>7
<1> QED BY <1>5, <1>8, <1>9 DEF t

----------------------------------------------------------------------------
\* The units looked at that make a FAT32.
Seen == { AllocationUnits[i] : i \in { j \in 1 .. next - 1 : Legal(AllocationUnits[j]) } }

Accepted == isSupportedSectorSize(sectorSize) /\ volumeSize \in 1 .. MaximumVolumeSize

Whole == volumeSize % sectorSize = 0

LocationInv ==
  /\ pc \in {"Unit", "Search", "Judge"} => Accepted
  /\ pc \in {"Search", "Judge"} => next <= Len(AllocationUnits) /\ UnitAllowed(Unit)

\* The count lies in low .. high; in the end both are the count.
SearchInv ==
  /\ pc = "Search" =>
       /\ Whole
       /\ low > 0 => requiredSectors(low) <= totalSectors
       /\ ~ (requiredSectors(high + 1) <= totalSectors)
  /\ pc = "Judge" =>
       IF Whole THEN /\ low > 0 => requiredSectors(low) <= totalSectors
                     /\ ~ (requiredSectors(low + 1) <= totalSectors)
                ELSE low = 0

ChoiceInv ==
  /\ pc = "Check" => next = 1 /\ best = 0
  /\ pc \in {"Unit", "Search", "Judge"} => IsBest(best, Seen)
  /\ ChosenIsBest

Inv == TypeOK /\ LocationInv /\ SearchInv /\ ChoiceInv

\* A unit that is allowed is a number of sectors.
LEMMA UnitInSectors ==
  ASSUME TypeOK, Accepted, NEW i \in DOMAIN AllocationUnits, UnitAllowed(AllocationUnits[i])
  PROVE  /\ sectorSize \in Nat \ {0} /\ volumeSize \in Nat
         /\ AllocationUnits[i] \div sectorSize \in Nat \ {0}
         /\ AllocationUnits[i] = (AllocationUnits[i] \div sectorSize) * sectorSize
<1> DEFINE u == AllocationUnits[i]  k == u \div sectorSize
<1>1. sectorSize \in Nat \ {0} BY SectorAssumption DEF Accepted, isSupportedSectorSize
<1>2. volumeSize \in Nat BY FatAssumption DEF TypeOK
<1>3. u \in Nat \ {0} BY FatAssumption
<1>4. u % sectorSize = 0 BY DEF UnitAllowed
<1> HIDE DEF u
<1>5. k \in Nat /\ u = k * sectorSize BY <1>1, <1>3, <1>4, Aligned
<1> HIDE DEF k
<1>6. k # 0 BY <1>1, <1>3, <1>5, SMT
<1> QED BY <1>1, <1>2, <1>5, <1>6 DEF u, k

\* The unit that is looked at.
LEMMA CurrentUnit ==
  ASSUME TypeOK, Accepted, next <= Len(AllocationUnits), UnitAllowed(Unit)
  PROVE  /\ next \in DOMAIN AllocationUnits
         /\ sectorSize \in Nat \ {0} /\ volumeSize \in Nat
         /\ sectorsPerCluster \in Nat \ {0}
         /\ Unit = sectorsPerCluster * sectorSize
         /\ \A c : requiredSectors(c) = Required(c, sectorsPerCluster)
<1>1. next \in DOMAIN AllocationUnits
  <2>1. DOMAIN AllocationUnits = 1 .. Len(AllocationUnits) BY FatAssumption
  <2> QED BY <2>1, FatAssumption DEF TypeOK
<1>2. /\ sectorSize \in Nat \ {0} /\ volumeSize \in Nat
      /\ Unit \div sectorSize \in Nat \ {0}
      /\ Unit = (Unit \div sectorSize) * sectorSize
  BY <1>1, UnitInSectors DEF Unit
<1>3. \A c : requiredSectors(c) = Required(c, sectorsPerCluster)
  BY DEF requiredSectors, Required
<1> QED BY <1>1, <1>2, <1>3 DEF sectorsPerCluster

\* What the count says of the unit: every limit up to it is held, none above.
LEMMA CountDecides ==
  ASSUME TypeOK, Accepted, next <= Len(AllocationUnits), UnitAllowed(Unit), Whole,
         low > 0 => requiredSectors(low) <= totalSectors,
         ~ (requiredSectors(low + 1) <= totalSectors),
         NEW c \in Nat \ {0}
  PROVE  Holds(c, Unit) <=> c <= low
<1> DEFINE k == sectorsPerCluster
<1>1. /\ sectorSize \in Nat \ {0} /\ volumeSize \in Nat /\ k \in Nat /\ Unit = k * sectorSize
      /\ \A d : requiredSectors(d) = Required(d, k)
  BY CurrentUnit
<1>2. totalSectors \in Nat BY <1>1, DivMod DEF totalSectors
<1>3. low \in Nat BY DEF TypeOK
<1>4. Holds(c, Unit) <=> Required(c, k) <= totalSectors
  BY <1>1, HoldsIffRequired DEF Whole
<1> HIDE DEF k
<1>5. ASSUME c <= low PROVE Required(c, k) <= totalSectors
  <2>1. Required(c, k) \in Nat /\ Required(low, k) \in Nat
        /\ Required(c, k) <= Required(low, k)
    BY <1>1, <1>3, <1>5, RequiredGrows
  <2>2. Required(low, k) <= totalSectors BY <1>1, <1>3, <1>5
  <2> QED BY <2>1, <2>2, <1>2
<1>6. ASSUME ~ (c <= low) PROVE ~ (Required(c, k) <= totalSectors)
  <2>1. low + 1 \in Nat /\ low + 1 <= c BY <1>3, <1>6
  <2>2. Required(low + 1, k) \in Nat /\ Required(c, k) \in Nat
        /\ Required(low + 1, k) <= Required(c, k)
    BY <1>1, <2>1, RequiredGrows
  <2>3. ~ (Required(low + 1, k) <= totalSectors) BY <1>1
  <2> QED BY <2>2, <2>3, <1>2
<1> QED BY <1>4, <1>5, <1>6

\* A larger unit than all seen so far is taken if it is modest, or the first.
LEMMA AddUnit ==
  ASSUME NEW S \in SUBSET (Nat \ {0}), NEW u \in Nat \ {0}, NEW b,
         \A x \in S : x < u, IsBest(b, S)
  PROVE  IsBest(IF b = 0 \/ u <= Preferred THEN u ELSE b, S \cup {u})
<1>1. CASE u <= Preferred
  BY <1>1 DEF IsBest
<1>2. CASE ~ (u <= Preferred) /\ S = {}
  BY <1>2 DEF IsBest
<1>3. CASE ~ (u <= Preferred) /\ S # {}
  <2>1. b \in S /\ b # 0 BY <1>3 DEF IsBest
  <2>2. { x \in S \cup {u} : x <= Preferred } = { x \in S : x <= Preferred } BY <1>3
  <2>3. b \in Nat /\ b < u BY <2>1
  <2> QED BY <1>3, <2>1, <2>2, <2>3 DEF IsBest
<1> QED BY <1>1, <1>2, <1>3

----------------------------------------------------------------------------
\* Nothing computed from the volume alone changes.
LEMMA VolumeKept ==
  ASSUME UNCHANGED << volumeSize, sectorSize >>
  PROVE  /\ totalSectors' = totalSectors
         /\ Accepted' <=> Accepted
         /\ Whole' <=> Whole
         /\ Preferred' = Preferred
         /\ \A unit : UnitAllowed(unit)' <=> UnitAllowed(unit)
         /\ \A unit : Legal(unit)' <=> Legal(unit)
         /\ LegalUnits' = LegalUnits
<1>1. totalSectors' = totalSectors BY DEF totalSectors
<1>2. Accepted' <=> Accepted BY DEF Accepted
<1>3. Whole' <=> Whole BY DEF Whole
<1>4. Preferred' = Preferred BY DEF Preferred
<1>5. \A unit : UnitAllowed(unit)' <=> UnitAllowed(unit) BY DEF UnitAllowed
<1>6. \A c, unit : Holds(c, unit)' <=> Holds(c, unit) BY <1>1 DEF Holds
<1>7. \A unit : Legal(unit)' <=> Legal(unit) BY <1>5, <1>6 DEF Legal
<1>8. LegalUnits' = LegalUnits BY <1>7 DEF LegalUnits
<1> QED BY <1>1, <1>2, <1>3, <1>4, <1>5, <1>7, <1>8

\* The invariant holds of a volume nobody has looked at.
LEMMA InvInit == Init => Inv
<1> SUFFICES ASSUME Init PROVE Inv OBVIOUS
<1>1. Len(AllocationUnits) \in Nat BY FatAssumption
<1>2. TypeOK BY <1>1 DEF Init, TypeOK
<1> QED BY <1>2 DEF Init, Inv, LocationInv, SearchInv, ChoiceInv, ChosenIsBest

\* The sectors required of the current unit stay the same within a search.
LEMMA RequiredKept ==
  ASSUME UNCHANGED << volumeSize, sectorSize, next >>
  PROVE  \A c : requiredSectors(c)' = requiredSectors(c)
BY DEF requiredSectors, fatSectors, sectorsPerCluster, Unit

\* As long as the unit and what was chosen stay, so does the choice so far.
LEMMA ChoiceKept ==
  ASSUME UNCHANGED << volumeSize, sectorSize, next, best >>
  PROVE  IsBest(best, Seen)' <=> IsBest(best, Seen)
<1>1. Preferred' = Preferred /\ \A unit : Legal(unit)' <=> Legal(unit) BY VolumeKept
<1>2. Seen' = Seen BY <1>1 DEF Seen
<1> QED BY <1>1, <1>2 DEF IsBest

\* The search starts with bounds around the count.
LEMMA CountStarts ==
  ASSUME TypeOK, Accepted, next <= Len(AllocationUnits), UnitAllowed(Unit), Whole
  PROVE  LET top == (totalSectors - ReservedSectors) \div sectorsPerCluster
         IN /\ totalSectors > ReservedSectors =>
                 top \in Nat /\ ~ (requiredSectors(top + 1) <= totalSectors)
            /\ ~ (totalSectors > ReservedSectors) => ~ (requiredSectors(1) <= totalSectors)
<1> DEFINE k == sectorsPerCluster  t == totalSectors  R == ReservedSectors
           room == t - R
           top == room \div k
<1>1. /\ sectorSize \in Nat \ {0} /\ volumeSize \in Nat /\ k \in Nat \ {0}
      /\ \A d : requiredSectors(d) = Required(d, k)
  BY CurrentUnit
<1>2. t \in Nat BY <1>1, DivMod DEF totalSectors
<1>3. R \in Nat /\ FatCount \in Nat BY FatAssumption
<1> HIDE DEF k, t
<1>4. ASSUME NEW c \in Nat PROVE Required(c, k) >= R + c * k /\ Required(c, k) \in Nat
  <2>1. fatSectors(c) \in Nat BY <1>1, TableHolds
  <2>2. FatCount * fatSectors(c) \in Nat /\ c * k \in Nat BY <1>1, <1>3, <2>1, SMT
  <2> QED BY <2>2, <1>3 DEF Required
<1>5. ASSUME t > R PROVE top \in Nat /\ ~ (Required(top + 1, k) <= t)
  <2>1. room \in Nat BY <1>2, <1>3, <1>5
  <2>2. top \in Nat /\ room < k * top + k
    <3> HIDE DEF room
    <3> QED BY <1>1, <2>1, DivMod
  <2> HIDE DEF top
  <2>3. (top + 1) * k = k * top + k /\ (top + 1) * k \in Nat BY <1>1, <2>2, SMT
  <2>4. top + 1 \in Nat BY <2>2
  <2>5. Required(top + 1, k) >= R + (top + 1) * k /\ Required(top + 1, k) \in Nat
    BY <1>4, <2>4
  <2> DEFINE product == (top + 1) * k
  <2>6. product \in Nat /\ room < product /\ Required(top + 1, k) >= R + product
    BY <2>2, <2>3, <2>5
  <2> HIDE DEF product
  <2>7. t < R + product BY <2>6, <1>2, <1>3 DEF room
  <2> QED BY <2>2, <2>5, <2>6, <2>7, <1>2, <1>3
<1>6. ASSUME ~ (t > R) PROVE ~ (Required(1, k) <= t)
  <2>1. Required(1, k) >= R + 1 * k /\ Required(1, k) \in Nat BY <1>4
  <2> QED BY <2>1, <1>1, <1>2, <1>3, <1>6
<1>7. requiredSectors(top + 1) = Required(top + 1, k) /\ requiredSectors(1) = Required(1, k)
  BY <1>1
<1> QED BY <1>5, <1>6, <1>7 DEF t, k

\* With one more unit looked at, it is seen if it makes a FAT32.
LEMMA SeenGrows ==
  ASSUME TypeOK, next <= Len(AllocationUnits), next' = next + 1,
         UNCHANGED << volumeSize, sectorSize >>
  PROVE  /\ Seen' = IF Legal(Unit) THEN Seen \cup {Unit} ELSE Seen
         /\ Seen \in SUBSET (Nat \ {0}) /\ Unit \in Nat \ {0}
         /\ \A x \in Seen : x < Unit
<1>1. next \in Nat \ {0} /\ DOMAIN AllocationUnits = 1 .. Len(AllocationUnits)
      /\ Len(AllocationUnits) \in Nat
  BY FatAssumption DEF TypeOK
<1>2. \A unit : Legal(unit)' <=> Legal(unit) BY VolumeKept
<1>3. 1 .. next' - 1 = (1 .. next - 1) \cup {next} BY <1>1
<1>4. Seen' = { AllocationUnits[i] : i \in { j \in 1 .. next' - 1 : Legal(AllocationUnits[j]) } }
  BY <1>2 DEF Seen
<1>5. Seen' = IF Legal(Unit) THEN Seen \cup {Unit} ELSE Seen
  BY <1>3, <1>4 DEF Seen, Unit
<1>6. \A i \in 1 .. next - 1 : i \in DOMAIN AllocationUnits /\ i < next BY <1>1
<1>7. next \in DOMAIN AllocationUnits BY <1>1
<1>8. \A i \in DOMAIN AllocationUnits : AllocationUnits[i] \in Nat \ {0} BY FatAssumption
<1>9. \A i \in 1 .. next - 1 : AllocationUnits[i] < Unit BY <1>6, <1>7, FatAssumption DEF Unit
<1> QED BY <1>5, <1>6, <1>7, <1>8, <1>9 DEF Seen, Unit

\* No step of the search or of the choice leaves the invariant.
LEMMA InvStep == Inv /\ [Next]_vars => Inv'
<1> SUFFICES ASSUME Inv, [Next]_vars PROVE Inv'
  OBVIOUS
<1>1. TypeOK /\ LocationInv /\ SearchInv /\ ChoiceInv BY DEF Inv
<1>2. /\ Len(AllocationUnits) \in Nat
      /\ DOMAIN AllocationUnits = 1 .. Len(AllocationUnits)
  BY FatAssumption
<1>3. CASE UNCHANGED vars
  <2>1. /\ UNCHANGED << volumeSize, sectorSize, next, best >>
        /\ pc' = pc /\ low' = low /\ high' = high /\ next' = next /\ best' = best
    BY <1>3 DEF vars
  <2>2. TypeOK' BY <1>1, <1>3 DEF vars, TypeOK
  <2>3. LocationInv' BY <1>1, <2>1, VolumeKept DEF LocationInv, Unit
  <2>4. SearchInv'
    <3>1. Whole' = Whole /\ totalSectors' = totalSectors BY <2>1 DEF Whole, totalSectors
    <3>2. /\ requiredSectors(low)' = requiredSectors(low)
          /\ requiredSectors(high + 1)' = requiredSectors(high + 1)
          /\ requiredSectors(low + 1)' = requiredSectors(low + 1)
      BY <2>1 DEF requiredSectors, fatSectors, sectorsPerCluster, Unit
    <3> QED BY <1>1, <2>1, <3>1, <3>2 DEF SearchInv
  <2>5. ChoiceInv'
    <3>1. IsBest(best, Seen)' <=> IsBest(best, Seen) BY <2>1, ChoiceKept
    <3>2. ChosenIsBest' <=> ChosenIsBest BY <2>1 DEF ChosenIsBest, IsBest, LegalUnits, Legal, UnitAllowed, Holds, totalSectors, Preferred
    <3> QED BY <1>1, <2>1, <3>1, <3>2 DEF ChoiceInv
  <2> QED BY <2>2, <2>3, <2>4, <2>5 DEF Inv
<1>4. CASE CheckVolume
  <2>1. /\ pc = "Check" /\ UNCHANGED << volumeSize, sectorSize, next, low, high, best >>
        /\ next = 1 /\ best = 0 /\ volumeSize \in Nat
        /\ pc' = IF Accepted THEN "Unit" ELSE "Done"
    <3>1. pc = "Check" /\ UNCHANGED << volumeSize, sectorSize, next, low, high, best >>
      BY <1>4 DEF CheckVolume
    <3>2. next = 1 /\ best = 0 BY <1>1, <3>1 DEF ChoiceInv
    <3>3. volumeSize \in Nat /\ MaximumVolumeSize \in Nat BY <1>1, FatAssumption DEF TypeOK
    <3>4. Accepted <=> ~ \/ ~ isSupportedSectorSize(sectorSize)
                         \/ volumeSize = 0
                         \/ volumeSize > MaximumVolumeSize
      BY <3>3 DEF Accepted
    <3> QED BY <1>4, <3>1, <3>2, <3>3, <3>4 DEF CheckVolume
  <2>2. TypeOK' BY <1>1, <2>1 DEF TypeOK
  <2>3. Accepted' <=> Accepted BY <2>1, VolumeKept
  <2>4. LocationInv' /\ SearchInv' BY <2>1, <2>3 DEF LocationInv, SearchInv
  <2>5. Seen' = {} BY <2>1 DEF Seen
  <2>6. ~ Accepted => ChosenIsBest' BY <2>1, <2>3 DEF ChosenIsBest, IsBest, Accepted
  <2>7. Accepted => ChosenIsBest' BY <2>1 DEF ChosenIsBest
  <2>8. IsBest(best, Seen)' BY <2>1, <2>5 DEF IsBest
  <2>9. ChoiceInv' BY <2>1, <2>6, <2>7, <2>8 DEF ChoiceInv
  <2> QED BY <2>2, <2>4, <2>9 DEF Inv
<1>5. CASE NextUnit
  <2>1. /\ pc = "Unit" /\ next <= Len(AllocationUnits) /\ ~ UnitAllowed(Unit)
        /\ next' = next + 1 /\ pc' = pc
        /\ UNCHANGED << volumeSize, sectorSize, low, high, best >>
    BY <1>5 DEF NextUnit
  <2>2. TypeOK' BY <1>1, <1>2, <2>1 DEF TypeOK
  <2>3. Accepted' <=> Accepted BY <2>1, VolumeKept
  <2>4. LocationInv' /\ SearchInv' BY <1>1, <2>1, <2>3 DEF LocationInv, SearchInv
  <2>5. Seen' = Seen
    <3>1. Seen' = IF Legal(Unit) THEN Seen \cup {Unit} ELSE Seen BY <1>1, <2>1, SeenGrows
    <3> QED BY <2>1, <3>1 DEF Legal
  <2>6. IsBest(best, Seen) BY <1>1, <2>1 DEF ChoiceInv
  <2>7. Preferred' = Preferred BY <2>1, VolumeKept
  <2>8. IsBest(best, Seen)' BY <2>1, <2>5, <2>6, <2>7 DEF IsBest
  <2> QED BY <2>1, <2>2, <2>4, <2>8 DEF Inv, ChoiceInv, ChosenIsBest
<1>6. CASE CountClusters
  <2> DEFINE top == (totalSectors - ReservedSectors) \div sectorsPerCluster
  <2>1. /\ pc = "Unit" /\ next <= Len(AllocationUnits) /\ UnitAllowed(Unit)
        /\ low' = 0 /\ UNCHANGED << volumeSize, sectorSize, next, best >>
        /\ \/ /\ Whole /\ totalSectors > ReservedSectors
              /\ pc' = "Search" /\ high' = top
           \/ /\ ~ (Whole /\ totalSectors > ReservedSectors)
              /\ pc' = "Judge" /\ high' = 0
    BY <1>6 DEF CountClusters, Whole
  <2>2. Accepted BY <1>1, <2>1 DEF LocationInv
  <2>3. ASSUME Whole
        PROVE  /\ totalSectors > ReservedSectors =>
                    top \in Nat /\ ~ (requiredSectors(top + 1) <= totalSectors)
               /\ ~ (totalSectors > ReservedSectors) => ~ (requiredSectors(1) <= totalSectors)
    BY <1>1, <2>1, <2>2, <2>3, CountStarts
  <2> HIDE DEF top
  <2>4. high' \in Nat BY <2>1, <2>3
  <2>5. TypeOK' BY <1>1, <2>1, <2>4 DEF TypeOK
  <2>6. /\ Accepted' <=> Accepted
        /\ Whole' <=> Whole
        /\ totalSectors' = totalSectors
        /\ UnitAllowed(Unit)'
    BY <2>1, VolumeKept DEF UnitAllowed, Unit
  <2>7. LocationInv' BY <2>1, <2>2, <2>6 DEF LocationInv
  <2>8. SearchInv'
    <3>1. requiredSectors(high + 1)' = requiredSectors(high' + 1)
          /\ requiredSectors(low + 1)' = requiredSectors(low' + 1)
      BY <2>1 DEF requiredSectors, fatSectors, sectorsPerCluster, Unit
    <3>2. 0 + 1 = 1 OBVIOUS
    <3> QED BY <2>1, <2>3, <2>6, <3>1, <3>2 DEF SearchInv
  <2>9. IsBest(best, Seen)' BY <1>1, <2>1, ChoiceKept DEF ChoiceInv
  <2> QED BY <2>1, <2>5, <2>7, <2>8, <2>9 DEF Inv, ChoiceInv, ChosenIsBest
<1>7. CASE Halve
  <2>1. /\ pc = "Search" /\ low < high /\ pc' = pc
        /\ UNCHANGED << volumeSize, sectorSize, next, best >>
        /\ \/ /\ requiredSectors(Middle) <= totalSectors
              /\ low' = Middle /\ high' = high
           \/ /\ ~ (requiredSectors(Middle) <= totalSectors)
              /\ low' = low /\ high' = Middle - 1
    BY <1>7 DEF Halve
  <2>2. Middle \in Nat /\ low < Middle /\ Middle <= high
    <3> DEFINE d == high - low + 1
               half == d \div 2
    <3>1. low \in Nat /\ high \in Nat BY <1>1 DEF TypeOK
    <3>2. d \in Nat /\ d >= 2 BY <2>1, <3>1
    <3>3. Middle = low + half BY DEF Middle
    <3> HIDE DEF d
    <3>4. half \in Nat /\ 2 * half <= d /\ d < 2 * half + 2 BY <3>2, DivMod
    <3> HIDE DEF half
    <3>5. half >= 1 /\ half <= d - 1 BY <3>2, <3>4
    <3>6. d = high - low + 1 BY DEF d
    <3> QED BY <3>1, <3>3, <3>4, <3>5, <3>6
  <2>3. low' \in Nat /\ high' \in Nat /\ low' <= high'
    BY <1>1, <2>1, <2>2 DEF TypeOK
  <2>4. TypeOK' BY <1>1, <2>1, <2>3 DEF TypeOK
  <2>5. /\ Accepted' <=> Accepted
        /\ Whole' <=> Whole
        /\ totalSectors' = totalSectors
        /\ UnitAllowed(Unit)' <=> UnitAllowed(Unit)
    BY <2>1, VolumeKept DEF UnitAllowed, Unit
  <2>6. LocationInv' BY <1>1, <2>1, <2>5 DEF LocationInv
  <2>7. SearchInv'
    <3>1. requiredSectors(low)' = requiredSectors(low')
          /\ requiredSectors(high + 1)' = requiredSectors(high' + 1)
      BY <2>1 DEF requiredSectors, fatSectors, sectorsPerCluster, Unit
    <3>2. /\ Whole
          /\ low > 0 => requiredSectors(low) <= totalSectors
          /\ ~ (requiredSectors(high + 1) <= totalSectors)
      BY <1>1, <2>1 DEF SearchInv
    <3>3. low' > 0 => requiredSectors(low') <= totalSectors BY <2>1, <3>2
    <3>4. Middle - 1 + 1 = Middle BY <2>2
    <3>5. ~ (requiredSectors(high' + 1) <= totalSectors) BY <2>1, <3>2, <3>4
    <3> QED BY <2>1, <2>5, <3>1, <3>2, <3>3, <3>5 DEF SearchInv
  <2>8. IsBest(best, Seen)' BY <1>1, <2>1, ChoiceKept DEF ChoiceInv
  <2> QED BY <2>1, <2>4, <2>6, <2>7, <2>8 DEF Inv, ChoiceInv, ChosenIsBest
<1>8. CASE EndSearch
  <2>1. /\ pc = "Search" /\ low >= high /\ pc' = "Judge" /\ low' = low
        /\ UNCHANGED << volumeSize, sectorSize, next, low, high, best >>
    BY <1>8 DEF EndSearch
  <2>2. TypeOK' BY <1>1, <2>1 DEF TypeOK
  <2>3. /\ Accepted' <=> Accepted
        /\ Whole' <=> Whole
        /\ totalSectors' = totalSectors
        /\ UnitAllowed(Unit)' <=> UnitAllowed(Unit)
    BY <2>1, VolumeKept DEF UnitAllowed, Unit
  <2>4. LocationInv' BY <1>1, <2>1, <2>3 DEF LocationInv
  <2>5. SearchInv'
    <3>1. requiredSectors(low)' = requiredSectors(low)
          /\ requiredSectors(low + 1)' = requiredSectors(low + 1)
      BY <2>1 DEF requiredSectors, fatSectors, sectorsPerCluster, Unit
    <3>2. low = high BY <1>1, <2>1 DEF TypeOK
    <3> QED BY <1>1, <2>1, <2>3, <3>1, <3>2 DEF SearchInv
  <2>6. IsBest(best, Seen)' BY <1>1, <2>1, ChoiceKept DEF ChoiceInv
  <2> QED BY <2>1, <2>2, <2>4, <2>5, <2>6 DEF Inv, ChoiceInv, ChosenIsBest
<1>9. CASE JudgeUnit
  <2>1. /\ pc = "Judge" /\ pc' = "Unit" /\ next' = next + 1
        /\ best' = IF MinimumClusters <= low /\ low <= MaximumClusters THEN Better ELSE best
        /\ UNCHANGED << volumeSize, sectorSize, low, high >>
    BY <1>9 DEF JudgeUnit
  <2>2. Accepted /\ next <= Len(AllocationUnits) /\ UnitAllowed(Unit)
    BY <1>1, <2>1 DEF LocationInv
  <2>3. next \in DOMAIN AllocationUnits BY <1>1, <2>2, CurrentUnit
  <2>4. TypeOK'
    <3>1. Unit \in { AllocationUnits[i] : i \in DOMAIN AllocationUnits } BY <2>3 DEF Unit
    <3>2. best' \in {best, Unit} BY <2>1 DEF Better
    <3>3. next' \in 1 .. Len(AllocationUnits) + 1 BY <1>1, <1>2, <2>1, <2>2 DEF TypeOK
    <3> QED BY <1>1, <2>1, <3>1, <3>2, <3>3 DEF TypeOK
  <2>5. Accepted' <=> Accepted BY <2>1, VolumeKept
  <2>6. LocationInv' /\ SearchInv' BY <2>1, <2>2, <2>5 DEF LocationInv, SearchInv
  <2>7. /\ MinimumClusters \in Nat \ {0} /\ MaximumClusters \in Nat /\ low \in Nat
    BY <1>1, FatAssumption DEF TypeOK
  <2>8. Legal(Unit) <=> MinimumClusters <= low /\ low <= MaximumClusters
    <3>1. CASE Whole
      <4>1. /\ low > 0 => requiredSectors(low) <= totalSectors
            /\ ~ (requiredSectors(low + 1) <= totalSectors)
        BY <1>1, <2>1, <3>1 DEF SearchInv
      <4>2. Holds(MinimumClusters, Unit) <=> MinimumClusters <= low
        BY <1>1, <2>2, <2>7, <3>1, <4>1, CountDecides
      <4>3. MaximumClusters + 1 \in Nat \ {0} BY <2>7
      <4>4. Holds(MaximumClusters + 1, Unit) <=> MaximumClusters + 1 <= low
        BY <1>1, <2>2, <3>1, <4>1, <4>3, CountDecides
      <4>5. MaximumClusters + 1 <= low <=> ~ (low <= MaximumClusters) BY <2>7
      <4> QED BY <2>2, <3>1, <4>2, <4>4, <4>5 DEF Legal, Whole
    <3>2. CASE ~ Whole
      <4>1. low = 0 BY <1>1, <2>1, <3>2 DEF SearchInv
      <4> QED BY <2>7, <3>2, <4>1 DEF Legal, Whole
    <3> QED BY <3>1, <3>2
  <2>9. /\ Seen' = IF Legal(Unit) THEN Seen \cup {Unit} ELSE Seen
        /\ Seen \in SUBSET (Nat \ {0}) /\ Unit \in Nat \ {0}
        /\ \A x \in Seen : x < Unit
    BY <1>1, <2>1, <2>2, SeenGrows
  <2>10. IsBest(best, Seen) BY <1>1, <2>1 DEF ChoiceInv
  <2>11. IsBest(best', Seen')
    <3>1. CASE Legal(Unit)
      <4>1. best' = IF best = 0 \/ Unit <= Preferred THEN Unit ELSE best
        BY <2>1, <2>8, <3>1 DEF Better
      <4>2. IsBest(IF best = 0 \/ Unit <= Preferred THEN Unit ELSE best, Seen \cup {Unit})
        BY <2>9, <2>10, AddUnit
      <4> QED BY <2>9, <3>1, <4>1, <4>2
    <3>2. CASE ~ Legal(Unit)
      BY <2>1, <2>8, <2>9, <2>10, <3>2
    <3> QED BY <3>1, <3>2
  <2>12. Preferred' = Preferred BY <2>1, VolumeKept
  <2>13. IsBest(best, Seen)' BY <2>11, <2>12 DEF IsBest
  <2> QED BY <2>1, <2>4, <2>6, <2>13 DEF Inv, ChoiceInv, ChosenIsBest
<1>10. CASE EndUnits
  <2>1. /\ pc = "Unit" /\ next > Len(AllocationUnits) /\ pc' = "Done"
        /\ UNCHANGED << volumeSize, sectorSize, next, low, high, best >>
    BY <1>10 DEF EndUnits
  <2>2. TypeOK' BY <1>1, <2>1 DEF TypeOK
  <2>3. LocationInv' /\ SearchInv' BY <2>1 DEF LocationInv, SearchInv
  <2>4. Accepted BY <1>1, <2>1 DEF LocationInv
  <2>5. IsBest(best, Seen) BY <1>1, <2>1 DEF ChoiceInv
  <2>6. Seen = LegalUnits
    <3>1. next = Len(AllocationUnits) + 1 BY <1>1, <1>2, <2>1 DEF TypeOK
    <3>2. 1 .. next - 1 = DOMAIN AllocationUnits BY <1>2, <3>1
    <3> QED BY <3>2 DEF Seen, LegalUnits
  <2>7. /\ Preferred' = Preferred /\ LegalUnits' = LegalUnits /\ (Accepted' <=> Accepted)
    BY <2>1, VolumeKept
  <2>8. IsBest(best, LegalUnits)' BY <2>1, <2>5, <2>6, <2>7 DEF IsBest
  <2>9. ChosenIsBest' BY <2>4, <2>7, <2>8 DEF ChosenIsBest, Accepted
  <2> QED BY <2>1, <2>2, <2>3, <2>9 DEF Inv, ChoiceInv
<1> QED BY <1>3, <1>4, <1>5, <1>6, <1>7, <1>8, <1>9, <1>10 DEF Next

\* The invariant holds all the time.
LEMMA InvHolds == Spec => []Inv
BY InvInit, InvStep, PTL DEF Spec

----------------------------------------------------------------------------
\* The bounds of the search stay numbers in order: the subtraction of one from a
\* middle never goes below zero, and no unit is looked at past the last.
THEOREM Fat32TypeCorrect == Spec => []TypeOK
<1>1. Inv => TypeOK BY DEF Inv
<1> QED BY <1>1, InvHolds, PTL

\* fat32DataClusterCount finds the largest number of clusters that leaves room
\* for its own tables, whatever the volume.
THEOREM SearchAlwaysExact == Spec => []SearchIsExact
<1>1. Inv => SearchIsExact
  <2> SUFFICES ASSUME Inv, pc = "Judge", Whole
               PROVE  (low > 0 => Holds(low, Unit)) /\ ~ Holds(low + 1, Unit)
    BY DEF SearchIsExact, Whole
  <2>1. /\ TypeOK /\ Accepted /\ next <= Len(AllocationUnits) /\ UnitAllowed(Unit)
        /\ low > 0 => requiredSectors(low) <= totalSectors
        /\ ~ (requiredSectors(low + 1) <= totalSectors)
    BY DEF Inv, LocationInv, SearchInv
  <2>2. low \in Nat BY <2>1 DEF TypeOK
  <2>3. ASSUME NEW c \in Nat \ {0} PROVE Holds(c, Unit) <=> c <= low
    BY <2>1, <2>3, CountDecides
  <2>4. low > 0 => low \in Nat \ {0} /\ low <= low BY <2>2
  <2>5. low + 1 \in Nat \ {0} /\ ~ (low + 1 <= low) BY <2>2
  <2> QED BY <2>3, <2>4, <2>5
<1> QED BY <1>1, InvHolds, PTL

\* fat32AllocationUnitSize returns the best unit there is, and 0 only when there
\* is none.
THEOREM ChoiceAlwaysBest == Spec => []ChosenIsBest
<1>1. Inv => ChosenIsBest BY DEF Inv, ChoiceInv
<1> QED BY <1>1, InvHolds, PTL

\* The minimum that Linux asks for is the bare floor rounded up to a MiB, and that
\* is a number of sectors which mkfs.fat's alignment takes nothing from.
LEMMA MinimumIsAligned ==
  ASSUME NEW s \in SectorSizes, NEW bare \in Nat
  PROVE  /\ RoundUp(bare, MiB) \in Nat
         /\ bare <= RoundUp(bare, MiB) /\ RoundUp(bare, MiB) < bare + MiB
         /\ \E j \in Nat : RoundUp(bare, MiB) = (j * MkfsAlignment) * s
<1>1. MiB \in Nat \ {0} /\ s \in Nat \ {0} /\ MkfsAlignment \in Nat \ {0}
  BY SectorAssumption, AlignmentAssumption
<1> DEFINE a == bare + MiB - 1  q == a \div MiB
           part == MkfsAlignment * s  k == MiB \div part
<1>2. a \in Nat /\ a = bare + MiB - 1 BY <1>1
<1>3. RoundUp(bare, MiB) = q * MiB BY DEF RoundUp
<1>4. part \in Nat \ {0} BY <1>1, SMT
<1>5. MiB % part = 0 BY AlignmentAssumption
<1> HIDE DEF a, part
<1>6. q \in Nat /\ MiB * q <= a /\ a < MiB * q + MiB BY <1>1, <1>2, DivMod
<1>7. k \in Nat /\ MiB = k * part BY <1>1, <1>4, <1>5, Aligned
<1> HIDE DEF q, k
<1> DEFINE r == q * MiB
<1>8. r = MiB * q /\ r \in Nat BY <1>1, <1>6, SMT
<1>9. r \in Nat /\ r <= a /\ a < r + MiB BY <1>1, <1>6, <1>8
<1>10. r = ((q * k) * MkfsAlignment) * s /\ q * k \in Nat
  BY <1>1, <1>4, <1>6, <1>7, SMT DEF part
<1> HIDE DEF r
<1>11. bare <= r /\ r < bare + MiB BY <1>1, <1>2, <1>9
<1> QED BY <1>3, <1>9, <1>10, <1>11 DEF r

\* mkfs.fat makes a FAT32 of the volumes whose aligned sectors hold the bare floor.
LEMMA MkfsNeeds ==
  ASSUME sectorSize \in SectorSizes, volumeSize \in Nat
  PROVE  LET n == ReservedSectors + FatCount * fatSectors(MkfsMinimumClusters)
                    + MkfsMinimumClusters
         IN /\ n \in Nat /\ mkfsBareBytes(sectorSize) = n * sectorSize
            /\ mkfsMakesFat32(volumeSize, sectorSize) <=>
                 /\ totalSectors <= MkfsMaximumSectors
                 /\ n <= RoundDown(totalSectors, MkfsAlignment)
<1> DEFINE c == MkfsMinimumClusters
           need == fatSectors(c)
           n == ReservedSectors + FatCount * need + c
           aligned == RoundDown(totalSectors, MkfsAlignment)
<1>1. sectorSize \in Nat \ {0} /\ MkfsAlignment \in Nat \ {0}
  BY SectorAssumption, AlignmentAssumption
<1>2. c \in Nat \ {0} /\ ReservedSectors \in Nat /\ FatCount \in Nat \ {0}
      /\ FatEntryBytes \in Nat
  BY FatAssumption
<1>3. /\ need \in Nat /\ (c + 2) * FatEntryBytes <= need * sectorSize
      /\ \A fat \in Nat : fat * sectorSize >= (c + 2) * FatEntryBytes => need <= fat
  BY <1>1, <1>2, TableHolds
<1>4. mkfsBareBytes(sectorSize) = n * sectorSize BY DEF mkfsBareBytes, fatSectors
<1>5. totalSectors \in Nat BY <1>1, DivMod DEF totalSectors
<1>6. aligned \in Nat
  <2>1. totalSectors \div MkfsAlignment \in Nat BY <1>1, <1>5, DivMod
  <2> QED BY <2>1, <1>1, SMT DEF RoundDown
<1>7. mkfsMakesFat32(volumeSize, sectorSize) <=>
        /\ totalSectors <= MkfsMaximumSectors
        /\ \E fat \in 0 .. aligned :
             /\ fat * sectorSize >= (c + 2) * FatEntryBytes
             /\ ReservedSectors + FatCount * fat + c <= aligned
  BY DEF mkfsMakesFat32, totalSectors
<1> HIDE DEF c, need, aligned
<1>8. n \in Nat
  <2>1. FatCount * need \in Nat BY <1>2, <1>3, SMT
  <2> QED BY <2>1, <1>2
<1>9. ASSUME n <= aligned
      PROVE  \E fat \in 0 .. aligned :
               /\ fat * sectorSize >= (c + 2) * FatEntryBytes
               /\ ReservedSectors + FatCount * fat + c <= aligned
  <2>1. FatCount * need >= need /\ FatCount * need \in Nat BY <1>2, <1>3, SMT
  <2>2. need <= aligned BY <2>1, <1>2, <1>3, <1>6, <1>9
  <2>3. need \in 0 .. aligned BY <2>2, <1>3, <1>6
  <2>4. need * sectorSize >= (c + 2) * FatEntryBytes
    <3>1. need * sectorSize \in Nat /\ (c + 2) * FatEntryBytes \in Nat
      BY <1>1, <1>2, <1>3, SMT
    <3> QED BY <1>3, <3>1
  <2> QED BY <2>3, <2>4, <1>9
<1>10. ASSUME NEW fat \in 0 .. aligned, fat * sectorSize >= (c + 2) * FatEntryBytes,
              ReservedSectors + FatCount * fat + c <= aligned
       PROVE  n <= aligned
  <2>1. fat \in Nat /\ need <= fat BY <1>3, <1>6, <1>10
  <2>2. FatCount * need <= FatCount * fat /\ FatCount * need \in Nat /\ FatCount * fat \in Nat
    BY <2>1, <1>2, <1>3, SMT
  <2> QED BY <2>2, <1>2, <1>6, <1>10
<1> QED BY <1>4, <1>7, <1>8, <1>9, <1>10 DEF c, need, aligned

\* Whatever volume Linux accepts, mkfs.fat makes a whole FAT32 of it; and it refuses
\* no other volume that mkfs.fat could do this of than one that lacks less than a MiB.
THEOREM LinuxAlwaysRefusesInTime == Spec => []LinuxRefusesInTime
<1> DEFINE s == sectorSize
           T == MkfsAlignment
           bare == mkfsBareBytes(s)
           n == ReservedSectors + FatCount * fatSectors(MkfsMinimumClusters)
                  + MkfsMinimumClusters
           aligned == RoundDown(totalSectors, T)
           least == minimumMkfsFat32VolumeBytes(s)
           largest == maximumMkfsFat32VolumeBytes(s)
<1>1. Inv => LinuxRefusesInTime
  <2> SUFFICES ASSUME Inv, s \in SectorSizes, Whole
               PROVE  /\ canCreateFileSystemOn(volumeSize, s) => mkfsMakesFat32(volumeSize, s)
                      /\ mkfsMakesFat32(volumeSize, s) =>
                           \/ canCreateFileSystemOn(volumeSize, s)
                           \/ volumeSize < least /\ least < volumeSize + MiB
    BY DEF LinuxRefusesInTime, Whole, isSupportedSectorSize
  <2>1. volumeSize \in Nat BY FatAssumption DEF Inv, TypeOK
  <2>2. /\ s \in Nat \ {0} /\ T \in Nat \ {0} /\ MiB \in Nat \ {0}
        /\ MkfsMaximumSectors \in Nat
    BY SectorAssumption, AlignmentAssumption, FatAssumption
  <2>3. /\ n \in Nat /\ bare = n * s
        /\ mkfsMakesFat32(volumeSize, s) <=>
             totalSectors <= MkfsMaximumSectors /\ n <= aligned
    BY <2>1, MkfsNeeds
  <2>4. totalSectors \in Nat /\ volumeSize = totalSectors * s
    BY <2>1, <2>2, Aligned DEF totalSectors, Whole
  <2>5. /\ aligned \in Nat /\ aligned <= totalSectors
        /\ \A j \in Nat : j * T <= totalSectors => j * T <= aligned
    <3> DEFINE g == totalSectors \div T
    <3>1. g \in Nat /\ T * g <= totalSectors BY <2>2, <2>4, DivMod
    <3>2. \A j \in Nat : j * T <= totalSectors => j <= g BY <2>2, <2>4, FitsBySectors
    <3>3. aligned = g * T BY DEF RoundDown
    <3> HIDE DEF g, aligned
    <3>4. g * T = T * g /\ g * T \in Nat BY <2>2, <3>1, SMT
    <3>5. ASSUME NEW j \in Nat, j <= g PROVE j * T <= g * T BY <2>2, <3>1, <3>5, SMT
    <3> QED BY <2>4, <3>1, <3>2, <3>3, <3>4, <3>5
  <2> HIDE DEF n, aligned
  <2>6. bare \in Nat BY <2>2, <2>3, SMT
  <2>7. least = RoundUp(bare, MiB) BY DEF minimumMkfsFat32VolumeBytes
  <2>8. /\ least \in Nat /\ bare <= least /\ least < bare + MiB
        /\ \E j \in Nat : least = (j * T) * s
    BY <2>6, <2>7, MinimumIsAligned
  <2>9. largest = MkfsMaximumSectors * s BY DEF maximumMkfsFat32VolumeBytes
  <2>10. canCreateFileSystemOn(volumeSize, s) <=> volumeSize <= largest /\ volumeSize >= least
    BY DEF canCreateFileSystemOn, isSupportedSectorSize
  <2> HIDE DEF s, T, bare, least, largest
  <2>11. volumeSize <= largest <=> totalSectors <= MkfsMaximumSectors
    BY <2>2, <2>4, <2>9, SMT
  <2>12. ASSUME volumeSize >= least PROVE n <= aligned
    <3>1. PICK j \in Nat : least = (j * T) * s BY <2>8
    <3> DEFINE m == j * T
    <3>2. m \in Nat BY <2>2, <3>1, SMT
    <3>3. m <= aligned
      <4>1. m * s <= totalSectors * s BY <2>4, <2>12, <3>1
      <4>2. m <= totalSectors BY <2>2, <2>4, <3>2, <4>1, SMT
      <4> QED BY <2>5, <4>2
    <3> HIDE DEF m
    <3>4. n * s <= m * s BY <2>3, <2>8, <3>1 DEF m
    <3>5. n <= m BY <2>2, <2>3, <3>2, <3>4, SMT
    <3> QED BY <2>3, <2>5, <3>2, <3>3, <3>5
  <2>13. ASSUME n <= aligned PROVE least < volumeSize + MiB
    <3>1. n <= totalSectors BY <2>3, <2>4, <2>5, <2>13
    <3>2. n * s <= totalSectors * s BY <2>2, <2>3, <2>4, <3>1, SMT
    <3>3. bare <= volumeSize BY <2>3, <2>4, <3>2
    <3> QED BY <2>1, <2>2, <2>6, <2>8, <3>3
  <2>14. volumeSize >= least \/ volumeSize < least BY <2>1, <2>8
  <2> QED BY <2>3, <2>10, <2>11, <2>12, <2>13, <2>14
<1> QED BY <1>1, InvHolds, PTL
=============================================================================
