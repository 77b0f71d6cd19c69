--------------------------- MODULE DiskImageProofs ---------------------------
(***************************************************************************)
(* The properties of DiskImageSafety for a disk of any size, and what the  *)
(* arithmetic of DiskGeometry computes for it.                             *)
(*                                                                         *)
(* Everything turns on one fact, Placement: on a disk that was accepted,   *)
(* each range is a whole number of sectors at a whole sector and ends on   *)
(* the device.  The invariant adds that what has reached the disk of a     *)
(* range is a whole number of sectors too, however short a write was.      *)
(***************************************************************************)
EXTENDS DiskImageSafety, TLAPS

\* Quotient and remainder.
LEMMA DivMod ==
  ASSUME NEW a \in Nat, NEW s \in Nat \ {0}
  PROVE  /\ a \div s \in Nat
         /\ a % s = a - s * (a \div s)
         /\ s * (a \div s) <= a
         /\ a < s * (a \div s) + s
<1>1. a \div s \in Nat BY SMT
<1>2. a % s = a - s * (a \div s) BY SMT
<1>3. s * (a \div s) <= a BY SMT
<1>4. a < s * (a \div s) + s BY SMT
<1> QED BY <1>1, <1>2, <1>3, <1>4

\* A multiple divides without a remainder.
LEMMA Multiple ==
  ASSUME NEW q \in Nat, NEW s \in Nat \ {0}
  PROVE  (q * s) \div s = q /\ (q * s) % s = 0
OBVIOUS

\* What divides without a remainder is a multiple.
LEMMA Aligned ==
  ASSUME NEW a \in Nat, NEW s \in Nat \ {0}, a % s = 0
  PROVE  a \div s \in Nat /\ a = (a \div s) * s
<1>1. a % s = a - s * (a \div s) BY DivMod
<1>2. a \div s \in Nat BY DivMod
<1>3. s * (a \div s) = (a \div s) * s BY <1>2, SMT
<1> QED BY <1>1, <1>2, <1>3, SMT

\* Rounding down cuts off less than a unit.
LEMMA RoundsDown ==
  ASSUME NEW a \in Nat, NEW unit \in Nat \ {0}
  PROVE  /\ RoundDown(a, unit) \in Nat
         /\ RoundDown(a, unit) <= a
         /\ a < RoundDown(a, unit) + unit
         /\ RoundDown(a, unit) % unit = 0
         /\ RoundDown(a, unit) \div unit = a \div unit
<1> DEFINE q == a \div unit
<1>1. q \in Nat /\ unit * q <= a /\ a < unit * q + unit BY DivMod
<1> HIDE DEF q
<1>2. unit * q = q * unit /\ q * unit \in Nat BY <1>1, SMT
<1>3. (q * unit) % unit = 0 /\ (q * unit) \div unit = q BY <1>1, Multiple
<1> QED BY <1>1, <1>2, <1>3 DEF RoundDown, q

\* A multiple of a multiple.
LEMMA MultipleOfMultiple ==
  ASSUME NEW a \in Nat, NEW m \in Nat \ {0}, NEW s \in Nat \ {0}, a % m = 0, m % s = 0
  PROVE  a % s = 0
<1> DEFINE p == a \div m  r == m \div s
<1>1. p \in Nat /\ a = p * m BY Aligned
<1>2. r \in Nat /\ m = r * s BY Aligned
<1> HIDE DEF p, r
<1>3. a = (p * r) * s /\ p * r \in Nat BY <1>1, <1>2, SMT
<1> QED BY <1>3, Multiple

\* Sums of whole sectors are whole sectors, and their counts add up.
LEMMA SumAligned ==
  ASSUME NEW a \in Nat, NEW b \in Nat, NEW s \in Nat \ {0}, a % s = 0, b % s = 0
  PROVE  /\ (a + b) % s = 0
         /\ (a + b) \div s = a \div s + b \div s
<1> DEFINE p == a \div s  q == b \div s
<1>1. p \in Nat /\ a = p * s BY Aligned
<1>2. q \in Nat /\ b = q * s BY Aligned
<1> HIDE DEF p, q
<1>3. a + b = (p + q) * s BY <1>1, <1>2, SMT
<1>4. (a + b) \div s = p + q /\ (a + b) % s = 0
  <2>1. ((p + q) * s) \div s = p + q /\ ((p + q) * s) % s = 0
    BY <1>1, <1>2, Multiple
  <2> QED BY <2>1, <1>3
<1> QED BY <1>4 DEF p, q

\* What is left of whole sectors when whole sectors are taken away.
LEMMA DifferenceAligned ==
  ASSUME NEW a \in Nat, NEW b \in Nat, NEW s \in Nat \ {0}, a % s = 0, b % s = 0, b <= a
  PROVE  (a - b) % s = 0
<1> DEFINE p == a \div s  q == b \div s
<1>1. p \in Nat /\ a = p * s BY Aligned
<1>2. q \in Nat /\ b = q * s BY Aligned
<1> HIDE DEF p, q
<1>3. q <= p BY <1>1, <1>2, SMT
<1>4. a - b = (p - q) * s /\ p - q \in Nat BY <1>1, <1>2, <1>3, SMT
<1> QED BY <1>4, Multiple

\* Whole sectors fit a size if and only if their count fits its sector count.
LEMMA FitsBySectors ==
  ASSUME NEW n \in Nat, NEW size \in Nat, NEW s \in Nat \ {0}
  PROVE  n * s <= size <=> n <= size \div s
<1> DEFINE q == size \div s
<1>1. q \in Nat /\ s * q <= size /\ size < s * q + s BY DivMod
<1> HIDE DEF q
<1>2. n <= q => n * s <= size BY <1>1, SMT
<1>3. n >= q + 1 => n * s >= s * q + s BY <1>1, SMT
<1> QED BY <1>1, <1>2, <1>3, SMT DEF q

----------------------------------------------------------------------------
\* The entry array is the smallest number of sectors that holds the entries.
LEMMA EntryArray ==
  ASSUME NEW s \in SectorSizes
  PROVE  /\ gptEntryArraySectors(s) \in Nat \ {0}
         /\ EntryBytes <= gptEntryArraySectors(s) * s
         /\ gptEntryArraySectors(s) * s < EntryBytes + s
<1> DEFINE a == EntryBytes + s - 1  q == a \div s
<1>1. s \in Nat \ {0} /\ EntryBytes \in Nat \ {0} BY SectorAssumption
<1>2. a \in Nat BY <1>1, SMT
<1>3. gptEntryArraySectors(s) = q
  BY DEF gptEntryArraySectors, SectorOf, isSupportedSectorSize
<1> HIDE DEF a
<1>4. q \in Nat /\ s * q <= a /\ a < s * q + s BY <1>1, <1>2, DivMod
<1> HIDE DEF q
<1>5. s * q = q * s BY <1>1, <1>4, SMT
<1>6. EntryBytes <= q * s /\ q * s < EntryBytes + s BY <1>1, <1>4, <1>5, SMT DEF a
<1>7. q # 0 BY <1>1, <1>6, SMT
<1> QED BY <1>3, <1>4, <1>6, <1>7

\* The first MiB boundary is on a sector, behind the tables.
LEMMA FirstMiB ==
  ASSUME NEW s \in SectorSizes
  PROVE  /\ s \in Nat \ {0} /\ MiB \in Nat \ {0}
         /\ MiB % s = 0 /\ s < MiB
         /\ RoundUp(MiB, s) = MiB
         /\ (2 + gptEntryArraySectors(s)) * s < MiB
<1> DEFINE k == MiB \div s  A == gptEntryArraySectors(s)
<1>1. s \in Nat \ {0} /\ MiB \in Nat \ {0} /\ MiB % s = 0 /\ EntryBytes \in Nat \ {0}
      /\ EntryBytes + 3 * s <= MiB
  BY SectorAssumption
<1>2. k \in Nat /\ MiB = k * s BY <1>1, Aligned
<1>3. A \in Nat /\ A * s < EntryBytes + s BY EntryArray
<1> HIDE DEF k, A
<1>4. (k * s + (s - 1)) \div s = k BY <1>1, <1>2, SMT
<1>5. RoundUp(MiB, s) = MiB
  <2>1. MiB + s - 1 = k * s + (s - 1) BY <1>1, <1>2, SMT
  <2> QED BY <2>1, <1>4, <1>2 DEF RoundUp
<1>6. (2 + A) * s = 2 * s + A * s BY <1>1, <1>3, SMT
<1>7. A * s \in Nat BY <1>1, <1>3, SMT
<1>8. 2 * s + A * s < MiB /\ s < MiB BY <1>1, <1>3, <1>7, SMT
<1> QED BY <1>1, <1>5, <1>6, <1>8 DEF A

Layout(size, s) == calculateGptLayout(size, s)

\* The layout is none at all, or starts at the first MiB, is a whole number of
\* MiBs and of sectors, and leaves room for the backup table behind it.  In
\* particular nothing has wrapped around.
LEMMA LayoutFits ==
  ASSUME NEW s \in SectorSizes, NEW size \in Nat, size < Word,
         Layout(size, s).length # 0
  PROVE  /\ Layout(size, s).startOffset = MiB
         /\ Layout(size, s).length \in Nat \ {0}
         /\ Layout(size, s).length % s = 0
         /\ MiB + Layout(size, s).length
              + (gptEntryArraySectors(s) + 1) * s <= size
<1> DEFINE A == gptEntryArraySectors(s)
           B == (A + 1) * s
           raw == Minus(Minus(size, MiB), B)
           L == RoundDown(raw, MiB)
<1>1. /\ s \in Nat \ {0} /\ MiB \in Nat \ {0} /\ MiB % s = 0 /\ s < MiB
      /\ RoundUp(MiB, s) = MiB
  BY FirstMiB
<1>2. A \in Nat BY EntryArray
<1>3. Word \in Nat BY WordAssumption
<1> HIDE DEF A
<1>4. B \in Nat BY <1>1, <1>2, SMT
<1>5. Layout(size, s) =
        IF size <= MiB + B + s \/ L = 0 THEN NoLayout
        ELSE [startOffset |-> MiB, length |-> L]
  BY <1>1 DEF Layout, calculateGptLayout, SectorOf, isSupportedSectorSize, A
<1> HIDE DEF B, L
<1>6. MiB + B + s < size /\ L # 0
      /\ Layout(size, s) = [startOffset |-> MiB, length |-> L]
  <2>1. ~ (size <= MiB + B + s \/ L = 0) BY <1>5 DEF NoLayout
  <2> QED BY <1>1, <1>4, <1>5, <2>1, SMT
<1>7. raw = size - MiB - B
  <2>1. \A x \in Nat : x < Word => x % Word = x BY <1>3, SMT
  <2>2. size - MiB \in Nat /\ size - MiB < Word BY <1>1, <1>3, <1>4, <1>6, SMT
  <2>3. Minus(size, MiB) = size - MiB BY <2>1, <2>2 DEF Minus
  <2>4. (size - MiB) - B \in Nat /\ (size - MiB) - B < Word
    BY <1>1, <1>3, <1>4, <1>6, SMT
  <2> QED BY <2>1, <2>3, <2>4 DEF Minus
<1>8. raw \in Nat BY <1>1, <1>4, <1>6, <1>7, SMT
<1> HIDE DEF raw
<1>9. L \in Nat /\ L <= raw /\ L % MiB = 0 BY <1>1, <1>8, RoundsDown DEF L
<1>10. L % s = 0 BY <1>1, <1>9, MultipleOfMultiple
<1>11. MiB + L + B <= size BY <1>1, <1>4, <1>7, <1>9, SMT
<1> QED BY <1>6, <1>9, <1>10, <1>11 DEF A, B

\* Counted in sectors: the partition ends before the backup table begins.
LEMMA LayoutInSectors ==
  ASSUME NEW s \in SectorSizes, NEW size \in Nat, size < Word,
         Layout(size, s).length # 0
  PROVE  LET first == MiB \div s
             span  == Layout(size, s).length \div s
         IN /\ first \in Nat /\ span \in Nat \ {0} /\ size \div s \in Nat
            /\ MiB = first * s
            /\ Layout(size, s).length = span * s
            /\ (MiB + Layout(size, s).length) \div s = first + span
            /\ 2 + gptEntryArraySectors(s) < first
            /\ first + span + gptEntryArraySectors(s) + 1 <= size \div s
<1> DEFINE A == gptEntryArraySectors(s)
           L == Layout(size, s).length
           first == MiB \div s
           span == L \div s
           q == size \div s
<1>1. /\ s \in Nat \ {0} /\ MiB \in Nat \ {0} /\ MiB % s = 0 /\ (2 + A) * s < MiB
  BY FirstMiB
<1>2. A \in Nat BY EntryArray
<1>3. L \in Nat \ {0} /\ L % s = 0 /\ MiB + L + (A + 1) * s <= size BY LayoutFits
<1> HIDE DEF L, A
<1>4. first \in Nat /\ MiB = first * s BY <1>1, Aligned
<1>5. span \in Nat /\ L = span * s BY <1>1, <1>3, Aligned
<1>6. (MiB + L) \div s = first + span BY <1>1, <1>3, SumAligned
<1>7. q \in Nat BY <1>1, DivMod
<1> HIDE DEF first, span
<1>8. span # 0 BY <1>1, <1>3, <1>5, SMT
<1>9. 2 + A < first BY <1>1, <1>2, <1>4, SMT
<1>10. (first + span + A + 1) * s <= size
  <2>1. (first + span + A + 1) * s = first * s + span * s + (A + 1) * s
    BY <1>1, <1>2, <1>4, <1>5, SMT
  <2> QED BY <2>1, <1>3, <1>4, <1>5, SMT
<1>11. first + span + A + 1 <= q
  <2>1. first + span + A + 1 \in Nat BY <1>2, <1>4, <1>5, SMT
  <2> QED BY <2>1, <1>1, <1>10, FitsBySectors
<1> QED BY <1>4, <1>5, <1>6, <1>7, <1>8, <1>9, <1>11 DEF first, span, L, A, q

----------------------------------------------------------------------------
\* Both cleared ends are whole sectors; each covers a table and its headers, and
\* the second ends with the last whole sector of the disk.
LEMMA ClearedEnds ==
  ASSUME NEW s \in SectorSizes, NEW size \in Nat,
         size >= MinimumRestoreTargetBytes
  PROVE  LET range == signatureClearRange(size, s)
             count == range.bytes \div s
             sectors == size \div s
         IN /\ range.sectorSize = s
            /\ count \in Nat /\ sectors \in Nat
            /\ range.bytes = count * s
            /\ range.tailOffset = (sectors - count) * s
            /\ gptEntryArraySectors(s) + 2 <= count
            /\ count <= sectors
<1> DEFINE A == gptEntryArraySectors(s)
           quarter == size \div 4
           most == IF quarter < SignatureClearBytes THEN quarter ELSE SignatureClearBytes
           b == RoundDown(most, s)
           count == b \div s
           q == size \div s
           r == size - s * q
<1>1. /\ s \in Nat \ {0} /\ EntryBytes \in Nat \ {0}
      /\ SignatureClearBytes \in Nat /\ MinimumRestoreTargetBytes \in Nat
      /\ EntryBytes + 4 * s <= SignatureClearBytes
      /\ 4 * (EntryBytes + 4 * s) <= MinimumRestoreTargetBytes
  BY SectorAssumption, ClearAssumption
<1>2. A \in Nat /\ A * s < EntryBytes + s BY EntryArray
<1> HIDE DEF A
<1>3. quarter \in Nat /\ 4 * quarter <= size /\ size < 4 * quarter + 4
  <2> HIDE DEF A
  <2>1. 4 \in Nat \ {0} OBVIOUS
  <2> QED BY <2>1, DivMod, Zenon
<1> HIDE DEF quarter
<1>4. most \in Nat /\ EntryBytes + 4 * s <= most /\ most <= size
  BY <1>1, <1>3, SMT
<1> HIDE DEF most
<1>5. b \in Nat /\ b <= most /\ most < b + s /\ b % s = 0 BY <1>1, <1>4, RoundsDown
<1> HIDE DEF b
<1>6. count \in Nat /\ b = count * s BY <1>1, <1>5, Aligned
<1>7. q \in Nat /\ s * q <= size /\ size < s * q + s BY <1>1, DivMod
<1>8. (A + 2) * s < b
  <2>1. (A + 2) * s = A * s + 2 * s /\ A * s \in Nat BY <1>1, <1>2, SMT
  <2> QED BY <2>1, <1>1, <1>2, <1>4, <1>5, SMT
<1> HIDE DEF count
<1>9. A + 2 <= count BY <1>1, <1>2, <1>6, <1>8, SMT
<1>10. count <= q
  <2>1. count * s <= size BY <1>4, <1>5, <1>6, SMT
  <2> QED BY <2>1, <1>1, <1>6, FitsBySectors
<1>11. RoundDown(size - b, s) = (q - count) * s
  <2> HIDE DEF q
  <2>1. r \in Nat /\ r < s BY <1>1, <1>7, SMT DEF r
  <2>2. size - b = (q - count) * s + r BY <1>1, <1>6, <1>7, <1>10, SMT DEF r
  <2> HIDE DEF r
  <2>3. q - count \in Nat BY <1>6, <1>7, <1>10, SMT
  <2>4. ((q - count) * s + r) \div s = q - count BY <1>1, <2>1, <2>3, SMT
  <2> QED BY <2>2, <2>4 DEF RoundDown
<1>12. b > 0
  <2>1. (A + 2) * s \in Nat BY <1>1, <1>2, SMT
  <2> QED BY <2>1, <1>5, <1>8, SMT
<1>13. signatureClearRange(size, s) =
         [sectorSize |-> s, bytes |-> b, tailOffset |-> (q - count) * s]
  BY <1>11, <1>12 DEF signatureClearRange, clearBytes, TailOffset, SectorOf,
                       isSupportedSectorSize, b, most, quarter
<1> QED BY <1>6, <1>7, <1>9, <1>10, <1>13 DEF A, count, q

Request(scheme, size, s) ==
  [style |-> scheme, diskSize |-> size, sectorSize |-> s,
   layout |-> calculateGptLayout(size, s)]

\* A layout that can be created is one that the write gate and the loop device
\* accept: the calculator and the gate count the same reserve.
LEMMA GateAcceptsLayout ==
  ASSUME NEW s, NEW size \in Nat, size < Word, NEW scheme \in {"gpt", "mbr"},
         IsLargeEnough(size, s), canCreatePartitionLayout(scheme, size, s)
  PROVE  /\ s \in SectorSizes
         /\ isWritablePartitionRequest(Request(scheme, size, s))
         /\ isValidDeviceRange(size, Layout(size, s).startOffset,
                               Layout(size, s).length, s)
<1> DEFINE A == gptEntryArraySectors(s)
           offered == Layout(size, s)
           first == MiB \div s
           span == offered.length \div s
           q == size \div s
           req == Request(scheme, size, s)
<1>1. s \in SectorSizes /\ offered.length # 0
  BY DEF IsLargeEnough, isSupportedSectorSize, Layout
<1>2. s \in Nat \ {0} /\ MiB \in Nat /\ MiB % s = 0 BY <1>1, FirstMiB
<1>3. A \in Nat \ {0} BY <1>1, EntryArray
<1>4. /\ offered.startOffset = MiB
      /\ offered.length \in Nat \ {0} /\ offered.length % s = 0
      /\ MiB + offered.length + (A + 1) * s <= size
  BY <1>1, LayoutFits
<1>5. /\ first \in Nat /\ span \in Nat \ {0} /\ q \in Nat
      /\ (MiB + offered.length) \div s = first + span
      /\ 2 + A < first
      /\ first + span + A + 1 <= q
  BY <1>1, LayoutInSectors
<1>6. IsPartitionLayout(scheme, offered, s) BY DEF canCreatePartitionLayout, Layout
<1>7. /\ req.style = scheme /\ req.sectorSize = s
      /\ req.diskSize = size /\ req.layout = offered
  BY DEF Request, Layout
<1> HIDE DEF req, offered, first, span, q, A
<1>8. /\ sectorCount(req) = q
      /\ gptGeometry(req).fits <=> q >= 2 * A + 3
      /\ gptGeometry(req).firstUsableLba = 2 + A
      /\ gptGeometry(req).lastUsableLba = q - 1 - A - 1
  <2>1. sectorCount(req) = q BY <1>7 DEF sectorCount, q
  <2>2. gptGeometry(req).fits <=> q >= 2 * A + 3
    BY <1>7, <2>1, Zenon DEF gptGeometry, GeometryWithLastLba, A
  <2>3. gptGeometry(req).firstUsableLba = 2 + A
    BY <1>7, <2>1 DEF gptGeometry, GeometryWithLastLba, A
  <2>4. gptGeometry(req).lastUsableLba = q - 1 - A - 1
    BY <1>7, <2>1 DEF gptGeometry, GeometryWithLastLba, A
  <2> QED BY <2>1, <2>2, <2>3, <2>4
<1>9. isWritablePartitionRequest(req)
  <2>1. offered.startOffset \div s = first BY <1>4 DEF first
  <2>2. first + span <= q /\ q # 0 /\ q >= 2 * A + 3 /\ first >= 2 + A
        /\ first + span - 1 <= q - 1 - A - 1
    BY <1>3, <1>5, SMT
  <2>3. /\ gptGeometry(req).fits
        /\ gptGeometry(req).firstUsableLba = 2 + A
        /\ gptGeometry(req).lastUsableLba = q - 1 - A - 1
    BY <2>2, <1>8, Zenon
  <2> DEFINE endLba == (offered.startOffset + offered.length) \div s
  <2>4. endLba = first + span BY <1>4, <1>5
  <2> HIDE DEF endLba
  <2>5. /\ offered.startOffset % s = 0 /\ offered.length % s = 0
        /\ sectorCount(req) # 0 /\ endLba <= sectorCount(req)
    BY <2>2, <2>4, <1>2, <1>4, <1>8
  <2>6. /\ offered.startOffset \div s >= gptGeometry(req).firstUsableLba
        /\ endLba - 1 <= gptGeometry(req).lastUsableLba
    <3> DEFINE lowest == gptGeometry(req).firstUsableLba
               highest == gptGeometry(req).lastUsableLba
               start == offered.startOffset \div s
    <3>1. lowest = 2 + A /\ highest = q - 1 - A - 1 /\ start = first
      BY <2>1, <2>3
    <3> HIDE DEF lowest, highest, start
    <3>2. start >= lowest /\ endLba - 1 <= highest BY <3>1, <2>2, <2>4, <1>3, <1>5, SMT
    <3> QED BY <3>2 DEF lowest, highest, start
  <2>7. isWritablePartitionRequest(req) <=>
          /\ IsPartitionLayout(scheme, offered, s)
          /\ offered.startOffset % s = 0
          /\ offered.length % s = 0
          /\ sectorCount(req) # 0 /\ endLba <= sectorCount(req)
          /\ scheme = "gpt" =>
               /\ gptGeometry(req).fits
               /\ offered.startOffset \div s >= gptGeometry(req).firstUsableLba
               /\ endLba - 1 <= gptGeometry(req).lastUsableLba
    BY <1>7, Zenon DEF isWritablePartitionRequest, endLba
  <2> QED BY <2>3, <2>5, <2>6, <2>7, <1>6
<1>10. isValidDeviceRange(size, offered.startOffset, offered.length, s)
  <2>1. (A + 1) * s \in Nat BY <1>2, <1>3, SMT
  <2>2. offered.length > 0 /\ MiB <= size /\ offered.length <= size - MiB
    BY <2>1, <1>2, <1>4, SMT
  <2> QED BY <2>2, <1>1, <1>2, <1>4 DEF isValidDeviceRange, isSupportedSectorSize
<1> QED BY <1>1, <1>9, <1>10 DEF req, offered

----------------------------------------------------------------------------
\* The disk was accepted.
Accepted ==
  /\ IsLargeEnough(diskSize, sectorSize)
  /\ canCreatePartitionLayout(style, diskSize, sectorSize)

InOrder(range) == range = "backup" => style = "gpt"

TypeInv ==
  /\ diskSize \in DiskSizes
  /\ sectorSize \in ReportedSectors
  /\ style \in {"gpt", "mbr"}
  /\ pc \in {"Check", "Clear", "Done"} \cup Ranges
  /\ failure \in {"none", "refused", "late", "range", "device"}

CursorInv ==
  /\ cursor \in Nat
  /\ pc \notin Ranges => cursor = 0
  /\ pc \in Ranges => cursor <= Bytes(pc) /\ cursor % sectorSize = 0

StageInv ==
  /\ pc # "Check" => Accepted
  /\ InOrder(pc)
  /\ failure \notin {"late", "range"}
  /\ failure = "refused" => ~ Accepted

Inv == TypeInv /\ CursorInv /\ StageInv

----------------------------------------------------------------------------
\* Where the ranges lie, counted in sectors.

Array == gptEntryArraySectors(sectorSize)
Sectors == diskSize \div sectorSize
ClearCount == clear.bytes \div sectorSize
First == MiB \div sectorSize
Span == layout.length \div sectorSize

FromSector(range) ==
  CASE range = "tail"   -> Sectors - ClearCount
    [] range = "backup" -> Sectors - 1 - Array
    [] range = "data"   -> First
    [] OTHER            -> 0

SectorsOf(range) ==
  CASE range \in {"head", "tail"} -> ClearCount
    [] range = "table"            -> IF style = "gpt" THEN 2 + Array ELSE 1
    [] range = "backup"           -> Array + 1
    [] OTHER                      -> Span

\* The numbers of an accepted disk, and what lies in front of what.
LEMMA Numbers ==
  ASSUME Accepted, diskSize \in DiskSizes, style \in {"gpt", "mbr"}
  PROVE  /\ sectorSize \in SectorSizes /\ sectorSize \in Nat \ {0}
         /\ diskSize \in Nat /\ diskSize < Word
         /\ Array \in Nat \ {0} /\ Sectors \in Nat /\ ClearCount \in Nat
         /\ First \in Nat /\ Span \in Nat \ {0}
         /\ Array + 2 <= ClearCount /\ ClearCount <= Sectors
         /\ 2 + Array < First
         /\ First + Span + Array + 1 <= Sectors
         /\ clear.sectorSize = sectorSize
         /\ clear.bytes = ClearCount * sectorSize
         /\ clear.tailOffset = (Sectors - ClearCount) * sectorSize
         /\ layout.startOffset = First * sectorSize
         /\ layout.length = Span * sectorSize
         /\ (layout.startOffset + layout.length) \div sectorSize = First + Span
<1>1. diskSize \in Nat /\ diskSize < Word
  <2>1. diskSize \in 0 .. Word - 1 BY ImageAssumption
  <2> QED BY <2>1, WordAssumption, SMT
<1>2. /\ sectorSize \in SectorSizes
      /\ Layout(diskSize, sectorSize).length # 0
      /\ diskSize >= MinimumRestoreTargetBytes
  BY DEF Accepted, IsLargeEnough, isSupportedSectorSize, Layout
<1>3. sectorSize \in Nat \ {0} BY <1>2, FirstMiB
<1>4. Array \in Nat \ {0} BY <1>2, EntryArray DEF Array
<1>5. layout = Layout(diskSize, sectorSize) BY DEF layout, Layout
<1>6. layout.startOffset = MiB BY <1>1, <1>2, <1>5, LayoutFits
<1>7. /\ First \in Nat /\ Span \in Nat \ {0} /\ Sectors \in Nat
      /\ MiB = First * sectorSize
      /\ layout.length = Span * sectorSize
      /\ (MiB + layout.length) \div sectorSize = First + Span
      /\ 2 + Array < First
      /\ First + Span + Array + 1 <= Sectors
  BY <1>1, <1>2, <1>5, LayoutInSectors DEF First, Span, Sectors, Array
<1>8. /\ clear.sectorSize = sectorSize
      /\ ClearCount \in Nat
      /\ clear.bytes = ClearCount * sectorSize
      /\ clear.tailOffset = (Sectors - ClearCount) * sectorSize
      /\ Array + 2 <= ClearCount /\ ClearCount <= Sectors
  BY <1>1, <1>2, ClearedEnds DEF clear, ClearCount, Sectors, Array
<1> QED BY <1>1, <1>2, <1>3, <1>4, <1>6, <1>7, <1>8

\* Every range of an accepted disk is whole sectors on the device.
LEMMA Placement ==
  ASSUME Accepted, diskSize \in DiskSizes, style \in {"gpt", "mbr"},
         NEW range \in Ranges, InOrder(range)
  PROVE  /\ FromSector(range) \in Nat /\ SectorsOf(range) \in Nat \ {0}
         /\ FromSector(range) + SectorsOf(range) <= Sectors
         /\ Offset(range) = FromSector(range) * sectorSize
         /\ Bytes(range) = SectorsOf(range) * sectorSize
<1> USE Numbers
<1>1. FromSector(range) \in Nat /\ SectorsOf(range) \in Nat \ {0}
      /\ FromSector(range) + SectorsOf(range) <= Sectors
  BY DEF FromSector, SectorsOf, Ranges
<1>2. CASE range \in {"head", "tail"}
  BY <1>1, <1>2 DEF Offset, Bytes, FromSector, SectorsOf
<1>3. CASE range = "data"
  BY <1>1, <1>3 DEF Offset, Bytes, FromSector, SectorsOf
<1>4. CASE range = "table"
  <2>1. tableRequest.sectorSize = sectorSize BY DEF tableRequest
  <2>2. primaryBytes(tableRequest) = (2 + Array) * sectorSize
    BY <2>1 DEF primaryBytes, Array
  <2>3. Bytes(range) = IF style = "gpt" THEN (2 + Array) * sectorSize ELSE sectorSize
    BY <1>4, <2>2 DEF Bytes
  <2>4. Offset(range) = 0 /\ FromSector(range) = 0 BY <1>4 DEF Offset, FromSector
  <2>5. SectorsOf(range) = IF style = "gpt" THEN 2 + Array ELSE 1 BY <1>4 DEF SectorsOf
  <2> QED BY <1>1, <2>3, <2>4, <2>5
<1>5. CASE range = "backup"
  <2>1. /\ tableRequest.sectorSize = sectorSize
        /\ tableRequest.diskSize = diskSize
    BY DEF tableRequest
  <2>2. sectorCount(tableRequest) = Sectors BY <2>1 DEF sectorCount, Sectors
  <2>3. gptGeometry(tableRequest).fits <=> Sectors >= 2 * Array + 3
    BY <2>1, <2>2, Zenon DEF gptGeometry, GeometryWithLastLba, Array
  <2>4. gptGeometry(tableRequest).backupEntryLba = Sectors - 1 - Array
    BY <2>1, <2>2 DEF gptGeometry, GeometryWithLastLba, Array
  <2>5. Sectors >= 2 * Array + 3 OBVIOUS
  <2>6. gptBackupOffset(tableRequest) = (Sectors - 1 - Array) * sectorSize
    BY <2>1, <2>3, <2>4, <2>5, Zenon DEF gptBackupOffset
  <2>7. backupBytes(tableRequest) = (Array + 1) * sectorSize
    BY <2>1 DEF backupBytes, Array
  <2> QED BY <1>1, <1>5, <2>6, <2>7 DEF Offset, Bytes, FromSector, SectorsOf
<1> QED BY <1>2, <1>3, <1>4, <1>5 DEF Ranges

\* The write gate and the loop device accept what the layout promises.
LEMMA GatesFollow ==
  ASSUME Accepted, diskSize \in DiskSizes, style \in {"gpt", "mbr"}
  PROVE  /\ isWritablePartitionRequest(tableRequest)
         /\ isValidDeviceRange(diskSize, layout.startOffset, layout.length, sectorSize)
<1>1. diskSize \in Nat /\ diskSize < Word BY Numbers
<1>2. /\ isWritablePartitionRequest(Request(style, diskSize, sectorSize))
      /\ isValidDeviceRange(diskSize, Layout(diskSize, sectorSize).startOffset,
                            Layout(diskSize, sectorSize).length, sectorSize)
  BY <1>1, GateAcceptsLayout DEF Accepted
<1>3. tableRequest = Request(style, diskSize, sectorSize) BY DEF tableRequest, Request, layout
<1>4. layout = Layout(diskSize, sectorSize) BY DEF layout, Layout
<1> QED BY <1>2, <1>3, <1>4

\* What one call asks for is whole sectors of the range, on the device.
LEMMA AskedFits ==
  ASSUME Accepted, diskSize \in DiskSizes, style \in {"gpt", "mbr"},
         pc \in Ranges, InOrder(pc),
         cursor \in Nat, cursor % sectorSize = 0, cursor < Bytes(pc)
  PROVE  /\ OnDevice(Offset(pc) + cursor, Asked)
         /\ Asked \in Nat \ {0} /\ Asked % sectorSize = 0
         /\ cursor + Asked <= Bytes(pc)
<1> DEFINE s == sectorSize
           chunk == RoundDown(WriteChunkBytes, s)
           whole == cursor \div chunk
           ofChunk == chunk - (cursor % chunk)
           b == Bytes(pc)
           o == Offset(pc)
           at == cursor \div s
           n == Asked \div s
           last == FromSector(pc) + SectorsOf(pc)
<1>1. s \in Nat \ {0} /\ s \in SectorSizes /\ Sectors \in Nat BY Numbers
<1>2. /\ FromSector(pc) \in Nat /\ SectorsOf(pc) \in Nat \ {0}
      /\ last <= Sectors
      /\ o = FromSector(pc) * s /\ b = SectorsOf(pc) * s
  BY Placement
<1>3. b \in Nat /\ b % s = 0
  <2> DEFINE count == SectorsOf(pc)
  <2>1. count \in Nat /\ b = count * s BY <1>2
  <2> HIDE DEF count, b, s
  <2>2. (count * s) % s = 0 BY <1>1, <2>1, Multiple
  <2>3. count * s \in Nat BY <1>1, <2>1, SMT
  <2> QED BY <2>1, <2>2, <2>3
<1>4. chunk \in Nat /\ chunk % s = 0 /\ WriteChunkBytes < chunk + s /\ s <= WriteChunkBytes
  BY <1>1, ImageAssumption, RoundsDown
<1>5. chunk # 0 BY <1>1, <1>4, ImageAssumption, SMT
<1>6. Asked = IF pc \in {"head", "tail"} /\ b - cursor > ofChunk THEN ofChunk ELSE b - cursor
  BY DEF Asked
<1>7. (b - cursor) % s = 0
  <2>1. cursor <= b BY <1>3
  <2> QED BY <2>1, <1>1, <1>3, DifferenceAligned
<1> HIDE DEF b, o, chunk, s
<1>8. ofChunk \in Nat \ {0} /\ ofChunk % s = 0
  <2>1. /\ whole \in Nat
        /\ cursor % chunk = cursor - chunk * whole
        /\ chunk * whole <= cursor /\ cursor < chunk * whole + chunk
    BY <1>4, <1>5, DivMod
  <2> HIDE DEF whole
  <2>2. ofChunk = (chunk * whole + chunk) - cursor BY <1>4, <2>1, SMT
  <2>3. (chunk * whole) % s = 0
    <3>1. chunk = (chunk \div s) * s /\ chunk \div s \in Nat BY <1>1, <1>4, Aligned
    <3> DEFINE p == chunk \div s
    <3> HIDE DEF p
    <3>2. chunk * whole = (p * whole) * s /\ p * whole \in Nat
      BY <1>1, <2>1, <3>1, SMT DEF p
    <3> QED BY <1>1, <3>2, Multiple
  <2>4. chunk * whole \in Nat BY <1>4, <2>1, SMT
  <2> DEFINE past == chunk * whole
             end == past + chunk
  <2>5. end \in Nat /\ end % s = 0
    <3>1. past \in Nat /\ past % s = 0 BY <2>3, <2>4
    <3> HIDE DEF past
    <3>2. (past + chunk) % s = 0 BY <1>1, <1>4, <3>1, SumAligned
    <3> QED BY <1>4, <3>1, <3>2
  <2>6. cursor % s = 0 BY DEF s
  <2> HIDE DEF end
  <2>7. cursor < end /\ cursor <= end BY <2>1, <2>5 DEF end
  <2>8. (end - cursor) % s = 0 BY <1>1, <2>5, <2>6, <2>7, DifferenceAligned
  <2>9. end - cursor \in Nat \ {0} BY <2>5, <2>7
  <2> QED BY <2>2, <2>8, <2>9 DEF end
<1> HIDE DEF ofChunk
<1>9. b - cursor \in Nat \ {0} BY <1>3, SMT DEF b
<1>10. Asked \in Nat \ {0} /\ Asked % s = 0 /\ Asked <= b - cursor
  BY <1>6, <1>7, <1>9, <1>8
<1>11. cursor + Asked <= b BY <1>3, <1>10, SMT
<1>12. cursor = at * s /\ at \in Nat BY <1>1, Aligned DEF s
<1>13. Asked = n * s /\ n \in Nat BY <1>1, <1>10, Aligned
<1> HIDE DEF at, n
<1>14. at + n <= SectorsOf(pc)
  <2>1. (at + n) * s <= SectorsOf(pc) * s BY <1>1, <1>2, <1>11, <1>12, <1>13, SMT
  <2> QED BY <2>1, <1>1, <1>2, <1>12, <1>13, SMT
<1>15. o + cursor = (FromSector(pc) + at) * s BY <1>1, <1>2, <1>12, SMT
<1>16. (o + cursor) % s = 0 BY <1>1, <1>2, <1>12, <1>15, Multiple
<1>17. o + cursor + Asked = (FromSector(pc) + at + n) * s
  BY <1>1, <1>2, <1>12, <1>13, <1>15, SMT
<1>18. (o + cursor + Asked) \div s = FromSector(pc) + at + n
  <2> DEFINE all == FromSector(pc) + at + n
  <2>1. all \in Nat BY <1>2, <1>12, <1>13, SMT
  <2> HIDE DEF all
  <2>2. (all * s) \div s = all BY <2>1, <1>1, Multiple
  <2> QED BY <2>2, <1>17 DEF all
<1>19. (o + cursor + Asked) \div s <= Sectors
  BY <1>1, <1>2, <1>12, <1>13, <1>14, <1>18, SMT
<1>20. OnDevice(o + cursor, Asked)
  BY <1>10, <1>16, <1>19 DEF OnDevice, Sectors, s
<1> QED BY <1>10, <1>11, <1>20 DEF b, o, s

\* The clearing is never refused: its ranges are whole sectors, and not empty.
LEMMA ClearIsAligned ==
  ASSUME Accepted, diskSize \in DiskSizes, style \in {"gpt", "mbr"}
  PROVE  /\ clear.bytes # 0
         /\ isAlignedZeroRange(0, clear.bytes, clear.sectorSize)
         /\ isAlignedZeroRange(clear.tailOffset, clear.bytes, clear.sectorSize)
<1> USE Numbers
<1>1. SectorOf(sectorSize) = sectorSize BY DEF SectorOf, isSupportedSectorSize
<1>2. clear.bytes % sectorSize = 0 BY Multiple
<1>3. Sectors - ClearCount \in Nat OBVIOUS
<1>4. clear.tailOffset % sectorSize = 0 BY <1>3, Multiple
<1>5. 0 % sectorSize = 0 BY Multiple, SMT
<1>6. clear.bytes # 0
  <2>1. ClearCount \in Nat \ {0} BY SMT
  <2>2. \A n, m \in Nat \ {0} : n * m # 0 BY SMT
  <2> QED BY <2>1, <2>2
<1> QED BY <1>1, <1>2, <1>4, <1>5, <1>6 DEF isAlignedZeroRange

----------------------------------------------------------------------------
\* The order of the ranges.
LEMMA RangesInOrder ==
  ASSUME style \in {"gpt", "mbr"}, NEW range \in Ranges, InOrder(range)
  PROVE  /\ Position(range) \in DOMAIN Order
         /\ Order[Position(range)] = range
<1>1. \E i \in DOMAIN Order : Order[i] = range
  <2>1. CASE style = "gpt"
    <3>1. Order = << "head", "tail", "table", "backup", "data" >> BY <2>1 DEF Order
    <3>2. DOMAIN Order = 1 .. 5 BY <3>1
    <3> QED BY <3>1, <3>2 DEF Ranges
  <2>2. CASE style = "mbr"
    <3>1. Order = << "head", "tail", "table", "data" >> BY <2>2 DEF Order
    <3>2. DOMAIN Order = 1 .. 4 BY <3>1
    <3> QED BY <3>1, <3>2, <2>2 DEF Ranges, InOrder
  <2> QED BY <2>1, <2>2
<1> QED BY <1>1 DEF Position

\* A range is followed by another of the same style, or by none.
LEMMA NextInOrder ==
  ASSUME style \in {"gpt", "mbr"}, NEW range \in Ranges, InOrder(range)
  PROVE  FollowedBy(range) \in Ranges \cup {"Done"} /\ InOrder(FollowedBy(range))
<1> DEFINE i == Position(range)
<1>1. i \in DOMAIN Order BY RangesInOrder
<1>2. FollowedBy(range) = IF i = Len(Order) THEN "Done" ELSE Order[i + 1] BY DEF FollowedBy
<1> HIDE DEF i
<1>3. CASE style = "gpt"
  <2>1. Order = << "head", "tail", "table", "backup", "data" >> BY <1>3 DEF Order
  <2>2. Len(Order) = 5 /\ DOMAIN Order = 1 .. 5 BY <2>1
  <2>3. i \in 1 .. 4 => Order[i + 1] \in Ranges BY <2>1 DEF Ranges
  <2> QED BY <1>1, <1>2, <1>3, <2>2, <2>3 DEF InOrder
<1>4. CASE style = "mbr"
  <2>1. Order = << "head", "tail", "table", "data" >> BY <1>4 DEF Order
  <2>2. Len(Order) = 4 /\ DOMAIN Order = 1 .. 4 BY <2>1
  <2>3. i \in 1 .. 3 => Order[i + 1] \in {"tail", "table", "data"} BY <2>1
  <2> QED BY <1>1, <1>2, <2>2, <2>3 DEF InOrder, Ranges
<1> QED BY <1>3, <1>4

\* Nothing that is computed from the request changes.
LEMMA RequestKept ==
  ASSUME UNCHANGED request
  PROVE  /\ diskSize' = diskSize /\ sectorSize' = sectorSize /\ style' = style
         /\ Accepted' <=> Accepted
         /\ \A range : Bytes(range)' = Bytes(range)
<1>1. diskSize' = diskSize /\ sectorSize' = sectorSize /\ style' = style BY DEF request
<1>2. layout' = layout BY <1>1 DEF layout
<1>3. tableRequest' = tableRequest BY <1>1, <1>2 DEF tableRequest
<1>4. clear' = clear BY <1>1 DEF clear
<1>5. \A range : Bytes(range)' = Bytes(range) BY <1>1, <1>2, <1>3, <1>4 DEF Bytes
<1>6. Accepted' <=> Accepted BY <1>1 DEF Accepted
<1> QED BY <1>1, <1>5, <1>6

\* A range that has just been begun.
LEMMA EmptyStart ==
  ASSUME Inv, UNCHANGED request, pc # "Check" \/ Accepted, InOrder(pc'),
         pc' \in Ranges \cup {"Clear", "Done"},
         cursor' = 0, failure' = failure
  PROVE  Inv'
<1>1. /\ diskSize' = diskSize /\ sectorSize' = sectorSize /\ style' = style
      /\ Accepted' <=> Accepted
  BY RequestKept
<1>2. Accepted BY DEF Inv, StageInv
<1>3. diskSize \in DiskSizes /\ style \in {"gpt", "mbr"} BY DEF Inv, TypeInv
<1>4. ASSUME pc' \in Ranges PROVE 0 <= Bytes(pc)' /\ 0 % sectorSize = 0
  <2>1. PICK range \in Ranges : range = pc' BY <1>4
  <2>2. SectorsOf(range) \in Nat /\ Bytes(range) = SectorsOf(range) * sectorSize
        /\ sectorSize \in Nat \ {0}
    BY <1>2, <1>3, <2>1, Placement, Numbers
  <2>3. Bytes(range) \in Nat BY <2>2, SMT
  <2>4. Bytes(pc)' = Bytes(range)
    <3>1. Bytes(range)' = Bytes(range) BY RequestKept
    <3>2. Bytes(range)' = Bytes(pc)' BY <2>1 DEF Bytes
    <3> QED BY <3>1, <3>2
  <2> QED BY <2>2, <2>3, <2>4, Multiple, SMT
<1>5. TypeInv' BY <1>1 DEF Inv, TypeInv
<1>6. CursorInv' BY <1>1, <1>4 DEF CursorInv
<1>7. StageInv' BY <1>1, <1>2 DEF Inv, StageInv, InOrder
<1> QED BY <1>5, <1>6, <1>7 DEF Inv

\* The invariant holds before anything is checked.
LEMMA InvInit == Init => Inv
BY DEF Init, Inv, TypeInv, CursorInv, StageInv, InOrder, Ranges

\* Every step of the writing keeps it, short writes and failures included.
LEMMA InvStep == Inv /\ [Next]_vars => Inv'
<1> SUFFICES ASSUME Inv, [Next]_vars PROVE Inv'
  OBVIOUS
<1>1. diskSize \in DiskSizes /\ style \in {"gpt", "mbr"} BY DEF Inv, TypeInv
<1>2. CASE UNCHANGED vars
  <2>1. UNCHANGED request /\ pc' = pc /\ cursor' = cursor /\ failure' = failure
    BY <1>2 DEF vars
  <2>2. /\ diskSize' = diskSize /\ sectorSize' = sectorSize /\ style' = style
        /\ Accepted' <=> Accepted
    BY <2>1, RequestKept
  <2>3. Bytes(pc)' = Bytes(pc) BY <2>1, RequestKept DEF Bytes
  <2> QED BY <2>1, <2>2, <2>3 DEF Inv, TypeInv, CursorInv, StageInv, InOrder
<1>3. CASE Next
  <2>1. failure = "none" BY <1>3 DEF Next
  <2>2. UNCHANGED request
    BY <1>3 DEF Next, Progress, CheckRequest, BeginClear, WriteSome, WriteFails, EndRange, Stop
  <2>3. /\ diskSize' = diskSize /\ sectorSize' = sectorSize /\ style' = style
        /\ Accepted' <=> Accepted
        /\ \A range : Bytes(range)' = Bytes(range)
    BY <2>2, RequestKept
  <2>4. ASSUME UNCHANGED << pc, cursor >>, failure' \in {"refused", "device"},
               failure' = "refused" => ~ Accepted
        PROVE  Inv'
    <3>1. Bytes(pc)' = Bytes(pc) BY <2>2, <2>4, RequestKept DEF Bytes
    <3> QED BY <2>3, <2>4, <3>1 DEF Inv, TypeInv, CursorInv, StageInv, InOrder
  <2>5. CASE CheckRequest
    <3>1. CASE Stop("refused")
      <4>1. ~ Accepted BY <1>1, <2>5, <3>1, GatesFollow DEF CheckRequest, Stop, Accepted
      <4> QED BY <2>4, <3>1, <4>1 DEF Stop
    <3>2. CASE pc' = "Clear" /\ Accepted /\ UNCHANGED << request, cursor, failure >>
      <4>1. cursor' = 0 BY <2>5, <3>2 DEF CheckRequest, Inv, CursorInv, Ranges
      <4>2. InOrder(pc') BY <3>2 DEF InOrder
      <4> QED BY <2>2, <3>2, <4>1, <4>2, EmptyStart
    <3> QED BY <2>5, <3>1, <3>2 DEF CheckRequest, Accepted
  <2>6. CASE BeginClear
    <3>1. Accepted BY <2>6 DEF BeginClear, Inv, StageInv
    <3>2. pc' = "head" /\ UNCHANGED << request, cursor, failure >>
      BY <1>1, <2>6, <3>1, ClearIsAligned DEF BeginClear
    <3>3. cursor' = 0 BY <2>6, <3>2 DEF BeginClear, Inv, CursorInv, Ranges
    <3>4. InOrder(pc') /\ pc' \in Ranges BY <3>2 DEF InOrder, Ranges
    <3> QED BY <2>2, <3>1, <3>2, <3>3, <3>4, EmptyStart
  <2>7. CASE WriteSome
    <3>1. pc \in Ranges /\ cursor < Bytes(pc) BY <2>7 DEF WriteSome
    <3>2. Accepted /\ InOrder(pc) BY <3>1 DEF Inv, StageInv, Ranges
    <3>3. cursor \in Nat /\ cursor % sectorSize = 0 BY <3>1 DEF Inv, CursorInv
    <3>4. /\ OnDevice(Offset(pc) + cursor, Asked)
          /\ Asked \in Nat \ {0} /\ Asked % sectorSize = 0
          /\ cursor + Asked <= Bytes(pc)
      BY <1>1, <3>1, <3>2, <3>3, AskedFits
    <3>5. pc' = pc /\ failure' = failure BY <2>7, <3>4 DEF WriteSome
    <3>6. PICK count \in {Asked} \cup { n * sectorSize : n \in ShortWrites } :
            count <= Asked /\ cursor' = cursor + count
      BY <2>7, <3>4 DEF WriteSome, Advanced
    <3>7. sectorSize \in Nat \ {0} BY <1>1, <3>2, Numbers
    <3>8. count \in Nat /\ count % sectorSize = 0
      <4>1. CASE count = Asked BY <3>4, <4>1
      <4>2. ASSUME NEW n \in ShortWrites, count = n * sectorSize
            PROVE  count \in Nat /\ count % sectorSize = 0
        <5>1. n \in Nat BY ImageAssumption
        <5> QED BY <3>7, <4>2, <5>1, Multiple, SMT
      <4> QED BY <3>6, <4>1, <4>2
    <3>9. cursor' \in Nat /\ cursor' % sectorSize = 0
      <4>1. (cursor + count) % sectorSize = 0 BY <3>3, <3>7, <3>8, SumAligned
      <4>2. cursor + count \in Nat BY <3>3, <3>8
      <4> QED BY <3>6, <4>1, <4>2
    <3>10. cursor' <= Bytes(pc)
      <4>1. \E b \in Nat : b = Bytes(pc)
        <5>1. SectorsOf(pc) \in Nat /\ Bytes(pc) = SectorsOf(pc) * sectorSize
          BY <1>1, <3>1, <3>2, Placement
        <5> QED BY <3>7, <5>1, SMT
      <4> QED BY <4>1, <3>3, <3>4, <3>6, <3>8, SMT
    <3>11. Bytes(pc)' = Bytes(pc) BY <2>2, <3>5, RequestKept DEF Bytes
    <3> QED BY <2>3, <3>1, <3>5, <3>9, <3>10, <3>11
            DEF Inv, TypeInv, CursorInv, StageInv, InOrder
  <2>8. CASE WriteFails
    BY <2>4, <2>8 DEF WriteFails, Stop
  <2>9. CASE EndRange
    <3>1. pc \in Ranges /\ pc' = FollowedBy(pc) /\ cursor' = 0 /\ failure' = failure
      BY <2>9 DEF EndRange
    <3>2. InOrder(pc) /\ pc # "Check" BY <3>1 DEF Inv, StageInv, Ranges
    <3>3. pc' \in Ranges \cup {"Done"} /\ InOrder(pc') BY <1>1, <3>1, <3>2, NextInOrder
    <3> QED BY <2>2, <3>1, <3>2, <3>3, EmptyStart
  <2> QED BY <1>3, <2>5, <2>6, <2>7, <2>8, <2>9 DEF Next, Progress
<1> QED BY <1>2, <1>3

\* So it holds whenever the restore is looked at.
LEMMA InvHolds == Spec => []Inv
BY InvInit, InvStep, PTL DEF Spec

----------------------------------------------------------------------------
\* What has reached the disk of a range is never more than the range; and if it
\* is anything, the disk was accepted.
LEMMA WrittenRanges ==
  ASSUME Inv, NEW range \in Written
  PROVE  /\ Accepted /\ range \in Ranges /\ InOrder(range)
         /\ diskSize \in DiskSizes /\ style \in {"gpt", "mbr"}
         /\ Reached(range) \in Nat /\ Reached(range) <= Bytes(range)
<1>1. diskSize \in DiskSizes /\ style \in {"gpt", "mbr"} BY DEF Inv, TypeInv
<1>2. range \in Range(Order) /\ Reached(range) > 0 BY DEF Written
<1>3. range \in Ranges /\ InOrder(range)
  <2>1. PICK i \in DOMAIN Order : Order[i] = range BY <1>2 DEF Range
  <2>2. CASE style = "gpt"
    <3>1. Order = << "head", "tail", "table", "backup", "data" >> BY <2>2 DEF Order
    <3>2. DOMAIN Order = 1 .. 5 BY <3>1
    <3> QED BY <2>1, <2>2, <3>1, <3>2 DEF Ranges, InOrder
  <2>3. CASE style = "mbr"
    <3>1. Order = << "head", "tail", "table", "data" >> BY <2>3 DEF Order
    <3>2. DOMAIN Order = 1 .. 4 BY <3>1
    <3> QED BY <2>1, <2>3, <3>1, <3>2 DEF Ranges, InOrder
  <2> QED BY <1>1, <2>2, <2>3
<1>4. pc # "Check"
  <2>1. SUFFICES ASSUME pc = "Check" PROVE FALSE OBVIOUS
  <2>2. range # pc BY <1>3, <2>1 DEF Ranges
  <2>3. Reached(range) = 0 BY <2>1, <2>2 DEF Reached
  <2> QED BY <1>2, <2>3
<1>5. Accepted BY <1>4 DEF Inv, StageInv
<1>6. Bytes(range) \in Nat
  <2>1. SectorsOf(range) \in Nat /\ Bytes(range) = SectorsOf(range) * sectorSize
    BY <1>1, <1>3, <1>5, Placement
  <2>2. sectorSize \in Nat BY <1>1, <1>5, Numbers
  <2> QED BY <2>1, <2>2, SMT
<1>7. Reached(range) \in Nat /\ Reached(range) <= Bytes(range)
  <2>1. pc = range => cursor \in Nat /\ cursor <= Bytes(range)
    BY <1>3 DEF Inv, CursorInv
  <2>2. Reached(range) \in {0, Bytes(range)} \/ (pc = range /\ Reached(range) = cursor)
    BY DEF Reached
  <2> QED BY <1>6, <2>1, <2>2
<1> QED BY <1>1, <1>3, <1>5, <1>7

\* Type correctness.  The cursor never passes the end of its range.
THEOREM TypeCorrect == Spec => []TypeOK
<1>1. Inv => TypeOK BY DEF Inv, TypeInv, CursorInv, TypeOK
<1> QED BY <1>1, InvHolds, PTL

\* Nothing is refused after the point of no return, and no write misses the
\* device, on a disk of any size and sector size.
THEOREM NeverRefusedLate == Spec => []NoLateRefusal
<1>1. Inv => NoLateRefusal BY DEF Inv, StageInv, NoLateRefusal
<1> QED BY <1>1, InvHolds, PTL

\* The write gate and the loop device refuse nothing that the layout offers.
THEOREM GatesAlwaysAgree == Spec => []GatesAgree
<1>1. Inv => GatesAgree BY DEF Inv, StageInv, GatesAgree, Accepted
<1> QED BY <1>1, InvHolds, PTL

\* A range of whole sectors covers the sectors from its first to its last.
LEMMA SectorRange ==
  ASSUME sectorSize \in Nat \ {0}, NEW a \in Nat, NEW n \in Nat
  PROVE  SectorsIn(a * sectorSize, n * sectorSize) = a .. a + n - 1
<1>1. (a * sectorSize) \div sectorSize = a BY Multiple
<1>2. (a * sectorSize + n * sectorSize) \div sectorSize = a + n
  <2>1. a * sectorSize + n * sectorSize = (a + n) * sectorSize BY SMT
  <2> DEFINE c == a + n
  <2>2. c \in Nat OBVIOUS
  <2> HIDE DEF c
  <2>3. (c * sectorSize) \div sectorSize = c BY <2>2, Multiple
  <2> QED BY <2>1, <2>3 DEF c
<1> QED BY <1>1, <1>2 DEF SectorsIn

\* Every place where an old table can be is overwritten before the new one.
THEOREM OldTablesAlwaysGone == Spec => []OldTablesGone
<1>1. ASSUME Inv, "table" \in Written
      PROVE  /\ 0 .. 1 + Array \subseteq SectorsIn(0, clear.bytes)
             /\ LastSector - Array .. LastSector \subseteq SectorsIn(clear.tailOffset, clear.bytes)
  <2>1. Accepted /\ diskSize \in DiskSizes /\ style \in {"gpt", "mbr"} BY <1>1, WrittenRanges
  <2>2. /\ sectorSize \in Nat \ {0} /\ Array \in Nat /\ Sectors \in Nat /\ ClearCount \in Nat
        /\ Array + 2 <= ClearCount /\ ClearCount <= Sectors
        /\ clear.bytes = ClearCount * sectorSize
        /\ clear.tailOffset = (Sectors - ClearCount) * sectorSize
    BY <2>1, Numbers
  <2>3. SectorsIn(0, clear.bytes) = 0 .. ClearCount - 1
    <3>1. 0 * sectorSize = 0 BY <2>2, SMT
    <3>2. SectorsIn(0 * sectorSize, ClearCount * sectorSize) = 0 .. 0 + ClearCount - 1
      BY <2>2, SectorRange
    <3> QED BY <2>2, <3>1, <3>2
  <2>4. SectorsIn(clear.tailOffset, clear.bytes) = Sectors - ClearCount .. Sectors - 1
    <3>1. Sectors - ClearCount \in Nat BY <2>2
    <3>2. SectorsIn((Sectors - ClearCount) * sectorSize, ClearCount * sectorSize)
            = Sectors - ClearCount .. Sectors - ClearCount + ClearCount - 1
      BY <2>2, <3>1, SectorRange
    <3>3. Sectors - ClearCount + ClearCount - 1 = Sectors - 1 BY <2>2
    <3> QED BY <2>2, <3>2, <3>3
  <2>5. LastSector = Sectors - 1 BY DEF LastSector, Sectors
  <2> QED BY <2>2, <2>3, <2>4, <2>5
<1>2. Inv => OldTablesGone BY <1>1 DEF OldTablesGone, Array
<1> QED BY <1>2, InvHolds, PTL

\* The tables and the partition are apart, and the backup ends the device.
THEOREM TablesNeverDamaged == Spec => []TablesStayIntact
<1>1. ASSUME Inv,
             NEW a \in Written \ {"head", "tail"}, NEW b \in Written \ {"head", "tail"}, a # b
      PROVE  ~ Overlap(Offset(a), Reached(a), Offset(b), Reached(b))
  <2>1. /\ Accepted /\ diskSize \in DiskSizes /\ style \in {"gpt", "mbr"}
        /\ a \in Ranges /\ InOrder(a) /\ b \in Ranges /\ InOrder(b)
        /\ Reached(a) \in Nat /\ Reached(a) <= Bytes(a)
        /\ Reached(b) \in Nat /\ Reached(b) <= Bytes(b)
    BY <1>1, WrittenRanges
  <2>2. /\ FromSector(a) \in Nat /\ SectorsOf(a) \in Nat
        /\ Offset(a) = FromSector(a) * sectorSize /\ Bytes(a) = SectorsOf(a) * sectorSize
        /\ FromSector(b) \in Nat /\ SectorsOf(b) \in Nat
        /\ Offset(b) = FromSector(b) * sectorSize /\ Bytes(b) = SectorsOf(b) * sectorSize
    BY <2>1, Placement
  <2>3. sectorSize \in Nat \ {0} BY <2>1, Numbers
  <2>4. \/ FromSector(a) + SectorsOf(a) <= FromSector(b)
        \/ FromSector(b) + SectorsOf(b) <= FromSector(a)
    BY <1>1, <2>1, Numbers DEF FromSector, SectorsOf, Ranges
  <2>5. ASSUME NEW x \in Nat, NEW n \in Nat, NEW y \in Nat, x + n <= y
        PROVE  x * sectorSize + n * sectorSize <= y * sectorSize
    BY <2>3, <2>5, SMT
  <2>6. \/ Offset(a) + Bytes(a) <= Offset(b)
        \/ Offset(b) + Bytes(b) <= Offset(a)
    BY <2>2, <2>4, <2>5
  <2>7. Offset(a) \in Nat /\ Bytes(a) \in Nat /\ Offset(b) \in Nat /\ Bytes(b) \in Nat
    BY <2>2, <2>3, SMT
  <2> QED BY <2>1, <2>6, <2>7 DEF Overlap
<1>2. ASSUME Inv, "backup" \in Written
      PROVE  Offset("backup") + Bytes("backup") = (LastSector + 1) * sectorSize
  <2>1. Accepted /\ diskSize \in DiskSizes /\ style \in {"gpt", "mbr"} /\ InOrder("backup")
    BY <1>2, WrittenRanges
  <2>2. /\ Offset("backup") = FromSector("backup") * sectorSize
        /\ Bytes("backup") = SectorsOf("backup") * sectorSize
    BY <2>1, Placement DEF Ranges
  <2>3. FromSector("backup") = Sectors - 1 - Array /\ SectorsOf("backup") = Array + 1
    BY DEF FromSector, SectorsOf
  <2>4. sectorSize \in Nat /\ Array \in Nat /\ Sectors \in Nat BY <2>1, Numbers
  <2>5. LastSector + 1 = Sectors BY <2>4 DEF LastSector, Sectors
  <2> QED BY <2>2, <2>3, <2>4, <2>5, SMT
<1>3. Inv => TablesStayIntact BY <1>1, <1>2 DEF TablesStayIntact
<1> QED BY <1>3, InvHolds, PTL

----------------------------------------------------------------------------
\* Dividing by a product is dividing twice.
LEMMA DivideTwice ==
  ASSUME NEW a \in Nat, NEW h \in Nat \ {0}, NEW t \in Nat \ {0}
  PROVE  a \div (h * t) = (a \div t) \div h
<1> DEFINE track == a \div t
           cylinder == track \div h
           head == track - h * cylinder
           rest == a - t * track
<1>1. track \in Nat /\ t * track <= a /\ a < t * track + t BY DivMod
<1>2. cylinder \in Nat /\ h * cylinder <= track /\ track < h * cylinder + h
  BY <1>1, DivMod
<1> HIDE DEF track, cylinder
<1>3. head \in Nat /\ head <= h - 1 BY <1>1, <1>2, SMT
<1>4. rest \in Nat /\ rest < t BY <1>1, SMT
<1> HIDE DEF head, rest
<1>5. a = cylinder * (h * t) + (head * t + rest)
  <2>1. a = t * track + rest BY <1>1, <1>4, SMT DEF rest
  <2>2. track = h * cylinder + head BY <1>1, <1>2, <1>3, SMT DEF head
  <2>3. t * (h * cylinder + head) = cylinder * (h * t) + head * t BY <1>2, <1>3, SMT
  <2> QED BY <2>1, <2>2, <2>3, <1>2, <1>3, <1>4, SMT
<1>6. head * t + rest \in Nat /\ head * t + rest < h * t
  <2>1. head * t <= (h - 1) * t BY <1>3, SMT
  <2>2. (h - 1) * t = h * t - t BY SMT
  <2> QED BY <2>1, <2>2, <1>3, <1>4, SMT
<1>7. h * t \in Nat \ {0} BY SMT
<1> DEFINE product == h * t
           low == head * t + rest
<1>8. (cylinder * product + low) \div product = cylinder
  <2>1. low \in Nat /\ low < product /\ product \in Nat \ {0} BY <1>6, <1>7
  <2> HIDE DEF product, low
  <2> QED BY <2>1, <1>2, SMT
<1>9. a \div (h * t) = cylinder BY <1>5, <1>8
<1> QED BY <1>9 DEF cylinder, track

\* The three bytes name the sector they were made of, or are the marker.
LEMMA ChsNamesTheSector ==
  ASSUME NEW lba \in Nat
  PROVE  writeChs(lba) = << 254, 255, 255 >> \/ LbaOf(writeChs(lba)) = lba
<1> DEFINE H == MbrHeads
           T == MbrSectorsPerTrack
           cylinder == lba \div (H * T)
           track == lba \div T
           head == track % H
           sector == (lba % T) + 1
           high == cylinder \div 256
           middle == (sector % 64) + 64 * (high % 4)
<1>1. H \in Nat \ {0} /\ T \in Nat \ {0} /\ T \in 1 .. 63 BY ChsAssumption, SMT
<1>2. CASE cylinder > 1023
  BY <1>2 DEF writeChs
<1>3. CASE ~ (cylinder > 1023)
  <2>1. writeChs(lba) = << head, middle, cylinder % 256 >> BY <1>3 DEF writeChs
  <2>2. cylinder = track \div H
    <3>1. lba \div (H * T) = (lba \div T) \div H BY <1>1, DivideTwice
    <3> QED BY <3>1
  <2>3. track \in Nat /\ lba % T = lba - T * track /\ T * track <= lba /\ lba < T * track + T
    BY <1>1, DivMod
  <2>4. cylinder \in Nat /\ head = track - H * cylinder
    <3>1. track \in Nat BY <2>3
    <3> HIDE DEF track
    <3> QED BY <1>1, <2>2, <3>1, DivMod
  <2>5. sector \in 1 .. 63
    <3>1. lba % T \in 0 .. 62 BY <1>1, <2>3, SMT
    <3> QED BY <3>1
  <2>6. high \in 0 .. 3 /\ cylinder % 256 = cylinder - 256 * high
    <3>1. cylinder \in Nat /\ cylinder <= 1023 BY <1>3, <2>4
    <3> HIDE DEF cylinder
    <3>2. high \in Nat /\ 256 * high <= cylinder /\ cylinder % 256 = cylinder - 256 * high
      BY <3>1, DivMod
    <3> HIDE DEF high
    <3> QED BY <3>1, <3>2, SMT
  <2> HIDE DEF cylinder, high, sector
  <2>7. high % 4 = high /\ sector % 64 = sector BY <2>5, <2>6, SMT
  <2>8. middle \div 64 = high /\ middle % 64 = sector BY <2>5, <2>6, <2>7, SMT
  <2> HIDE DEF head, middle, track
  <2>9. LbaOf(writeChs(lba)) = (((cylinder % 256) + 256 * high) * H + head) * T + sector - 1
    BY <2>1, <2>8 DEF LbaOf
  <2>10. (cylinder * H + head) * T + sector - 1 = lba
    <3>1. cylinder * H + head = track BY <1>1, <2>3, <2>4, SMT
    <3>2. track * T + sector - 1 = lba
      <4>1. sector - 1 = lba - T * track BY <1>1, <2>3 DEF sector
      <4> QED BY <1>1, <2>3, <2>5, <4>1, SMT
    <3> QED BY <3>1, <3>2
  <2>11. (cylinder % 256) + 256 * high = cylinder BY <2>4, <2>6, SMT
  <2> QED BY <2>9, <2>10, <2>11
<1> QED BY <1>2, <1>3

\* The partition that the table describes is the one that is formatted.
THEOREM TableAlwaysTellsTheTruth == Spec => []TableTellsTheTruth
<1> DEFINE entry == EntryOf(tableRequest)
<1>1. ASSUME Inv, "data" \in Written
      PROVE  /\ entry.first .. entry.last = SectorsIn(layout.startOffset, layout.length)
             /\ style = "mbr" =>
                  /\ entry.chsFirst = << 254, 255, 255 >> \/ LbaOf(entry.chsFirst) = entry.first
                  /\ entry.chsLast = << 254, 255, 255 >> \/ LbaOf(entry.chsLast) = entry.last
  <2>1. Accepted /\ diskSize \in DiskSizes /\ style \in {"gpt", "mbr"} BY <1>1, WrittenRanges
  <2>2. /\ sectorSize \in Nat \ {0} /\ First \in Nat /\ Span \in Nat \ {0}
        /\ layout.startOffset = First * sectorSize
        /\ layout.length = Span * sectorSize
        /\ (layout.startOffset + layout.length) \div sectorSize = First + Span
    BY <2>1, Numbers
  <2>3. SectorsIn(layout.startOffset, layout.length) = First .. First + Span - 1
    BY <2>2, SectorRange
  <2>4. /\ tableRequest.style = style
        /\ tableRequest.layout = layout /\ tableRequest.sectorSize = sectorSize
    BY DEF tableRequest
  <2>5. layout.startOffset \div sectorSize = First /\ layout.length \div sectorSize = Span
    BY <2>2, Multiple
  <2>6. CASE style = "gpt"
    <3>1. entry = [first |-> First, last |-> First + Span - 1]
      BY <2>2, <2>4, <2>5, <2>6 DEF EntryOf
    <3> QED BY <2>3, <2>6, <3>1
  <2>7. CASE style = "mbr"
    <3>1. First + Span <= MbrMaxSectors
      BY <2>1, <2>2, <2>7 DEF Accepted, canCreatePartitionLayout, IsPartitionLayout, layout
    <3>2. Clamp(First) = First /\ Clamp(Span) = Span
      BY <2>2, <3>1, WordAssumption DEF Clamp
    <3>3. entry = [first    |-> First,
                   last     |-> First + Span - 1,
                   chsFirst |-> writeChs(First),
                   chsLast  |-> writeChs(First + Span - 1)]
      BY <2>4, <2>5, <2>7, <3>2 DEF EntryOf
    <3>4. First + Span - 1 \in Nat BY <2>2
    <3>5. writeChs(First) = << 254, 255, 255 >> \/ LbaOf(writeChs(First)) = First
      BY <2>2, ChsNamesTheSector
    <3>6. \/ writeChs(First + Span - 1) = << 254, 255, 255 >>
          \/ LbaOf(writeChs(First + Span - 1)) = First + Span - 1
      BY <3>4, ChsNamesTheSector
    <3> HIDE DEF entry
    <3>7. /\ entry.first = First /\ entry.last = First + Span - 1
          /\ entry.chsFirst = writeChs(First) /\ entry.chsLast = writeChs(First + Span - 1)
      BY <3>3
    <3> QED BY <2>3, <3>5, <3>6, <3>7
  <2> QED BY <2>1, <2>6, <2>7
<1>2. Inv => TableTellsTheTruth BY <1>1 DEF TableTellsTheTruth
<1> QED BY <1>2, InvHolds, PTL
=============================================================================
