----------------------------- MODULE DiskImageMC -----------------------------
\* Every size of three stretches of a scaled-down disk: around the smallest, and
\* around the sizes at which the partition grows by a MiB.
EXTENDS DiskImageSafety

ScaledSizes == (84 .. 128) \cup (196 .. 214) \cup (290 .. 312)

\* What SectorAssumption and ClearAssumption ask of the numbers, with the code's
\* own: sectors of 512 to 4096 bytes, a MiB, 16 KiB of entries, 4 MiB that are
\* cleared and 8 MiB that a drive must have.
ASSUME CodeNumbersFit ==
  \A s \in {512, 1024, 2048, 4096} :
    /\ 1048576 % s = 0 /\ 16384 + 3 * s <= 1048576
    /\ 16384 + 4 * s <= 4194304
    /\ 4 * (16384 + 4 * s) <= 8388608
=============================================================================
