------------------------------- MODULE Fat32MC -------------------------------
\* Every size of a scaled-down FAT32.
EXTENDS Fat32

ScaledVolumes == 0 .. 420

ScaledUnits == << 4, 8, 16, 32, 64 >>

ScaledPreferred == << << 150, 4 >>, << 220, 8 >> >>
=============================================================================
