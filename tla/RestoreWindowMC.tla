-------------------------- MODULE RestoreWindowMC --------------------------
EXTENDS RestoreWindowSafety

\* The system disk protected or unknown, one drive or two, and a scan that failed.
MCScans ==
  { [guard |-> "sda", error |-> FALSE, disks |-> << "sda", "sdb" >>],
    [guard |-> "nothing", error |-> FALSE, disks |-> << "sdb" >>],
    [guard |-> "sda", error |-> TRUE, disks |-> << >>] }

\* FAT32 does not fit the drive.
MCFits == { << "sda", "exFAT" >>, << "sdb", "exFAT" >>, << "sda", "FAT32" >> }
=============================================================================
