---------------------------- MODULE SystemGuardMC ----------------------------
\* The system's root and home on another drive or on the stick, directly, in a
\* pool, or behind the mapper; and the stick's own file systems, one of them
\* mounted on a directory of the other, with another drive's in between.
EXTENDS SystemGuard

MountAt(at, drive, via) == [at |-> at, drive |-> drive, via |-> via]

AllMounts ==
  { MountAt(at, "stick", via) : at \in { << >>, << "home" >> }, via \in Vias } \cup
  { MountAt(at, "disk", "partition") :
      at \in { << >>, << "home" >>, << "media", "a", "b" >> } } \cup
  { MountAt(at, "stick", "partition") :
      at \in { << "media", "a" >>, << "media", "a", "b" >>, << "media", "a", "b", "c" >> } } \cup
  { MountAt(<< "media", "a" >>, "stick", "mapper") }

Guarded == { << >>, << "home" >>, << "boot" >>, << "boot", "efi" >> }
=============================================================================
