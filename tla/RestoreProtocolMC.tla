-------------------------- MODULE RestoreProtocolMC --------------------------
\* Texts that do harm when a line breaks, or a character is cut, in the wrong place.
EXTENDS RestoreProtocol

\* A blank, a line break and a letter beyond the first plane, before and after a
\* letter, and a line that would read as a verdict.
FewTexts ==
  { << "x", NewLine, "result", Blank, "x" >>,
    << "x", Blank, HighHalf, LowHalf >>,
    << HighHalf, LowHalf, "x", HighHalf, LowHalf >>,
    << NewLine, Blank >> }

SomePlaces == { << "sdb", "1" >> }

TwoNumbers == << "1", "2" >>
=============================================================================
