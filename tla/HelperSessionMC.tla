-------------------------- MODULE HelperSessionMC --------------------------
(***************************************************************************)
(* HelperSession for TLC: the installed helper, another build, one that    *)
(* announces itself twice in either way, and a stranger.                   *)
(***************************************************************************)
EXTENDS HelperSessionSafety

AllBuilds == { << "good" >>, << "bad" >>, << "good", "good" >>, << "bad", "good" >>,
               << "bad", "bad" >>, << >> }

OtherBuilds == { << "bad" >> }
=============================================================================
