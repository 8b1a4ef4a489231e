------------------------------ MODULE MCMerger ------------------------------
(***************************************************************************)
(* A small instance of Merger for TLC: the chunks of one source are        *)
(* shorter than a window, so that two may fall into the same one, those of *)
(* the other are longer, so that it leaves windows out.                    *)
(***************************************************************************)
EXTENDS Merger

CONSTANTS s1, s2

ShortAndLong == [s \in Sources |-> IF s = s1 THEN 2 ELSE 4]
=============================================================================
