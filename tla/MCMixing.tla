------------------------------ MODULE MCMixing ------------------------------
(***************************************************************************)
(* A small instance of Mixing for TLC: devices that are faster, slower and *)
(* as fast as the target, which is mono or stereo.                         *)
(***************************************************************************)
EXTENDS Mixing

CONSTANTS s1, s2

F(rate, channels) == [rate |-> rate, channels |-> channels]

Devices   == {F(6, 1), F(5, 2), F(4, 2), F(2, 1)}
Targets   == {F(4, 1), F(4, 2)}
OneHalf   == <<1, 2>>
Extremes  == {-32768, 32767}
RoundedUp == {<<3, 6, 4>>}
OneShort  == {4}
=============================================================================
