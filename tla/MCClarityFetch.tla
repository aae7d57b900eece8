---------------------------- MODULE MCClarityFetch ----------------------------
(***************************************************************************)
(* ClarityFetch for TLC: two combinations, saved in either order.         *)
(***************************************************************************)
EXTENDS ClarityFetch

CONSTANTS url, device

MCConfigs == {<<url, device>>, <<device, url>>}

=============================================================================
