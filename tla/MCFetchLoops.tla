----------------------------- MODULE MCFetchLoops -----------------------------
(***************************************************************************)
(* FetchLoops with a service that always has a protocol and one that has   *)
(* none at its last revision.                                              *)
(***************************************************************************)
EXTENDS FetchLoops

CONSTANTS gas, s2

MCNames == {gas, s2}

MCRevisions == 1..3

MCUids == {<<gas, 1>>} \cup ({s2} \X MCRevisions)

MCHasProtocol == MCUids \ {<<s2, 3>>}
================================================================================
