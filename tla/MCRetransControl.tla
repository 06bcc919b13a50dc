--------------------------- MODULE MCRetransControl ---------------------------
(***************************************************************************)
(* Constants for checking RetransControl.  Path 0 is the primary path of   *)
(* RSG 0, path 1 a redundant sub-path of it; RSG 5 shows the general case  *)
(* in which RSG and path numbers differ.                                   *)
(***************************************************************************)
EXTENDS RetransControl, TLC

MCDownPaths == {0, 1}
MCDownEntries == {<<0, 0>>, <<0, 1>>}
MCDownEntriesOfRsg5 == {<<5, 0>>, <<5, 1>>}
MCPrimaryOnly == {<<0, FALSE>>}
MCPrimaryOrRsp == {<<0, FALSE>>, <<1, TRUE>>}

\* Requests on the two up paths are answered alike.
MCSymmetry == Permutations(UpPaths)
===============================================================================
