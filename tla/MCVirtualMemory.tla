-------------------------- MODULE MCVirtualMemory --------------------------
(***************************************************************************)
(* The instance of VirtualMemory for TLC: four buffers in seven bytes,      *)
(* sized so that an eviction leaves two holes which only defragmenting      *)
(* joins, and a chain of two views which cover half of their buffer.        *)
(***************************************************************************)
EXTENDS VirtualMemory

CONSTANTS b1, b2, b3, b4, v1, v2, i1

TheValue == {b1, b2, b3, b4}
TheValueBytes == b1 :> 3 @@ b2 :> 1 @@ b3 :> 2 @@ b4 :> 2
TheAlias == {v1, v2}
TheParent == v1 :> b3 @@ v2 :> v1
TheAliasBytes == v1 :> 1 @@ v2 :> 1
=============================================================================
