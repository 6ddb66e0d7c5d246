---------------------------- MODULE AddressPool ----------------------------
(***************************************************************************)
(* What Pool promises to its clients (the class comment of Pool.h): it      *)
(* hands out addresses for buffers kept in a memory of finite size, so that *)
(* no two active buffers overlap and none touches the reserved bytes at the *)
(* start of the memory.  Which free address a buffer gets, and whether a    *)
(* request that could be served is served, is left open.                   *)
(***************************************************************************)
EXTENDS Integers

CONSTANTS Value,      \* the memrefs that may ask for an address
          NumWords,   \* words of the memory
          Reserved,   \* words at its start that are never handed out
          SizeWords(_) \* the words a memref occupies

VARIABLE live         \* live[v]: the block of the active buffer v

Block(base, size) == base .. base + size - 1

BlockOf(v) == Block(live[v].baseAddr, live[v].size)

Init == live = << >>

Allocate(v) ==
  /\ v \notin DOMAIN live
  /\ \E base \in Reserved .. NumWords - SizeWords(v) :
       /\ \A u \in DOMAIN live : BlockOf(u) \cap Block(base, SizeWords(v)) = {}
       /\ live' = [u \in DOMAIN live \cup {v} |->
                     IF u = v THEN [baseAddr |-> base, size |-> SizeWords(v)]
                              ELSE live[u]]

Free(v) == live' = [u \in DOMAIN live \ {v} |-> live[u]]

Clear == live' = << >>

Next == \/ \E v \in Value : Allocate(v) \/ Free(v)
        \/ Clear

Spec == Init /\ [][Next]_live
=============================================================================
