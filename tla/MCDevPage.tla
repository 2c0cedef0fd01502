----------------------------- MODULE MCDevPage -----------------------------
(* A project with two routes of one name (index.c and index.post.c), a source  *)
(* that is compiled for client and server, the name that source may be moved   *)
(* to, and a header.                                                           *)
EXTENDS DevPage

CONSTANTS index, post, shared, renamed, header

UnitsOfDef == [f \in Files |->
                 CASE f \in {index, post} -> {"server"}
                   [] f \in {shared, renamed} -> {"wasm", "server"}
                   [] OTHER -> {}]
SymbolDef == [f \in Files |-> IF f = renamed THEN shared ELSE f]
BaseDef == [f \in Routes |-> index]
RankDef == [f \in Routes |-> IF f = index THEN 0 ELSE 1]
=============================================================================
