------------------------------ MODULE MCClient ------------------------------
(* An application for Client: a page with a component, a page without, and a   *)
(* component in the layout behind the page region.                             *)
EXTENDS ClientInductive

CONSTANTS home, list, nav, counter

HeaderDef == <<>>
FooterDef == <<nav>>
PageRootsDef == [p \in Pages |-> IF p = home THEN <<counter>> ELSE <<>>]
=============================================================================
