--------------------------- MODULE MCProxyBridges ---------------------------
(* A small instance of ProxyBridges for TLC. *)
EXTENDS ProxyBridges, TLC

CONSTANTS p1, p2

\* Two variables that name one endpoint, one before them that names another, and
\* one that names a remote proxy.  Bound: of three launchers one has two bridges.
Mixed  == 1 :> 2 @@ 2 :> 0 @@ 3 :> 1 @@ 4 :> 2
Single == 1 :> 0 @@ 2 :> 1
Shared == 1 :> 2 @@ 2 :> 2
MixedFirst == <<{Mixed}, {Single}, {Shared}>>

=============================================================================
