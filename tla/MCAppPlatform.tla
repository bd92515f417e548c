----------------------------- MODULE MCAppPlatform -----------------------------
(* The apps of the catalog that this small instance has.                    *)
EXTENDS AppPlatform

\* The web page needs its app; both restaurant and van sales were always on.
Catalog == [a \in Apps |-> IF a = "vansalex_web" THEN {"vansalex"} ELSE {}]
=============================================================================
