---------------------------- MODULE MCGlobalCache ----------------------------
(***************************************************************************)
(* One request at a time with two globals and three assignable values; a    *)
(* RefData for each global, since a slot is boxed at most once.           *)
(***************************************************************************)
EXTENDS GlobalCache

MCNames == {"x", "y"}
MCVals == {"null", "v1", "v2"}
=============================================================================
