------------------------------- MODULE MCFileStore -------------------------------
(***************************************************************************)
(* Three callers: a and b share a store object, c uses another object on the *)
(* same file, in another process.  Two token pairs let a comparison match or *)
(* differ; the rest of a session needs one value only.                       *)
(***************************************************************************)
EXTENDS FileStore, TLC
CONSTANTS a, b, c

Callers == {a, b, c}
Stores == (a :> "own") @@ (b :> "own") @@ (c :> "other")
Homes == ("own" :> "host") @@ ("other" :> "cli")
Calls == (a :> {"replace"}) @@ (b :> {"save"}) @@ (c :> {"load", "replace"})
=================================================================================
