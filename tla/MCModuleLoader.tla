--------------------------- MODULE MCModuleLoader ---------------------------
(***************************************************************************)
(* An instance of ModuleLoader for TLC: the two load paths, a name with a  *)
(* dot and what is left of it.                                             *)
(***************************************************************************)
EXTENDS ModuleLoader, TLC

MCDir      == {"system", "user"}
MCLib      == {"a", "a.b"}
MCStripped == ("a" :> "a" @@ "a.b" :> "a")
MCInitial  == {<<"user", "a">>}
=============================================================================
