---------------------------- MODULE MCModulePass ----------------------------
(***************************************************************************)
(* An instance of ModulePass for TLC: a module without an image, a         *)
(* modifier, and one with a third format; a period of 2, and one that does *)
(* not fit into eight bits.                                                *)
(***************************************************************************)
EXTENDS ModulePass, TLC

MCUnit        == 1..3
MCWanted      == (1 :> "NONE" @@ 2 :> "BGR888" @@ 3 :> "YV12")
MCModifier    == {2}
MCConverters  == {<<"YUYV", "YV12">>, <<"YUYV", "BGR888">>, <<"BGR888", "YV12">>}
MCPeriodValue == {2, 256}
=============================================================================
