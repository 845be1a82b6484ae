----------------------------- MODULE MCExtension -----------------------------
(* A small instance of Extension: a function of each kind, in the order LOAD *)
(* registers them.                                                           *)
EXTENDS Extension

MCFunctions == <<"ags_groups", "read_ags", "read_ags_text", "ags_rules">>
MCReading == {"ags_groups", "read_ags"}
MCCertified == {"read_ags"}
=============================================================================
