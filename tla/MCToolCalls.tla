----------------------------- MODULE MCToolCalls -----------------------------
(* Constants of ToolCalls for TLC. *)
EXTENDS ToolCalls, TLC

Preparing == {<<"disk_prepare", "wipe">>, <<"disk_prepare", "init_gpt">>}
=============================================================================
