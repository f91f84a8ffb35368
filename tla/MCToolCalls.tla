------------------------------ MODULE MCToolCalls ------------------------------
(* Model values for ToolCalls: a shared call, a shared one that needs the    *)
(* user's approval and an exclusive one.                                     *)
EXTENDS ToolCalls
===============================================================================
