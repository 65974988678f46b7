------------------------------- MODULE MCIoApi -------------------------------
(* The calls with every setting of IoApiCommonVars, for TLC.                *)
EXTENDS IoApi
=============================================================================
