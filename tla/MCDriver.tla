----------------------------- MODULE MCDriver -------------------------------
(* Values for a 16 GiB card: the selector of 16 GiB, none and a bad one; a *)
(* size there may be room for instead; two policies of firmware.           *)
EXTENDS Driver

MCPolicies == {{18, 31}, {17, 20, 31}}
=============================================================================
