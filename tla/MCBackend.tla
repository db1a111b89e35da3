----------------------------- MODULE MCBackend -----------------------------
(* All configurations of both backends, for TLC. *)
EXTENDS Backend

AllConfigs ==
  [tool : {"osslsigncode", "jsign"}, pin : BOOLEAN, ready : BOOLEAN]
=============================================================================
