-------------------------- MODULE MCESP32HTTPClient --------------------------
(* A small instance of ESP32HTTPClient for TLC. *)
EXTENDS ESP32HTTPClient

MCPorts == {0, 8443}

=============================================================================
