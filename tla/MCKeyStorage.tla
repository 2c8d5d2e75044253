---------------------------- MODULE MCKeyStorage ----------------------------
(* A small instance of KeyStorage for TLC, and what the documentation says *)
(* of structs.                                                             *)
EXTENDS KeyStorage

UpToFour == 1 .. 4

(* "Binds and populates a C++ struct mapped with REST_JSON_MAP directly    *)
(* from root or a nested path": restrequest.md 277, of requests that       *)
(* reserve room for all their keys (RestRequest.cpp 104, RestTypes.h 213). *)
EveryKeyLive == \A i \in DOMAIN keys : Live(i)

=============================================================================
