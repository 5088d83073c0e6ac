---------------------------- MODULE MCWebServer -----------------------------
(* WebServer for TLC.                                                      *)
EXTENDS WebServer
=============================================================================
