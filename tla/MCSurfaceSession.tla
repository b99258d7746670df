--------------------------- MODULE MCSurfaceSession ---------------------------
(* Three requests, of any pages.                                            *)
EXTENDS SurfaceSession
================================================================================
