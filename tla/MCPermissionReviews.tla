------------------------ MODULE MCPermissionReviews ------------------------
(* Instance of PermissionReviews for TLC. *)
EXTENDS PermissionReviews

CONSTANTS w1, w2
==============================================================================
