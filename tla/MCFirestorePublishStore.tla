----------------------- MODULE MCFirestorePublishStore -----------------------
(* Instance for TLC: the values of the constants are in the .cfg file.     *)
(* Liveness is checked, so handlers are not made symmetric.                *)
EXTENDS FirestorePublishStore
=============================================================================
