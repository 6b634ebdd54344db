------------------------ MODULE MCPersistentCamera ------------------------
(* PersistentCamera with one camera and at most two readers. *)
EXTENDS PersistentCamera

CONSTANT cam

MCCameras == {cam}
=============================================================================
