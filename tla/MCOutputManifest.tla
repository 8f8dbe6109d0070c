-------------------------- MODULE MCOutputManifest --------------------------
(***************************************************************************)
(* Two calls at once, of the three callers: two threads of one process and *)
(* one of another.  A .pvd that refers to a .vtm, which is not of the VTK  *)
(* family the manifest lists but is the target of the catalog, and a       *)
(* .vtkhdf; one change of these files.                                     *)
(***************************************************************************)
EXTENDS OutputManifest, TLC

CONSTANTS main, thread, other

MCProcess == (main :> "p") @@ (thread :> "p") @@ (other :> "q")
MCReferences == "pvd" :> {"vtm"}
MCSymmetry == Permutations({main, thread})
=============================================================================
