---------------------------- MODULE MCBlobVolume ----------------------------
(***************************************************************************)
(* Small instances of BlobVolume.  Sizes are counted in units of one       *)
(* headroom; the passes are named, so that "watch" is none of them.        *)
(***************************************************************************)
EXTENDS BlobVolume

NoPass == {}
OnePass == {"startup"}
=============================================================================
