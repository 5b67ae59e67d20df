---------------------------- MODULE MCDownloader ----------------------------
(***************************************************************************)
(* Instances of Downloader: version 2 is not signed, and versions differ   *)
(* in size, so that a partial file of one can have the size of another.    *)
(***************************************************************************)
EXTENDS Downloader, TLC

MCSize == 1 :> 2 @@ 2 :> 1 @@ 3 :> 3
=============================================================================
