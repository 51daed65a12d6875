---------------------------- MODULE MCUartLink ----------------------------
(* Files of one and of five units, sent in chunks of two over one of two   *)
(* units: an upload of several chunks, the last of them partly filled,     *)
(* over a file of one chunk and over a longer one; a shorter file over a   *)
(* longer, which is cut; and one whose source has become so much shorter   *)
(* that the zeros sent for what is missing fill more than a chunk.  A      *)
(* chunk is two clusters, so that its second cluster is the one that the   *)
(* descriptor stays on.                                                    *)
EXTENDS UartLink
=============================================================================
