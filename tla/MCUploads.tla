----------------------------- MODULE MCUploads ------------------------------
(* Archives of two pieces; everything may go wrong, twice.                  *)
EXTENDS Uploads

Anything == {"zip", "download", "tar", "clone", "request", "poll", "read", "network",
             "refuse", "job"}
=============================================================================
