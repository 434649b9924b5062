--------------------------- MODULE MCImageDownload ---------------------------
(* Instances of ImageDownload for model checking. *)
EXTENDS ImageDownload

\* The second version is shorter than what is left of the first can be.
TwoLengths == <<3, 2>>
TwoEncodedLengths == <<2, 1>>

AnyFraming == {"sized", "chunked", "close"}
Either == BOOLEAN
=============================================================================
