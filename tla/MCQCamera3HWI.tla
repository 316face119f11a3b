--------------------------- MODULE MCQCamera3HWI ---------------------------
(* Small instances of QCamera3HWI: a preview and a picture stream.           *)
EXTENDS QCamera3HWI

CONSTANTS preview, blob
TwoStreams  == {preview, blob}
BlobOnly    == {blob}
PreviewOrBoth == {{preview}, {preview, blob}}
OnlyPreview == {{preview}}
OnlyBlob    == {{blob}}
NoRequest   == {}
=============================================================================
