------------------------- MODULE MCQCameraPostProc -------------------------
(* A small instance of QCameraPostProc.                                      *)
EXTENDS QCameraPostProc

BothModes == BOOLEAN
=============================================================================
