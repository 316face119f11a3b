------------------------ MODULE MCQCameraStateMachine ------------------------
(* Small instances of QCameraStateMachine for TLC.                             *)
EXTENDS QCameraStateMachine, TLC

CONSTANTS app, cb

\* One thread asks, another returns frames, silences the preview and cancels.
Photo == {"set_window", "enable", "start_preview", "stop_preview", "set_params", "take"}
Video == {"start_recording", "stop_recording"}
Both == {app, cb}
MCSettings == {[zsl |-> z, hint |-> h, restart |-> FALSE] : z, h \in BOOLEAN}
VideoCalls == (app :> (Photo \cup Video)) @@ (cb :> {"disable", "cancel", "release_frame"})
FrameBack == (app :> ((Photo \cup Video \cup {"release_frame"}) \ {"set_params"}))
Rest == {"query", "preview_enabled", "prepare_preview", "clear_window", "release", "disable"}
PhotoCalls == (app :> (Photo \cup Rest)) @@ (cb :> {"cancel"})
=============================================================================
