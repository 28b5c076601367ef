---------------------------- MODULE MCNoteWrite ----------------------------
(* One run of NoteWrite; another run with the same text is one of the others. *)
EXTENDS NoteWrite
=============================================================================
