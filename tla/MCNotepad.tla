----------------------------- MODULE MCNotepad -----------------------------
(* A short line and one that fills the buffer, for TLC. *)
EXTENDS Notepad, TLC

CONSTANTS blank, short, long

mc_Cut == blank :> {} @@ short :> {short} @@ long :> {short, long}
=============================================================================
