--------------------------- MODULE MCAsyncLogger ---------------------------
(* The logger with files of today, of the last days and of long ago. *)
EXTENDS AsyncLogger

MCOldDays == {-5, -1, 0, 1}
=============================================================================
