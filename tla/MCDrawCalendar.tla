--------------------------- MODULE MCDrawCalendar ---------------------------
(***************************************************************************)
(* Small instances of DrawCalendar.                                        *)
(***************************************************************************)
EXTENDS DrawCalendar

(* Part of the first product, part of the second, all.                     *)
MCRowsWritten == {5, 40, 48}
=============================================================================
