---------------------------- MODULE MCZipArchive ----------------------------
(***************************************************************************)
(* Up to four additions of files of no, one and five pieces and of one whose  *)
(* name is refused, to an archive with room for three files and twenty cells: *)
(* both limits are met, and a failed addition of the long file leaves more    *)
(* than the four cells that are searched behind the end record.               *)
(***************************************************************************)
EXTENDS ZipArchive
CONSTANTS empty, small, large, drive
MCFiles   == {empty, small, large, drive}
MCRefused == {drive}
MCPieces  == [f \in MCFiles |-> CASE f = empty -> 0 [] f = small -> 1 [] f = large -> 5 [] f = drive -> 1]
=============================================================================
