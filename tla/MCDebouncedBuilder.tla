------------------------- MODULE MCDebouncedBuilder -------------------------
(* Up to three runs, a call of the API, a page and its data file.          *)
EXTENDS DebouncedBuilder

CONSTANTS m1, index, data

MCManuals == {m1}
MCFiles == {index, data}
=============================================================================
