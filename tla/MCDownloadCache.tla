---------------------------- MODULE MCDownloadCache ----------------------------
(* Instances of DownloadCache for TLC. *)
EXTENDS DownloadCache

CONSTANTS a, b   \* destinations

\* Two downloads and a local archive; the last download shares the destination
\* of the first, in another scenario.
MCScenarios == {{1, 2}, {1, 3}}
MCUrlOf == <<1, 2, 3>>
MCPathOf == <<a, b, a>>
MCSize == <<2, 2, 1>>
=============================================================================
