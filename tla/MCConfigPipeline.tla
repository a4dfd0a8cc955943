--------------------------- MODULE MCConfigPipeline ---------------------------
(* The configuration pipeline with up to two edits to one group of         *)
(* sections and one file changed between validation and lowering.          *)
EXTENDS ConfigPipeline

MCScenarios == {"limits", "protocol", "listeners", "secrets", "auth", "upstreams", "routes"}
=============================================================================
