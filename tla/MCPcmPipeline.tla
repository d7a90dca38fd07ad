----------------------------- MODULE MCPcmPipeline -----------------------------
(* Instances of PcmPipeline for TLC: see the cfg file.                        *)
EXTENDS PcmPipeline
=============================================================================
