--------------------------- MODULE MCEspiAnalyzer ---------------------------
(* Values for EspiAnalyzer's constants: a write of each kind that matters.  *)
EXTENDS EspiAnalyzer

MCConfigs == {[enc |-> 2, crc |-> TRUE], [enc |-> 3, crc |-> TRUE]}

MCMisreads == {NoUpdate, UncertainUpdate}
=============================================================================
