---------------------------- MODULE MCTarStream ----------------------------
(* Archives of up to three members whose bodies are empty, end inside a    *)
(* block or fill it, cut at every length, behind every reader.             *)
EXTENDS TarStream
=============================================================================
