------------------------------ MODULE MCScrape ------------------------------
(* The traffic of MCExporter for the instances of Scrape.                  *)
EXTENDS MCExporter, Scrape
=============================================================================
