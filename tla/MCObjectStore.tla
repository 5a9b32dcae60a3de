--------------------------- MODULE MCObjectStore ---------------------------
(* Two crawls that store the same page, a derived text and its reader.     *)
EXTENDS ObjectStore

CONSTANTS crawl, again, extract, reader, page, text, v1, v2

MCKind == [c \in Calls |->
  CASE c \in {crawl, again} -> "raw" [] c = extract -> "derived" [] OTHER -> "get"]
MCPath == [c \in Calls |-> IF c = extract THEN text ELSE page]
MCBody == [c \in Calls |-> IF c = again THEN v2 ELSE v1]
=============================================================================
