--------------------------- MODULE MCMaintenance ---------------------------
(* Two pages of one source with the same text, a file, two days.           *)
EXTENDS Maintenance

CONSTANTS page, again, file, dof

MCDocs == {page, again, file}
MCPages == {page, again}
MCSourceOf == [d \in MCDocs |-> dof]
MCTextOf == [d \in MCDocs |-> IF d = file THEN "none" ELSE "text"]

=============================================================================
