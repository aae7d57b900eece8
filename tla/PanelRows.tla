------------------------------ MODULE PanelRows ------------------------------
(* How a handler's changes to a loaded row reach the panel database.         *)

\* Only the columns that differ from what was loaded are written, so two
\* writers of one row can leave a mixture.
Changed(row, loaded, new) == [c \in DOMAIN new |-> IF new[c] = loaded[c] THEN row[c] ELSE new[c]]

=============================================================================
