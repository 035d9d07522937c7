----------------------------- MODULE MCSessions -----------------------------
EXTENDS Sessions, TLC

\* In the one tab a logout and an upload, in the other tab a plain request.
MCTabOf == [c \in Call |-> IF c = "list" THEN "other" ELSE "tab"]
MCKind == ("logout" :> "logout") @@ ("upload" :> "upload") @@ ("list" :> "request")
=============================================================================
