----------------------------- MODULE MCSearchPage -----------------------------
(* Small instances of SearchPage for TLC. *)
EXTENDS SearchPage, TLC

(* No hit, one page, and more pages than buttons.                           *)
MCQueries == {"none", "few", "many"}
MCTotal == "none" :> 0 @@ "few" :> 8 @@ "many" :> 57
=============================================================================
