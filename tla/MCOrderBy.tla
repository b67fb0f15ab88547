----------------------------- MODULE MCOrderBy -----------------------------
(* OrderBy on small windows.  The operator's goroutine may wait for an      *)
(* element that never comes.                                                *)
EXTENDS OrderBy
=============================================================================
