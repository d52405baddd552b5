--------------------------- MODULE MCHttpSession ----------------------------
(***************************************************************************)
(* Small instances of HttpSession.  Workers are numbers, None being 0.     *)
(***************************************************************************)
EXTENDS HttpSession

\* The shape of task/kaoshi2.xml, and two exchanges in a row.
OneExchange == <<"send", "recv">>
TwoExchanges == <<"send", "recv", "send", "recv">>
=============================================================================
