----------------------------- MODULE MCSession -----------------------------
(* Two logins of the gateway.  Of the six queries of startQueries one stands *)
(* for those of the first login; the second login has its settlement only.  *)
EXTENDS Session, TLC

CONSTANTS settle1, settle2, account, instrument

SessionScript ==
    (Worker :> <<settle1, settle2>>) @@ (1 :> <<instrument>>) @@ (2 :> <<>>)

\* One login with two of the queries.
OneLogin == (Worker :> <<settle1>>) @@ (1 :> <<account, instrument>>)
=============================================================================
