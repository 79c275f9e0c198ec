---------------------------- MODULE MCPortfolio -----------------------------
(***************************************************************************)
(* The four members that race starts on a task with sensing actions.       *)
(***************************************************************************)
EXTENDS Portfolio

FourMembers == <<"gbfs+kadd", "gbfs+ks", "aostar+kadd", "replan+kadd">>
PolicyMembers == {"aostar+kadd", "replan+kadd"}
=============================================================================
