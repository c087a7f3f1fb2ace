------------------------------- MODULE MCLive -------------------------------
EXTENDS LiveViews

(***************************************************************************)
(* A small instance of the live views: the MCP process follows the         *)
(* approvals, a tab the approvals and the pages.                           *)
(***************************************************************************)
CONSTANTS approvals, pages, r1

Followed == [c \in Clients |->
  IF c = "mcp" THEN {approvals} ELSE {approvals, pages}]
Payloads == ApprovalNews \cup {Elsewhere}
=============================================================================
