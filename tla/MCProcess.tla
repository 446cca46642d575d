------------------------------ MODULE MCProcess ------------------------------
(***************************************************************************)
(* A small instance of Process: a Zebra that is replaced by a Zakura,      *)
(* which is replaced by a Zakura without authentication; a user without a  *)
(* password, a malformed cookie and a blank path in the environment; valid,*)
(* misdirected and invalid flags.                                          *)
(***************************************************************************)
EXTENDS Process, TLC

CONSTANT elsewhere

Flags(override, rpc, ms) == [indexer_rpc_url |-> override, rpc_url |-> rpc, poll_ms |-> ms]

MCConfigs ==
  {Flags(None, NodeUrl, 1), Flags(Blank, NodeUrl, 1), Flags(NodeUrl, elsewhere, 1),
   Flags(elsewhere, NodeUrl, 1), Flags(None, NodeUrl, 0), Flags(Blank, Blank, 1)}

MCUserPass == <<None, [user |-> "operator", pass |-> Blank]>>

MCInline == <<NoColon, None>>

MCExplicit == <<Blank, "configured">>

MCCache == <<"zebra cache", "zakura cache">>

MCRunKind == <<"zebra", "zakura", "zakura">>

LastRun == {3}

NoPairs == [r \in Runs |-> {}]

MCCookiePath == [k \in Kinds |-> IF k = "zakura" THEN "zakura cache" ELSE "zebra cache"]
=============================================================================
