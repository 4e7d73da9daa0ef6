----------------------------- MODULE MCProvider -----------------------------
(* The provider: reading a history page by page (HistoryPaging), and single  *)
(* calls (RpcClient).  They share nothing, so a behaviour is one or other.   *)
EXTENDS HistoryPaging, RpcClient

NoReader ==
    /\ head = 0 /\ method = "page" /\ direction = "desc"
    /\ toBlock = None /\ cursor = None /\ page = 0 /\ pc = "page"
    /\ collected = <<>> /\ last = None /\ sorry = FALSE

NoCall ==
    /\ options = Nothing /\ called = Nothing /\ arguments = <<>> /\ stage = "none"
    /\ wire = <<>> /\ executed = 0 /\ answer = Answer
    /\ reason = Nothing /\ outcome = Nothing

ProviderInit == (Init /\ NoCall) \/ (NoReader /\ RpcInit)

ProviderNext ==
    \/ stage = "none" /\ Next /\ UNCHANGED rpcVars
    \/ RpcNext /\ UNCHANGED vars

ProviderSpec == ProviderInit /\ [][ProviderNext]_<<vars, rpcVars>>

=============================================================================
