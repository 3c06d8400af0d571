----------------------------- MODULE MCRpcChannel -----------------------------
EXTENDS RpcChannel

MCTag == <<3>>

=============================================================================
